----------------------------- MODULE OcipProofs -----------------------------
(* Theorems about Ocip, for any agents, exchanges, drafts and bounds.      *)
EXTENDS Ocip, TLAPS

(***************************************************************************)
(* What the pure parts of the hooks return.                                *)
(***************************************************************************)
LEMMA LimitIsNat == \A d \in Drafts : LimitOf(d) \in Nat
  BY OcipAssumption DEF LimitOf, DraftRecord

LEMMA InitExchangeType ==
  ASSUME NEW limit \in Nat
  PROVE  InitExchange(limit) \in ExchangeState
  BY DEF InitExchange, ExchangeState

LEMMA StateForType ==
  ASSUME TypeOK, NEW a \in Agents, NEW x \in Exchanges, NEW d \in Drafts
  PROVE  StateFor(a, x, d) \in ExchangeState
  BY LimitIsNat, InitExchangeType DEF StateFor, TypeOK

\* incrementRound adds one to the round and leaves the limit alone.
LEMMA IncrementRoundType ==
  ASSUME NEW s \in ExchangeState
  PROVE  /\ IncrementRound(s) \in ExchangeState
         /\ IncrementRound(s).currentRound = s.currentRound + 1
         /\ IncrementRound(s).maxRounds = s.maxRounds
  BY DEF IncrementRound, ExchangeState

LEMMA EnvelopeType ==
  ASSUME NEW a \in Agents, NEW d \in Drafts, NEW s \in ExchangeState
  PROVE  BuildEnvelope(a, d, s) \in Envelope
<1>1. d \in DraftRecord /\ MaxShared[a] \in Levels
  BY OcipAssumption
<1>2. 0..MaxShared[a] \in SUBSET Levels
  BY <1>1 DEF Levels
<1>. QED
  BY <1>1, <1>2 DEF BuildEnvelope, Envelope, DraftRecord, ExchangeState

LEMMA OutgoingType ==
  ASSUME TypeOK, NEW a \in Agents, NEW b \in Agents, NEW x \in Exchanges,
         NEW d \in Drafts, nextId <= MaxSends
  PROVE  Outgoing(a, b, x, d) \in Message
<1>1. BuildEnvelope(a, d, IncrementRound(StateFor(a, x, d))) \in Envelope
  BY StateForType, IncrementRoundType, EnvelopeType
<1>2. Allowed(d) \in SUBSET Levels
  BY OcipAssumption DEF Allowed, DraftRecord
<1>3. nextId \in 1..MaxSends /\ epoch[a] \in Nat
  BY OcipAssumption DEF TypeOK
<1>. QED
  BY <1>1, <1>2, <1>3 DEF Outgoing, Message

LEMMA EntryType ==
  ASSUME NEW m \in Message, NEW role \in {"initiator", "responder"},
         NEW event \in {"in_progress", "escalated", "denied", "data_withheld"},
         NEW s \in ExchangeState
  PROVE  Entry(m, role, event, s) \in AuditEntry
  BY DEF Entry, AuditEntry, Message, ExchangeState

LEMMA ResponderEntryType ==
  ASSUME NEW m \in Message, NEW event \in {"in_progress", "denied"}
  PROVE  ResponderEntry(m, event) \in AuditEntry
<1>1. [currentRound |-> m.envelope.round, maxRounds |-> m.envelope.maxRounds,
       transcript |-> {}] \in ExchangeState
  BY DEF Message, Envelope, ExchangeState
<1>. QED
  BY <1>1, EntryType DEF ResponderEntry

LEMMA AdoptType ==
  ASSUME TypeOK, NEW m \in Message
  PROVE  Adopt(m) \in [Agents -> [Exchanges -> ExchangeState \cup {NoExchange}]]
<1>1. [InitExchange(m.envelope.maxRounds) EXCEPT !.currentRound = m.envelope.round]
        \in ExchangeState
  BY DEF InitExchange, ExchangeState, Message, Envelope
<1>. QED
  BY <1>1 DEF Adopt, TypeOK, Message

(***************************************************************************)
(* Every reachable state is well typed.                                    *)
(***************************************************************************)
LEMMA BeginOutgoingType ==
  ASSUME TypeOK, NEW a \in Agents, NEW b \in Agents, NEW x \in Exchanges,
         NEW d \in Drafts, NEW pc \in {"withheld", "log", "escalate"},
         NEW event \in {"in_progress", "escalated", "data_withheld"},
         BeginOutgoing(a, b, x, d, pc, event)
  PROVE  TypeOK'
<1>. DEFINE m == Outgoing(a, b, x, d)
            s == IncrementRound(StateFor(a, x, d))
            c == [pc |-> pc, msg |-> m, entry |-> Entry(m, "initiator", event, s)]
<1>1. s \in ExchangeState
  BY StateForType, IncrementRoundType
<1>2. m \in Message
  BY OutgoingType DEF BeginOutgoing
<1>3. Entry(m, "initiator", event, s) \in AuditEntry
  BY <1>1, <1>2, EntryType
<1>4. c \in OutgoingCall
  BY <1>2, <1>3 DEF OutgoingCall
<1>5. sending' = sending \cup {c} /\ exchange' = [exchange EXCEPT ![a][x] = s]
  BY DEF BeginOutgoing
<1>. HIDE DEF m, s, c
<1>6. sending' \subseteq OutgoingCall
  BY <1>4, <1>5 DEF TypeOK
<1>7. exchange' \in [Agents -> [Exchanges -> ExchangeState \cup {NoExchange}]]
  BY <1>1, <1>5 DEF TypeOK
<1>8. nextId' \in Nat \ {0} /\ UNCHANGED <<receiving, net, deliveries, outcomes, audit, epoch>>
  BY DEF BeginOutgoing, TypeOK
<1>. QED
  BY <1>6, <1>7, <1>8 DEF TypeOK

\* A waiting call finds its exchange tracked: RoundInv makes TypeOK inductive.
LEMMA SendingIsTracked ==
  ASSUME TypeOK, RoundInv, NEW c \in sending
  PROVE  exchange[c.msg.from][c.msg.exchange] \in ExchangeState
<1>1. TicketOf(c.msg) \in Tickets
  BY DEF Tickets
<1>2. TicketIsCovered(TicketOf(c.msg)) /\ CallInv(c)
  BY <1>1 DEF RoundInv, TicketInv
<1>3. exchange[c.msg.from][c.msg.exchange] # NoExchange
  BY <1>2 DEF TicketIsCovered, TicketOf, CallInv
<1>4. c.msg \in Message
  BY DEF TypeOK, OutgoingCall
<1>. QED
  BY <1>3, <1>4 DEF TypeOK, Message

LEMMA TypeStep == TypeOK /\ RoundInv /\ [Next]_vars => TypeOK'
<1>. SUFFICES ASSUME TypeOK, RoundInv, [Next]_vars PROVE TypeOK'
  OBVIOUS
<1>1. CASE Request
  <2>1. PICK a \in Agents, x \in Exchanges, d \in Drafts : \E b \in Agents \ {a} :
          \/ SendOverLimit(a, b, x, d)
          \/ SendAll(a, b, x, d)
          \/ SendFiltered(a, b, x, d)
    BY <1>1 DEF Request
  <2>2. PICK b \in Agents \ {a} :
          \/ SendOverLimit(a, b, x, d)
          \/ SendAll(a, b, x, d)
          \/ SendFiltered(a, b, x, d)
    BY <2>1
  <2>. QED
    BY <2>2, BeginOutgoingType DEF SendOverLimit, SendAll, SendFiltered
<1>2. ASSUME NEW m \in net, BlockCrossEnterprise(m) \/ ReceiveMessage(m)
      PROVE  TypeOK'
  <2>1. m \in Message /\ m.id \in 1..MaxSends /\ deliveries[m.id] + 1 \in Nat
    BY DEF TypeOK, Message
  <2>2. deliveries' \in [1..MaxSends -> Nat]
    BY <1>2, <2>1 DEF BlockCrossEnterprise, ReceiveMessage, Deliver, TypeOK
  <2>3. CASE BlockCrossEnterprise(m)
    BY <2>1, <2>2, <2>3 DEF BlockCrossEnterprise, Finish, TypeOK, Outcome
  <2>4. CASE ReceiveMessage(m)
    BY <2>1, <2>2, <2>4 DEF ReceiveMessage, TypeOK, IncomingCall
  <2>. QED
    BY <1>2, <2>3, <2>4
<1>3. CASE ResumeOutgoing
  <2>1. PICK c \in sending : WithheldLogged(c) \/ OutgoingLogged(c)
                              \/ EscalationLogged(c) \/ OutgoingFails(c)
    BY <1>3 DEF ResumeOutgoing
  <2>2. c \in OutgoingCall /\ c.msg \in Message /\ c.entry \in AuditEntry
    BY DEF TypeOK, OutgoingCall
  <2>3. CASE WithheldLogged(c)
    <3>. DEFINE e == Entry(c.msg, "initiator", "in_progress",
                           exchange[c.msg.from][c.msg.exchange])
    <3>1. e \in AuditEntry
      BY <2>2, SendingIsTracked, EntryType
    <3>. HIDE DEF e
    <3>2. [pc |-> "log", msg |-> c.msg, entry |-> e] \in OutgoingCall
      BY <2>2, <3>1 DEF OutgoingCall
    <3>3. sending' = (sending \ {c}) \cup {[pc |-> "log", msg |-> c.msg, entry |-> e]}
      BY <2>3 DEF WithheldLogged, e
    <3>. QED
      BY <2>2, <2>3, <3>2, <3>3 DEF WithheldLogged, TypeOK
  <2>4. CASE OutgoingLogged(c)
    BY <2>2, <2>4 DEF OutgoingLogged, TypeOK
  <2>5. CASE EscalationLogged(c)
    BY <2>2, <2>5 DEF EscalationLogged, TypeOK
  <2>6. CASE OutgoingFails(c)
    BY <2>6 DEF OutgoingFails, TypeOK
  <2>. QED
    BY <2>1, <2>3, <2>4, <2>5, <2>6
<1>4. CASE ResumeIncoming
  <2>1. PICK c \in receiving : PolicyDenies(c) \/ CommitmentNeedsHuman(c)
          \/ AcceptMessage(c) \/ IncomingLogged(c) \/ DenialLogged(c) \/ IncomingFails(c)
    BY <1>4 DEF ResumeIncoming
  <2>2. c \in IncomingCall /\ c.msg \in Message /\ c.delivery \in Nat
    BY DEF TypeOK, IncomingCall
  <2>3. CASE PolicyDenies(c)
    <3>1. [c EXCEPT !.pc = "deny"] \in IncomingCall
      BY <2>2 DEF IncomingCall
    <3>. QED
      BY <2>3, <3>1 DEF PolicyDenies, TypeOK
  <2>4. CASE CommitmentNeedsHuman(c)
    BY <2>2, <2>4, AdoptType DEF CommitmentNeedsHuman, Finish, TypeOK, Outcome
  <2>5. CASE AcceptMessage(c)
    <3>1. [c EXCEPT !.pc = "log"] \in IncomingCall
      BY <2>2 DEF IncomingCall
    <3>. QED
      BY <2>2, <2>5, <3>1, AdoptType DEF AcceptMessage, TypeOK
  <2>6. CASE IncomingLogged(c)
    BY <2>2, <2>6, ResponderEntryType DEF IncomingLogged, Finish, TypeOK, Outcome
  <2>7. CASE DenialLogged(c)
    BY <2>2, <2>7, ResponderEntryType DEF DenialLogged, Finish, TypeOK, Outcome
  <2>8. CASE IncomingFails(c)
    BY <2>2, <2>8 DEF IncomingFails, Finish, TypeOK, Outcome
  <2>. QED
    BY <2>1, <2>3, <2>4, <2>5, <2>6, <2>7, <2>8
<1>5. ASSUME NEW a \in Agents, Restart(a) PROVE TypeOK'
  <2>1. exchange' \in [Agents -> [Exchanges -> ExchangeState \cup {NoExchange}]]
    BY <1>5 DEF Restart, TypeOK
  <2>2. epoch' \in [Agents -> Nat]
    BY <1>5 DEF Restart, TypeOK
  <2>. QED
    BY <1>5, <2>1, <2>2 DEF Restart, TypeOK
<1>6. CASE UNCHANGED vars
  BY <1>6 DEF vars, TypeOK
<1>. QED
  BY <1>1, <1>2, <1>3, <1>4, <1>5, <1>6 DEF Next, Transport

(***************************************************************************)
(* The rounds: RoundInv is inductive.                                      *)
(***************************************************************************)
LEMMA TicketTypes ==
  ASSUME TypeOK, NEW t \in Tickets
  PROVE  /\ t.agent \in Agents /\ t.exchange \in Exchanges
         /\ t.id \in Nat /\ t.epoch \in Nat /\ t.round \in Nat /\ t.maxRounds \in Nat
<1>1. ASSUME NEW m \in Message, t = TicketOf(m)
      PROVE  /\ t.agent \in Agents /\ t.exchange \in Exchanges
             /\ t.id \in Nat /\ t.epoch \in Nat /\ t.round \in Nat /\ t.maxRounds \in Nat
  BY <1>1, OcipAssumption DEF TicketOf, Message, Envelope
<1>2. ASSUME NEW e \in AuditEntry, t = EscalationTicket(e)
      PROVE  /\ t.agent \in Agents /\ t.exchange \in Exchanges
             /\ t.id \in Nat /\ t.epoch \in Nat /\ t.round \in Nat /\ t.maxRounds \in Nat
  BY <1>2, OcipAssumption DEF EscalationTicket, AuditEntry
<1>. QED
  BY <1>1, <1>2 DEF Tickets, Escalations, TypeOK, OutgoingCall

\* A step that counts no round: the tickets do not grow, and the exchanges of
\* those of the running process stay as they are.
LEMMA TicketsKept ==
  ASSUME TypeOK, TicketInv, Tickets' \subseteq Tickets, nextId' = nextId,
         epoch' = epoch,
         \A t \in Tickets : t.epoch = epoch[t.agent] =>
           exchange'[t.agent][t.exchange] = exchange[t.agent][t.exchange]
  PROVE  TicketInv'
<1>1. \A t \in Tickets : TicketIsCovered(t) => TicketIsCovered(t)'
  BY DEF TicketIsCovered
<1>2. \A t, u \in Tickets : TicketsAreOrdered(t, u) => TicketsAreOrdered(t, u)'
  BY DEF TicketsAreOrdered
<1>. QED
  BY <1>1, <1>2 DEF TicketInv

\* The first segment of handleOutgoing takes the next round of its side.
LEMMA BeginOutgoingRounds ==
  ASSUME TypeOK, RoundInv, NEW a \in Agents, NEW b \in Agents,
         NEW x \in Exchanges, NEW d \in Drafts, NEW pc, NEW event,
         (pc = "escalate") <=> OverLimit(a, x, d),
         (pc = "escalate") <=> (event = "escalated"),
         BeginOutgoing(a, b, x, d, pc, event)
  PROVE  RoundInv'
<1>. DEFINE st == StateFor(a, x, d)
            s == IncrementRound(st)
            m == Outgoing(a, b, x, d)
            e == Entry(m, "initiator", event, s)
            c == [pc |-> pc, msg |-> m, entry |-> e]
<1>0. PICK new : new = TicketOf(m)
  OBVIOUS
<1>1. /\ st \in ExchangeState /\ s \in ExchangeState
      /\ s.currentRound = st.currentRound + 1 /\ s.maxRounds = st.maxRounds
  BY StateForType, IncrementRoundType
<1>2. /\ new.id = nextId /\ new.agent = a /\ new.exchange = x /\ new.epoch = epoch[a]
      /\ new.round = s.currentRound /\ new.maxRounds = s.maxRounds
  BY <1>0 DEF Outgoing, TicketOf, BuildEnvelope
<1>3. /\ exchange' = [exchange EXCEPT ![a][x] = s] /\ sending' = sending \cup {c}
      /\ nextId' = nextId + 1 /\ epoch' = epoch /\ net' = net /\ audit' = audit
  BY DEF BeginOutgoing
<1>4. pc = "escalate" <=> s.currentRound > s.maxRounds
  BY DEF OverLimit
<1>5. /\ m.epoch = epoch[a] /\ m.from = a
      /\ m.envelope.round = s.currentRound /\ m.envelope.maxRounds = s.maxRounds
  BY DEF Outgoing, BuildEnvelope
<1>6. EscalationTicket(e) = new /\ e.event = event
  BY <1>0, <1>2, <1>5 DEF Entry, EscalationTicket, TicketOf
<1>7. c.msg = m /\ c.entry = e /\ c.pc = pc
  OBVIOUS
<1>8. exchange[a][x] # NoExchange => st = exchange[a][x]
  BY DEF StateFor
<1>9. TicketOf(c.msg) = new
  BY <1>0
<1>. HIDE DEF st, s, m, e, c
<1>10. Tickets' = Tickets \cup {new}
  BY <1>3, <1>9 DEF Tickets, Escalations
<1>11. exchange'[a][x] = s /\ s # NoExchange
  BY <1>1, <1>3, NoExchangeAssumption DEF TypeOK
<1>12. ASSUME NEW t \in Tickets
       PROVE  /\ TicketIsCovered(t)'
              /\ TicketsAreOrdered(t, new)' /\ TicketsAreOrdered(new, t)'
  <2>1. TicketIsCovered(t)
    BY DEF RoundInv, TicketInv
  <2>2. /\ t.agent \in Agents /\ t.exchange \in Exchanges
        /\ t.id \in Nat /\ t.epoch \in Nat /\ t.round \in Nat /\ t.maxRounds \in Nat
    BY TicketTypes
  <2>3. nextId \in Nat /\ epoch[t.agent] \in Nat
    BY <2>2 DEF TypeOK
  <2>4. CASE t.agent = a /\ t.exchange = x /\ t.epoch = epoch[a]
    <3>1. st = exchange[a][x] /\ t.round <= st.currentRound /\ t.maxRounds = st.maxRounds
      BY <2>1, <2>4, <1>8 DEF TicketIsCovered
    <3>2. st.currentRound \in Nat /\ t.round < s.currentRound /\ t.round <= s.currentRound
      BY <1>1, <2>2, <3>1 DEF ExchangeState
    <3>. QED
      BY <2>1, <2>2, <2>3, <2>4, <3>1, <3>2, <1>1, <1>2, <1>3, <1>11
         DEF TicketIsCovered, TicketsAreOrdered
  <2>5. CASE ~(t.agent = a /\ t.exchange = x /\ t.epoch = epoch[a])
    <3>1. t.epoch = epoch[t.agent] =>
            exchange'[t.agent][t.exchange] = exchange[t.agent][t.exchange]
      BY <1>3, <2>2, <2>5 DEF TypeOK
    <3>2. TicketIsCovered(t)'
      BY <1>3, <2>1, <2>2, <2>3, <3>1 DEF TicketIsCovered
    <3>. QED
      BY <1>2, <2>5, <3>2 DEF TicketsAreOrdered
  <2>. QED
    BY <2>4, <2>5
<1>13. TicketIsCovered(new)' /\ TicketsAreOrdered(new, new)'
  <2>1. nextId \in Nat /\ epoch[a] \in Nat /\ s.currentRound \in Nat /\ st.currentRound \in Nat
    BY <1>1 DEF TypeOK, ExchangeState
  <2>. QED
    BY <1>1, <1>2, <1>3, <1>11, <2>1 DEF TicketIsCovered, TicketsAreOrdered
<1>14. \A t, u \in Tickets : TicketsAreOrdered(t, u)'
  BY DEF RoundInv, TicketInv, TicketsAreOrdered
<1>15. TicketInv'
  BY <1>10, <1>12, <1>13, <1>14 DEF TicketInv
<1>16. ASSUME NEW k \in sending' PROVE CallInv(k)'
  <2>1. CASE k \in sending
    BY <1>3, <2>1 DEF RoundInv, CallInv
  <2>2. CASE k = c
    BY <1>3, <1>4, <1>5, <1>6, <1>7, <1>9, <2>2 DEF CallInv
  <2>. QED
    BY <1>3, <2>1, <2>2
<1>. QED
  BY <1>3, <1>15, <1>16 DEF RoundInv, Escalations

LEMMA RoundStep == TypeOK /\ RoundInv /\ [Next]_vars => RoundInv'
<1>. SUFFICES ASSUME TypeOK, RoundInv, [Next]_vars PROVE RoundInv'
  OBVIOUS
<1>1. CASE Request
  <2>1. PICK a \in Agents, x \in Exchanges, d \in Drafts : \E b \in Agents \ {a} :
          \/ SendOverLimit(a, b, x, d)
          \/ SendAll(a, b, x, d)
          \/ SendFiltered(a, b, x, d)
    BY <1>1 DEF Request
  <2>2. PICK b \in Agents \ {a} :
          \/ SendOverLimit(a, b, x, d)
          \/ SendAll(a, b, x, d)
          \/ SendFiltered(a, b, x, d)
    BY <2>1
  <2>. QED
    BY <2>2, BeginOutgoingRounds DEF SendOverLimit, SendAll, SendFiltered
<1>2. ASSUME NEW m \in net, BlockCrossEnterprise(m) \/ ReceiveMessage(m)
      PROVE  RoundInv'
  <2>1. UNCHANGED <<exchange, sending, net, audit, nextId, epoch>>
    BY <1>2 DEF BlockCrossEnterprise, ReceiveMessage
  <2>. QED
    BY <2>1 DEF RoundInv, TicketInv, Tickets, Escalations, TicketIsCovered,
                TicketsAreOrdered, CallInv
<1>3. CASE ResumeOutgoing
  <2>1. PICK c \in sending : WithheldLogged(c) \/ OutgoingLogged(c)
                              \/ EscalationLogged(c) \/ OutgoingFails(c)
    BY <1>3 DEF ResumeOutgoing
  <2>2. CallInv(c)
    BY DEF RoundInv
  <2>3. UNCHANGED <<exchange, nextId, epoch>>
    BY <2>1 DEF WithheldLogged, OutgoingLogged, EscalationLogged, OutgoingFails
  <2>4. ASSUME NEW k \in sending PROVE CallInv(k)'
    BY <2>3 DEF RoundInv, CallInv
  <2>5. CASE WithheldLogged(c)
    <3>. DEFINE e == Entry(c.msg, "initiator", "in_progress",
                           exchange[c.msg.from][c.msg.exchange])
    <3>0. PICK k : k = [pc |-> "log", msg |-> c.msg, entry |-> e]
      OBVIOUS
    <3>1. k.pc = "log" /\ k.msg = c.msg /\ k.entry.event = "in_progress"
      BY <3>0 DEF Entry
    <3>2. sending' = (sending \ {c}) \cup {k} /\ audit' = audit \cup {c.entry} /\ net' = net
      BY <2>5, <3>0 DEF WithheldLogged
    <3>. HIDE DEF e
    <3>3. c.entry.event # "escalated"
      BY <2>2, <2>5 DEF CallInv, WithheldLogged
    <3>4. Escalations' = Escalations
      BY <3>2, <3>3 DEF Escalations
    <3>5. Tickets' \subseteq Tickets
      BY <3>1, <3>2, <3>4 DEF Tickets
    <3>6. TicketInv'
      BY <2>3, <3>5, TicketsKept DEF RoundInv
    <3>7. CallInv(k)'
      BY <2>2, <2>3, <2>5, <3>1 DEF CallInv, WithheldLogged
    <3>. QED
      BY <2>4, <3>2, <3>4, <3>6, <3>7 DEF RoundInv
  <2>6. CASE OutgoingLogged(c)
    <3>1. /\ sending' = sending \ {c} /\ audit' = audit \cup {c.entry}
          /\ net' = net \cup {c.msg}
      BY <2>6 DEF OutgoingLogged
    <3>2. c.entry.event # "escalated" /\ c.msg.envelope.round <= c.msg.envelope.maxRounds
      <4>1. c.msg \in Message
        BY DEF TypeOK, OutgoingCall
      <4>. QED
        BY <2>2, <2>6, <4>1 DEF CallInv, OutgoingLogged, Message, Envelope
    <3>3. Escalations' = Escalations
      BY <3>1, <3>2 DEF Escalations
    <3>4. Tickets' \subseteq Tickets
      BY <3>1, <3>3 DEF Tickets
    <3>5. TicketInv'
      BY <2>3, <3>4, TicketsKept DEF RoundInv
    <3>. QED
      BY <2>4, <3>1, <3>2, <3>3, <3>5 DEF RoundInv
  <2>7. CASE EscalationLogged(c)
    <3>1. sending' = sending \ {c} /\ audit' = audit \cup {c.entry} /\ net' = net
      BY <2>7 DEF EscalationLogged
    <3>2. /\ EscalationTicket(c.entry) = TicketOf(c.msg)
          /\ c.msg.envelope.round > c.msg.envelope.maxRounds
      BY <2>2, <2>7 DEF CallInv, EscalationLogged
    <3>3. c.entry.round > c.entry.maxRounds
      BY <3>2 DEF EscalationTicket, TicketOf
    <3>4. Escalations' \subseteq Escalations \cup {c.entry}
      BY <3>1 DEF Escalations
    <3>5. Tickets' \subseteq Tickets
      BY <3>1, <3>2, <3>4 DEF Tickets
    <3>6. TicketInv'
      BY <2>3, <3>5, TicketsKept DEF RoundInv
    <3>. QED
      BY <2>4, <3>1, <3>3, <3>4, <3>6 DEF RoundInv
  <2>8. CASE OutgoingFails(c)
    <3>1. sending' = sending \ {c} /\ audit' = audit /\ net' = net
      BY <2>8 DEF OutgoingFails
    <3>2. Tickets' \subseteq Tickets /\ Escalations' = Escalations
      BY <3>1 DEF Tickets, Escalations
    <3>3. TicketInv'
      BY <2>3, <3>2, TicketsKept DEF RoundInv
    <3>. QED
      BY <2>4, <3>1, <3>2, <3>3 DEF RoundInv
  <2>. QED
    BY <2>1, <2>5, <2>6, <2>7, <2>8
<1>4. CASE ResumeIncoming
  <2>1. PICK c \in receiving : PolicyDenies(c) \/ CommitmentNeedsHuman(c)
          \/ AcceptMessage(c) \/ IncomingLogged(c) \/ DenialLogged(c) \/ IncomingFails(c)
    BY <1>4 DEF ResumeIncoming
  <2>2. UNCHANGED <<sending, net, nextId, epoch>> /\ exchange' \in {exchange, Adopt(c.msg)}
    BY <2>1 DEF PolicyDenies, CommitmentNeedsHuman, AcceptMessage, IncomingLogged,
                DenialLogged, IncomingFails
  <2>3. Escalations' = Escalations
    BY <2>1 DEF PolicyDenies, CommitmentNeedsHuman, AcceptMessage, IncomingLogged,
                DenialLogged, IncomingFails, Escalations, ResponderEntry, Entry
  <2>4. Tickets' = Tickets
    BY <2>2, <2>3 DEF Tickets
  <2>5. c.msg \in Message
    BY DEF TypeOK, IncomingCall
  <2>6. ASSUME NEW t \in Tickets, t.epoch = epoch[t.agent]
        PROVE  exchange'[t.agent][t.exchange] = exchange[t.agent][t.exchange]
    <3>1. exchange[t.agent][t.exchange] # NoExchange
      BY <2>6 DEF RoundInv, TicketInv, TicketIsCovered
    <3>2. t.agent \in Agents /\ t.exchange \in Exchanges
      BY TicketTypes
    <3>3. CASE t.agent = c.msg.to /\ t.exchange = c.msg.exchange
      BY <2>2, <3>1, <3>3 DEF Adopt
    <3>4. CASE ~(t.agent = c.msg.to /\ t.exchange = c.msg.exchange)
      <4>. DEFINE s == [InitExchange(c.msg.envelope.maxRounds)
                          EXCEPT !.currentRound = c.msg.envelope.round]
      <4>1. \/ exchange' = exchange
            \/ exchange' = [exchange EXCEPT ![c.msg.to][c.msg.exchange] = s]
        BY <2>2 DEF Adopt
      <4>. HIDE DEF s
      <4>. QED
        BY <2>5, <3>2, <3>4, <4>1 DEF TypeOK, Message
    <3>. QED
      BY <3>3, <3>4
  <2>7. TicketInv'
    BY <2>2, <2>4, <2>6, TicketsKept DEF RoundInv
  <2>8. \A k \in sending : CallInv(k)'
    BY <2>2 DEF RoundInv, CallInv
  <2>. QED
    BY <2>2, <2>3, <2>7, <2>8 DEF RoundInv
<1>5. ASSUME NEW a \in Agents, Restart(a) PROVE RoundInv'
  <2>1. /\ sending' \subseteq sending /\ UNCHANGED <<net, audit, nextId>>
        /\ epoch' = [epoch EXCEPT ![a] = @ + 1]
        /\ exchange' = [exchange EXCEPT ![a] = [x \in Exchanges |-> NoExchange]]
        /\ \A k \in sending' : k.msg.from # a
    BY <1>5 DEF Restart
  <2>2. Tickets' \subseteq Tickets /\ Escalations' = Escalations
    BY <2>1 DEF Tickets, Escalations
  <2>3. ASSUME NEW t \in Tickets PROVE TicketIsCovered(t)'
    <3>1. TicketIsCovered(t) /\ t.agent \in Agents /\ t.epoch \in Nat /\ epoch[t.agent] \in Nat
      BY TicketTypes DEF RoundInv, TicketInv, TypeOK
    <3>2. CASE t.agent = a
      BY <2>1, <3>1, <3>2 DEF TicketIsCovered, TypeOK
    <3>3. CASE t.agent # a
      BY <2>1, <3>1, <3>3 DEF TicketIsCovered, TypeOK
    <3>. QED
      BY <3>2, <3>3
  <2>4. \A t, u \in Tickets : TicketsAreOrdered(t, u)'
    BY DEF RoundInv, TicketInv, TicketsAreOrdered
  <2>5. ASSUME NEW k \in sending' PROVE CallInv(k)'
    <3>1. CallInv(k) /\ k.msg.from \in Agents /\ k.msg.from # a
      BY <2>1 DEF RoundInv, TypeOK, OutgoingCall, Message
    <3>. QED
      BY <2>1, <3>1 DEF CallInv, TypeOK
  <2>. QED
    BY <2>1, <2>2, <2>3, <2>4, <2>5 DEF RoundInv, TicketInv
<1>6. CASE UNCHANGED vars
  BY <1>6 DEF vars, RoundInv, TicketInv, Tickets, Escalations, TicketIsCovered,
              TicketsAreOrdered, CallInv
<1>. QED
  BY <1>1, <1>2, <1>3, <1>4, <1>5, <1>6 DEF Next, Transport

\* The inductive invariant holds in every reachable state.
THEOREM Invariance == Spec => [](TypeOK /\ RoundInv)
<1>1. Init => TypeOK /\ RoundInv
  <2>. SUFFICES ASSUME Init PROVE TypeOK /\ RoundInv
    OBVIOUS
  <2>1. TypeOK
    BY DEF Init, TypeOK
  <2>2. Tickets = {} /\ Escalations = {}
    BY DEF Init, Tickets, Escalations
  <2>. QED
    BY <2>1, <2>2 DEF Init, RoundInv, TicketInv
<1>. QED
  BY <1>1, TypeStep, RoundStep, PTL DEF Spec

\* Every variable keeps its type, whatever the agents, drafts and bounds.
THEOREM TypeCorrect == Spec => []TypeOK
  BY Invariance, PTL

\* handleOutgoing: however the sends of an agent overlap at their awaits, the
\* messages of one side leave with different rounds, in the order of the calls,
\* within one limit.
THEOREM RoundsCorrect == Spec => []RoundsAreDistinctAndBounded
<1>1. TypeOK /\ RoundInv => RoundsAreDistinctAndBounded
  <2>. SUFFICES ASSUME TypeOK, RoundInv, NEW m \in net, NEW n \in net
                PROVE  /\ m.envelope.round \in 1..m.envelope.maxRounds
                       /\ SameSide(m, n) => m.envelope.maxRounds = n.envelope.maxRounds
                       /\ SameSide(m, n) /\ m.id < n.id
                            => m.envelope.round < n.envelope.round
    BY DEF RoundsAreDistinctAndBounded
  <2>1. TicketOf(m) \in Tickets /\ TicketOf(n) \in Tickets
    BY DEF Tickets
  <2>2. TicketIsCovered(TicketOf(m)) /\ TicketsAreOrdered(TicketOf(m), TicketOf(n))
    BY <2>1 DEF RoundInv, TicketInv
  <2>3. m \in Message /\ m.envelope.round \in Nat /\ m.envelope.maxRounds \in Nat
    BY DEF TypeOK, Message, Envelope
  <2>4. m.envelope.round >= 1 /\ m.envelope.round <= m.envelope.maxRounds
    BY <2>2 DEF RoundInv, TicketIsCovered, TicketOf
  <2>. QED
    BY <2>2, <2>3, <2>4 DEF TicketsAreOrdered, TicketOf, SameSide
<1>. QED
  BY <1>1, Invariance, PTL

\* The round limit is final: what began after an escalated send never leaves.
THEOREM EscalationIsFinal == Spec => []NoSendAfterEscalation
<1>1. TypeOK /\ RoundInv => NoSendAfterEscalation
  <2>. SUFFICES ASSUME TypeOK, RoundInv, NEW e \in audit, NEW m \in net,
                       e.event = "escalated", e.agent = m.from,
                       e.exchange = m.exchange, e.epoch = m.epoch
                PROVE  m.id < e.id
    BY DEF NoSendAfterEscalation
  <2>1. e \in Escalations /\ EscalationTicket(e) \in Tickets /\ TicketOf(m) \in Tickets
    BY DEF Tickets, Escalations
  <2>2. /\ TicketsAreOrdered(EscalationTicket(e), TicketOf(m))
        /\ TicketsAreOrdered(TicketOf(m), EscalationTicket(e))
        /\ e.round > e.maxRounds /\ m.envelope.round <= m.envelope.maxRounds
    BY <2>1 DEF RoundInv, TicketInv
  <2>3. /\ e.round \in Nat /\ e.maxRounds \in Nat /\ e.id \in Nat /\ m.id \in Nat
        /\ m.envelope.round \in Nat /\ m.envelope.maxRounds \in Nat
    BY OcipAssumption DEF TypeOK, AuditEntry, Message, Envelope
  <2>4. /\ m.envelope.maxRounds = e.maxRounds
        /\ e.id < m.id => e.round < m.envelope.round
        /\ e.id = m.id => e.round = m.envelope.round
    BY <2>2 DEF TicketsAreOrdered, EscalationTicket, TicketOf
  <2>. QED
    BY <2>2, <2>3, <2>4
<1>. QED
  BY <1>1, Invariance, PTL

(***************************************************************************)
(* What is audited, and what is passed on.                                 *)
(***************************************************************************)
LEMMA InFlightTyped ==
  ASSUME TypeOK
  PROVE  /\ InFlight \subseteq Message
         /\ \A m \in InFlight : m.id \in Nat /\ m.draft \in DraftRecord
<1>1. \A m \in Message : m.id \in Nat /\ m.draft \in DraftRecord
  BY OcipAssumption DEF Message
<1>. QED
  BY <1>1 DEF InFlight, TypeOK, OutgoingCall

\* Only the rounds and the ids of a message in flight need the next id; the rest of
\* what is known about it stays, as nothing leaves the audit log.
LEMMA FlightKept ==
  ASSUME AuditInv, sending' \subseteq sending, net' = net, audit \subseteq audit',
         nextId' = nextId
  PROVE  /\ IdsNameMessages'
         /\ \A m \in InFlight' : MeansItsDraft(m)
         /\ \A c \in sending' : CallIsAudited(c)'
         /\ \A m \in net' : WithheldLoggedFor(m)'
         /\ \A e \in audit : ProgressIsSent(e)'
<1>1. InFlight' \subseteq InFlight
  BY DEF InFlight
<1>2. IdsNameMessages'
  BY <1>1 DEF AuditInv, IdsNameMessages
<1>3. \A m \in InFlight' : MeansItsDraft(m)
  BY <1>1 DEF AuditInv
<1>4. \A m : WithheldLoggedFor(m) => WithheldLoggedFor(m)'
  BY DEF WithheldLoggedFor
<1>5. \A c \in sending' : CallIsAudited(c)'
  BY <1>4 DEF AuditInv, CallIsAudited
<1>6. \A e \in audit : ProgressIsSent(e)'
  BY DEF AuditInv, ProgressIsSent
<1>. QED
  BY <1>2, <1>3, <1>4, <1>5, <1>6 DEF AuditInv

\* An outcome that is neither an acceptance nor a denial needs no entry.
LEMMA OutcomeNotPassedOn ==
  ASSUME AuditInv, net' = net, audit \subseteq audit', NEW m, NEW n, NEW result,
         result \notin {"accepted", "denied"},
         outcomes' = outcomes \/ Finish(m, n, result)
  PROVE  AuditedBeforePassedOn'
<1>1. \A o \in outcomes' : o \in outcomes \/ o.result = result
  BY DEF Finish
<1>. QED
  BY <1>1 DEF AuditInv, AuditedBeforePassedOn

\* The new message of handleOutgoing has the next id and means its draft.
LEMMA BeginOutgoingAudit ==
  ASSUME TypeOK, AuditInv, NEW a \in Agents, NEW b \in Agents,
         NEW x \in Exchanges, NEW d \in Drafts, NEW pc, NEW event,
         \/ pc = "escalate" /\ event = "escalated"
         \/ pc = "log" /\ event = "in_progress" /\ Withheld(d) = {}
         \/ pc = "withheld" /\ event = "data_withheld",
         BeginOutgoing(a, b, x, d, pc, event)
  PROVE  AuditInv'
<1>1. PICK s : s = IncrementRound(StateFor(a, x, d))
  OBVIOUS
<1>2. PICK m : m = Outgoing(a, b, x, d)
  OBVIOUS
<1>3. PICK e : e = Entry(m, "initiator", event, s)
  OBVIOUS
<1>4. PICK c : c = [pc |-> pc, msg |-> m, entry |-> e]
  OBVIOUS
<1>5. /\ s.currentRound \in Nat
      /\ m.id = nextId /\ m.draft = d /\ m.envelope.round = s.currentRound
      /\ MeansItsDraft(m)
      /\ e.id = nextId /\ e.role = "initiator" /\ e.event = event
      /\ e.round = s.currentRound
      /\ c.pc = pc /\ c.msg = m /\ c.entry = e
  <2>1. s \in ExchangeState
    BY <1>1, StateForType, IncrementRoundType
  <2>2. /\ m.id = nextId /\ m.draft = d /\ m.envelope.round = s.currentRound
        /\ MeansItsDraft(m)
    BY <1>1, <1>2 DEF Outgoing, BuildEnvelope, MeansItsDraft
  <2>3. /\ e.id = m.id /\ e.role = "initiator" /\ e.event = event
        /\ e.round = s.currentRound
    BY <1>3 DEF Entry
  <2>. QED
    BY <1>4, <2>1, <2>2, <2>3 DEF ExchangeState
<1>6. /\ sending' = sending \cup {c} /\ nextId' = nextId + 1
      /\ UNCHANGED <<net, audit, outcomes>>
  BY <1>1, <1>2, <1>3, <1>4 DEF BeginOutgoing
<1>7. InFlight' = InFlight \cup {m}
  BY <1>5, <1>6 DEF InFlight
<1>8. nextId \in Nat /\ \A k \in InFlight : k.id \in Nat /\ k.id < nextId
  BY InFlightTyped DEF TypeOK, AuditInv, IdsNameMessages
<1>9. \A k \in sending : k.msg \in InFlight
  BY DEF InFlight
<1>10. net \subseteq InFlight
  BY DEF InFlight
<1>11. IdsNameMessages'
  <2>1. \A k \in InFlight' : k.id < nextId'
    BY <1>5, <1>6, <1>7, <1>8
  <2>2. \A k \in sending : k.msg.id # c.msg.id
    BY <1>5, <1>8, <1>9
  <2>3. \A k \in net : k.id # c.msg.id
    BY <1>5, <1>8, <1>10
  <2>. QED
    BY <1>6, <2>1, <2>2, <2>3 DEF AuditInv, IdsNameMessages
<1>12. \A k \in InFlight' : MeansItsDraft(k)
  BY <1>5, <1>7 DEF AuditInv
<1>13. \A k : WithheldLoggedFor(k) => WithheldLoggedFor(k)'
  BY <1>6 DEF WithheldLoggedFor
<1>14. CallIsAudited(c)'
  <2>1. pc = "log" => WithheldLoggedFor(m)'
    BY <1>5 DEF WithheldLoggedFor
  <2>. QED
    BY <1>5, <2>1 DEF CallIsAudited
<1>15. \A k \in sending' : CallIsAudited(k)'
  BY <1>6, <1>13, <1>14 DEF AuditInv, CallIsAudited
<1>16. (\A k \in net' : WithheldLoggedFor(k)') /\ (\A k \in audit' : ProgressIsSent(k)')
  BY <1>6, <1>13 DEF AuditInv, ProgressIsSent
<1>17. AuditedBeforePassedOn'
  BY <1>6 DEF AuditInv, AuditedBeforePassedOn
<1>. QED
  BY <1>11, <1>12, <1>15, <1>16, <1>17 DEF AuditInv, MeansItsDraft

\* The counter has not fallen below the round that a waiting call was given.
LEMMA RoundOfWaitingCall ==
  ASSUME TypeOK, RoundInv, NEW c \in sending
  PROVE  /\ exchange[c.msg.from][c.msg.exchange].currentRound >= c.msg.envelope.round
         /\ exchange[c.msg.from][c.msg.exchange].currentRound \in Nat
         /\ c.msg.envelope.round \in Nat
<1>1. TicketOf(c.msg) \in Tickets
  BY DEF Tickets
<1>2. TicketIsCovered(TicketOf(c.msg)) /\ CallInv(c)
  BY <1>1 DEF RoundInv, TicketInv
<1>3. c.msg.envelope.round \in Nat
  BY DEF TypeOK, OutgoingCall, Message, Envelope
<1>4. exchange[c.msg.from][c.msg.exchange] \in ExchangeState
  BY SendingIsTracked
<1>. QED
  BY <1>2, <1>3, <1>4 DEF TicketIsCovered, TicketOf, CallInv, ExchangeState

\* An entry that is stored for a waiting call says nothing of progress yet.
LEMMA EntryStored ==
  ASSUME AuditInv, NEW e, audit' = audit \cup {e}, e.event # "in_progress", net' = net
  PROVE  \A k \in audit' : ProgressIsSent(k)'
  BY DEF AuditInv, ProgressIsSent

LEMMA ResumeOutgoingAudit ==
  ASSUME TypeOK, RoundInv, AuditInv, ResumeOutgoing
  PROVE  AuditInv'
<1>1. PICK c \in sending : WithheldLogged(c) \/ OutgoingLogged(c)
                            \/ EscalationLogged(c) \/ OutgoingFails(c)
  BY DEF ResumeOutgoing
<1>2. /\ c.msg \in InFlight /\ MeansItsDraft(c.msg) /\ CallIsAudited(c) /\ CallInv(c)
      /\ c.msg.id < nextId
  BY DEF InFlight, AuditInv, IdsNameMessages, RoundInv
<1>3. CASE WithheldLogged(c)
  <2>. DEFINE s == exchange[c.msg.from][c.msg.exchange]
  <2>1. PICK k : k = [pc |-> "log", msg |-> c.msg,
                      entry |-> Entry(c.msg, "initiator", "in_progress", s)]
    OBVIOUS
  <2>2. /\ k.pc = "log" /\ k.msg = c.msg /\ k.entry.id = c.msg.id
        /\ k.entry.role = "initiator" /\ k.entry.event = "in_progress"
        /\ k.entry.round = s.currentRound
    BY <2>1 DEF Entry
  <2>3. /\ sending' = (sending \ {c}) \cup {k} /\ audit' = audit \cup {c.entry}
        /\ UNCHANGED <<net, nextId, outcomes>> /\ c.pc = "withheld"
    BY <1>3, <2>1 DEF WithheldLogged
  <2>4. s.currentRound >= c.msg.envelope.round
    BY RoundOfWaitingCall
  <2>. HIDE DEF s
  <2>5. c.entry.event = "data_withheld" /\ c.entry.id = c.msg.id
    BY <1>2, <2>3 DEF CallIsAudited
  <2>6. InFlight' = InFlight
    BY <2>2, <2>3 DEF InFlight
  <2>7. IdsNameMessages'
    <3>1. \A d \in sending' : \E b \in sending : b.msg = d.msg /\ (d = k => b = c)
                                                /\ (d # k => b = d)
      BY <2>2, <2>3
    <3>2. \A b, d \in sending' : b.msg.id = d.msg.id => b = d
      BY <2>2, <2>3 DEF AuditInv, IdsNameMessages
    <3>. QED
      BY <2>3, <2>6, <3>1, <3>2 DEF AuditInv, IdsNameMessages
  <2>8. \A m : WithheldLoggedFor(m) => WithheldLoggedFor(m)'
    BY <2>3 DEF WithheldLoggedFor
  <2>9. CallIsAudited(k)'
    <3>1. WithheldLoggedFor(c.msg)'
      BY <2>3, <2>5 DEF WithheldLoggedFor
    <3>. QED
      BY <2>2, <2>4, <3>1 DEF CallIsAudited
  <2>10. \A d \in sending' : CallIsAudited(d)'
    BY <2>3, <2>8, <2>9 DEF AuditInv, CallIsAudited
  <2>11. \A e \in audit' : ProgressIsSent(e)'
    BY <2>3, <2>5, EntryStored
  <2>12. AuditedBeforePassedOn'
    BY <2>3 DEF AuditInv, AuditedBeforePassedOn
  <2>. QED
    BY <2>3, <2>6, <2>7, <2>8, <2>10, <2>11, <2>12 DEF AuditInv, MeansItsDraft
<1>4. CASE OutgoingLogged(c)
  <2>1. /\ sending' = sending \ {c} /\ audit' = audit \cup {c.entry}
        /\ net' = net \cup {c.msg} /\ c.pc = "log" /\ UNCHANGED <<nextId, outcomes>>
    BY <1>4 DEF OutgoingLogged
  <2>2. /\ c.entry.event = "in_progress" /\ c.entry.role = "initiator"
        /\ c.entry.id = c.msg.id /\ c.entry.round >= c.msg.envelope.round
        /\ WithheldLoggedFor(c.msg)
    BY <1>2, <2>1 DEF CallIsAudited
  <2>3. InFlight' = InFlight
    BY <2>1 DEF InFlight
  <2>4. IdsNameMessages'
    BY <2>1, <2>3 DEF AuditInv, IdsNameMessages
  <2>5. \A m : WithheldLoggedFor(m) => WithheldLoggedFor(m)'
    BY <2>1 DEF WithheldLoggedFor
  <2>6. \A d \in sending' : CallIsAudited(d)'
    BY <2>1, <2>5 DEF AuditInv, CallIsAudited
  <2>7. \A m \in net' : WithheldLoggedFor(m)'
    BY <2>1, <2>2, <2>5 DEF AuditInv
  <2>8. \A e \in audit' : ProgressIsSent(e)'
    BY <2>1, <2>2 DEF AuditInv, ProgressIsSent
  <2>9. AuditedBeforePassedOn'
    BY <2>1, <2>2 DEF AuditInv, AuditedBeforePassedOn
  <2>. QED
    BY <2>3, <2>4, <2>6, <2>7, <2>8, <2>9 DEF AuditInv, MeansItsDraft
<1>5. CASE EscalationLogged(c) \/ OutgoingFails(c)
  <2>1. /\ sending' = sending \ {c} /\ audit' \in {audit, audit \cup {c.entry}}
        /\ audit' = audit \/ c.pc = "escalate"
        /\ UNCHANGED <<net, nextId, outcomes>>
    BY <1>5 DEF EscalationLogged, OutgoingFails
  <2>2. /\ IdsNameMessages'
        /\ \A m \in InFlight' : MeansItsDraft(m)
        /\ \A d \in sending' : CallIsAudited(d)'
        /\ \A m \in net' : WithheldLoggedFor(m)'
        /\ \A e \in audit : ProgressIsSent(e)'
    BY <2>1, FlightKept
  <2>3. \A e \in audit' : ProgressIsSent(e)'
    <3>1. CASE audit' = audit
      BY <2>2, <3>1
    <3>2. CASE c.pc = "escalate"
      <4>1. c.entry.event # "in_progress"
        BY <1>2, <3>2 DEF CallInv
      <4>. QED
        BY <2>1, <2>2, <4>1 DEF ProgressIsSent
    <3>. QED
      BY <2>1, <3>1, <3>2
  <2>4. AuditedBeforePassedOn'
    BY <2>1 DEF AuditInv, AuditedBeforePassedOn
  <2>. QED
    BY <2>2, <2>3, <2>4 DEF AuditInv, MeansItsDraft
<1>. QED
  BY <1>1, <1>3, <1>4, <1>5

\* What a receipt or a denial writes is about a message that was sent.
LEMMA ResponderEntryFacts ==
  ASSUME NEW m, NEW event
  PROVE  /\ ResponderEntry(m, event).id = m.id
         /\ ResponderEntry(m, event).role = "responder"
         /\ ResponderEntry(m, event).agent = m.to
         /\ ResponderEntry(m, event).event = event
         /\ ResponderEntry(m, event).round = m.envelope.round
  BY DEF ResponderEntry, Entry

LEMMA ResumeIncomingAudit ==
  ASSUME TypeOK, AuditInv, ReceiptInv, ResumeIncoming
  PROVE  AuditInv'
<1>1. PICK c \in receiving : PolicyDenies(c) \/ CommitmentNeedsHuman(c)
        \/ AcceptMessage(c) \/ IncomingLogged(c) \/ DenialLogged(c) \/ IncomingFails(c)
  BY DEF ResumeIncoming
<1>2. c.msg \in net /\ c.msg.envelope.round \in Nat
  BY DEF ReceiptInv, TypeOK, Message, Envelope
<1>3. UNCHANGED <<sending, net, nextId>> /\ audit \subseteq audit'
  BY <1>1 DEF PolicyDenies, CommitmentNeedsHuman, AcceptMessage, IncomingLogged,
              DenialLogged, IncomingFails
<1>4. /\ IdsNameMessages'
      /\ \A m \in InFlight' : MeansItsDraft(m)
      /\ \A d \in sending' : CallIsAudited(d)'
      /\ \A m \in net' : WithheldLoggedFor(m)'
      /\ \A e \in audit : ProgressIsSent(e)'
  BY <1>3, FlightKept
<1>5. ASSUME NEW event \in {"in_progress", "denied"},
             audit' = audit \cup {ResponderEntry(c.msg, event)},
             Finish(c.msg, c.delivery, IF event = "denied" THEN "denied" ELSE "accepted")
      PROVE  AuditedBeforePassedOn' /\ \A e \in audit' : ProgressIsSent(e)'
  <2>1. PICK e : e = ResponderEntry(c.msg, event)
    OBVIOUS
  <2>2. /\ e.id = c.msg.id /\ e.role = "responder" /\ e.agent = c.msg.to
        /\ e.event = event /\ e.round = c.msg.envelope.round
    BY <2>1, ResponderEntryFacts
  <2>3. audit' = audit \cup {e}
    BY <1>5, <2>1
  <2>4. \A o \in outcomes' :
          \/ o \in outcomes
          \/ /\ o.msg = c.msg
             /\ o.result = IF event = "denied" THEN "denied" ELSE "accepted"
    BY <1>5 DEF Finish
  <2>5. AuditedBeforePassedOn'
    BY <1>3, <1>5, <2>2, <2>3, <2>4 DEF AuditInv, AuditedBeforePassedOn
  <2>6. ProgressIsSent(e)'
    BY <1>2, <1>3, <2>2 DEF ProgressIsSent
  <2>. QED
    BY <1>4, <2>3, <2>5, <2>6
<1>6. ASSUME NEW result \in {"commitment", "failed"}, audit' = audit,
             outcomes' = outcomes \/ Finish(c.msg, c.delivery, result)
      PROVE  AuditedBeforePassedOn' /\ \A e \in audit' : ProgressIsSent(e)'
  BY <1>3, <1>4, <1>6, OutcomeNotPassedOn
<1>7. AuditedBeforePassedOn' /\ \A e \in audit' : ProgressIsSent(e)'
  <2>1. CASE PolicyDenies(c) \/ AcceptMessage(c)
    <3>1. UNCHANGED <<audit, outcomes>>
      BY <2>1 DEF PolicyDenies, AcceptMessage
    <3>. QED
      BY <1>6, <3>1
  <2>2. CASE CommitmentNeedsHuman(c) \/ IncomingFails(c)
    BY <1>6, <2>2 DEF CommitmentNeedsHuman, IncomingFails
  <2>3. CASE IncomingLogged(c) \/ DenialLogged(c)
    BY <1>5, <2>3 DEF IncomingLogged, DenialLogged
  <2>. QED
    BY <1>1, <2>1, <2>2, <2>3
<1>. QED
  BY <1>4, <1>7 DEF AuditInv, MeansItsDraft

LEMMA AuditStep ==
  TypeOK /\ RoundInv /\ AuditInv /\ ReceiptInv /\ [Next]_vars => AuditInv'
<1>. SUFFICES ASSUME TypeOK, RoundInv, AuditInv, ReceiptInv, [Next]_vars
              PROVE  AuditInv'
  OBVIOUS
<1>1. CASE Request
  <2>1. PICK a \in Agents, x \in Exchanges, d \in Drafts : \E b \in Agents \ {a} :
          SendOverLimit(a, b, x, d) \/ SendAll(a, b, x, d) \/ SendFiltered(a, b, x, d)
    BY <1>1 DEF Request
  <2>. QED
    BY <2>1, BeginOutgoingAudit DEF SendOverLimit, SendAll, SendFiltered
<1>2. CASE Transport
  <2>1. PICK m \in net : BlockCrossEnterprise(m) \/ ReceiveMessage(m)
    BY <1>2 DEF Transport
  <2>2. UNCHANGED <<sending, net, audit, nextId>>
    BY <2>1 DEF BlockCrossEnterprise, ReceiveMessage
  <2>3. outcomes' = outcomes \/ Finish(m, deliveries[m.id] + 1, "blocked")
    BY <2>1 DEF BlockCrossEnterprise, ReceiveMessage
  <2>4. AuditedBeforePassedOn'
    BY <2>2, <2>3, OutcomeNotPassedOn
  <2>. QED
    BY <2>2, <2>4, FlightKept DEF AuditInv, MeansItsDraft
<1>3. ASSUME NEW a \in Agents, Restart(a) PROVE AuditInv'
  <2>1. sending' \subseteq sending /\ UNCHANGED <<net, audit, nextId, outcomes>>
    BY <1>3 DEF Restart
  <2>2. AuditedBeforePassedOn'
    BY <2>1 DEF AuditInv, AuditedBeforePassedOn
  <2>. QED
    BY <2>1, <2>2, FlightKept DEF AuditInv, MeansItsDraft
<1>4. CASE UNCHANGED vars
  <2>1. UNCHANGED <<sending, net, audit, nextId, outcomes>>
    BY <1>4 DEF vars
  <2>2. AuditedBeforePassedOn'
    BY <2>1 DEF AuditInv, AuditedBeforePassedOn
  <2>. QED
    BY <2>1, <2>2, FlightKept DEF AuditInv, MeansItsDraft
<1>. QED
  BY <1>1, <1>2, <1>3, <1>4, ResumeOutgoingAudit, ResumeIncomingAudit DEF Next

\* The message of an accepted delivery is the one that was received and looked at.
LEMMA ReceiptStep == TypeOK /\ AuditInv /\ ReceiptInv /\ [Next]_vars => ReceiptInv'
<1>. SUFFICES ASSUME TypeOK, AuditInv, ReceiptInv, [Next]_vars
              PROVE  ReceiptInv'
  OBVIOUS
<1>1. ASSUME receiving' \subseteq receiving, net \subseteq net',
             \A o \in outcomes' : o \in outcomes \/ o.result # "accepted"
      PROVE  ReceiptInv'
  BY <1>1 DEF ReceiptInv, AcceptedIsPermitted
<1>2. ASSUME NEW c, receiving' = receiving \cup {c}, c.msg \in net,
             Tenant[c.msg.envelope.source] = Tenant[c.msg.to],
             c.pc = "log" => ~RequiresHuman(c.msg), UNCHANGED <<net, outcomes>>
      PROVE  ReceiptInv'
  BY <1>2 DEF ReceiptInv, AcceptedIsPermitted
<1>3. CASE Request \/ ResumeOutgoing \/ \E a \in Agents : Restart(a)
  BY <1>1, <1>3 DEF Request, SendOverLimit, SendAll, SendFiltered, BeginOutgoing,
     ResumeOutgoing, WithheldLogged, OutgoingLogged, EscalationLogged, OutgoingFails,
     Restart
<1>4. CASE Transport
  <2>1. PICK m \in net : BlockCrossEnterprise(m) \/ ReceiveMessage(m)
    BY <1>4 DEF Transport
  <2>2. CASE BlockCrossEnterprise(m)
    <3>1. receiving' = receiving /\ net' = net
      BY <2>2 DEF BlockCrossEnterprise
    <3>2. \A o \in outcomes' : o \in outcomes \/ o.result = "blocked"
      BY <2>2 DEF BlockCrossEnterprise, Finish
    <3>. QED
      BY <1>1, <3>1, <3>2
  <2>3. CASE ReceiveMessage(m)
    <3>1. PICK c : c = [pc |-> "policy", msg |-> m, delivery |-> deliveries[m.id] + 1]
      OBVIOUS
    <3>2. /\ receiving' = receiving \cup {c} /\ c.pc = "policy" /\ c.msg = m
          /\ Tenant[m.envelope.source] = Tenant[m.to] /\ UNCHANGED <<net, outcomes>>
      BY <2>3, <3>1 DEF ReceiveMessage
    <3>. QED
      BY <1>2, <3>2
  <2>. QED
    BY <2>1, <2>2, <2>3
<1>5. CASE ResumeIncoming
  <2>1. PICK c \in receiving : PolicyDenies(c) \/ CommitmentNeedsHuman(c)
          \/ AcceptMessage(c) \/ IncomingLogged(c) \/ DenialLogged(c) \/ IncomingFails(c)
    BY <1>5 DEF ResumeIncoming
  <2>2. /\ c.msg \in net /\ Tenant[c.msg.envelope.source] = Tenant[c.msg.to]
        /\ c.pc = "log" => ~RequiresHuman(c.msg)
    BY DEF ReceiptInv
  <2>3. ASSUME NEW pc \in {"deny", "log"},
               receiving' = (receiving \ {c}) \cup {[c EXCEPT !.pc = pc]},
               pc = "log" => ~RequiresHuman(c.msg), UNCHANGED <<net, outcomes>>
        PROVE  ReceiptInv'
    <3>1. PICK k : k = [c EXCEPT !.pc = pc]
      OBVIOUS
    <3>2. k.pc = pc /\ k.msg = c.msg
      BY <3>1 DEF TypeOK, IncomingCall
    <3>3. receiving' = (receiving \ {c}) \cup {k}
      BY <2>3, <3>1
    <3>. QED
      BY <2>2, <2>3, <3>2, <3>3 DEF ReceiptInv, AcceptedIsPermitted
  <2>4. CASE PolicyDenies(c)
    BY <2>3, <2>4, Zenon DEF PolicyDenies
  <2>5. CASE AcceptMessage(c)
    BY <2>3, <2>5, Zenon DEF AcceptMessage
  <2>6. ASSUME NEW result \in {"commitment", "denied", "failed"},
               Finish(c.msg, c.delivery, result), receiving' = receiving \ {c}, net' = net
        PROVE  ReceiptInv'
    <3>1. \A o \in outcomes' : o \in outcomes \/ o.result = result
      BY <2>6 DEF Finish
    <3>. QED
      BY <1>1, <2>6, <3>1
  <2>7. CASE CommitmentNeedsHuman(c) \/ DenialLogged(c) \/ IncomingFails(c)
    BY <2>6, <2>7 DEF CommitmentNeedsHuman, DenialLogged, IncomingFails
  <2>8. CASE IncomingLogged(c)
    <3>1. /\ c.pc = "log" /\ receiving' = receiving \ {c} /\ net' = net
          /\ Finish(c.msg, c.delivery, "accepted")
      BY <2>8 DEF IncomingLogged
    <3>2. \A o \in outcomes' : o \in outcomes \/ o.msg = c.msg
      BY <3>1 DEF Finish
    <3>3. MeansItsDraft(c.msg) /\ c.msg.draft.exchangeType \in ExchangeTypes
      BY <2>2, OcipAssumption DEF AuditInv, InFlight, TypeOK, Message, DraftRecord
    <3>4. /\ Tenant[c.msg.from] = Tenant[c.msg.to]
          /\ c.msg.draft.exchangeType = "information_query" /\ ~c.msg.draft.keywords
      BY <2>2, <3>1, <3>3 DEF MeansItsDraft, RequiresHuman, ExchangeTypes
    <3>. QED
      BY <3>1, <3>2, <3>4 DEF ReceiptInv, AcceptedIsPermitted
  <2>. QED
    BY <2>1, <2>4, <2>5, <2>7, <2>8
<1>6. CASE UNCHANGED vars
  BY <1>1, <1>6 DEF vars
<1>. QED
  BY <1>3, <1>4, <1>5, <1>6 DEF Next

\* A limit is one that some draft asked for: an adopted one is the initiator's.
LEMMA LimitStep == TypeOK /\ ReceiptInv /\ LimitInv /\ [Next]_vars => LimitInv'
<1>. SUFFICES ASSUME TypeOK, ReceiptInv, LimitInv, [Next]_vars
              PROVE  LimitInv'
  OBVIOUS
<1>. DEFINE Limits == {LimitOf(d) : d \in Drafts}
<1>1. PICK L : L = Limits
  OBVIOUS
<1>2. /\ \A a \in Agents, x \in Exchanges :
           exchange[a][x] # NoExchange => exchange[a][x].maxRounds \in L
      /\ \A m \in InFlight : m.envelope.maxRounds \in L
  BY <1>1 DEF LimitInv
<1>3. ASSUME \A a \in Agents, x \in Exchanges :
               exchange'[a][x] # NoExchange => exchange'[a][x].maxRounds \in L,
             \A m \in InFlight' : m.envelope.maxRounds \in L
      PROVE  LimitInv'
  BY <1>1, <1>3 DEF LimitInv
<1>4. CASE Request
  <2>1. PICK a \in Agents, x \in Exchanges, d \in Drafts : \E b \in Agents \ {a} :
          SendOverLimit(a, b, x, d) \/ SendAll(a, b, x, d) \/ SendFiltered(a, b, x, d)
    BY <1>4 DEF Request
  <2>2. PICK b \in Agents : \E pc, event : BeginOutgoing(a, b, x, d, pc, event)
    BY <2>1, Zenon DEF SendOverLimit, SendAll, SendFiltered
  <2>3. PICK s : s = IncrementRound(StateFor(a, x, d))
    OBVIOUS
  <2>4. PICK m : m = Outgoing(a, b, x, d)
    OBVIOUS
  <2>5. s.maxRounds \in L
    BY <1>1, <1>2, <2>3 DEF IncrementRound, StateFor, InitExchange
  <2>6. m.envelope.maxRounds = s.maxRounds
    BY <2>3, <2>4 DEF Outgoing, BuildEnvelope
  <2>7. exchange' = [exchange EXCEPT ![a][x] = s]
    BY <2>2, <2>3 DEF BeginOutgoing
  <2>8. InFlight' = InFlight \cup {m}
    <3>1. PICK pc, event : BeginOutgoing(a, b, x, d, pc, event)
      BY <2>2
    <3>2. PICK c : c = [pc |-> pc, msg |-> m, entry |-> Entry(m, "initiator", event, s)]
      OBVIOUS
    <3>3. sending' = sending \cup {c} /\ net' = net /\ c.msg = m
      BY <2>3, <2>4, <3>1, <3>2 DEF BeginOutgoing
    <3>. QED
      BY <3>3 DEF InFlight
  <2>. QED
    BY <1>2, <1>3, <2>5, <2>6, <2>7, <2>8 DEF TypeOK
<1>5. CASE ResumeOutgoing
  <2>1. InFlight' \subseteq InFlight /\ exchange' = exchange
    <3>1. PICK c \in sending : WithheldLogged(c) \/ OutgoingLogged(c)
                                \/ EscalationLogged(c) \/ OutgoingFails(c)
      BY <1>5 DEF ResumeOutgoing
    <3>2. CASE WithheldLogged(c)
      <4>1. PICK k : k = [pc |-> "log", msg |-> c.msg,
                     entry |-> Entry(c.msg, "initiator", "in_progress",
                                     exchange[c.msg.from][c.msg.exchange])]
        OBVIOUS
      <4>2. k.msg = c.msg
        BY <4>1
      <4>. QED
        BY <3>2, <4>1, <4>2 DEF WithheldLogged, InFlight
    <3>3. CASE OutgoingLogged(c) \/ EscalationLogged(c) \/ OutgoingFails(c)
      BY <3>3 DEF OutgoingLogged, EscalationLogged, OutgoingFails, InFlight
    <3>. QED
      BY <3>1, <3>2, <3>3
  <2>. QED
    BY <1>2, <1>3, <2>1
<1>6. CASE ResumeIncoming
  <2>1. PICK c \in receiving : exchange' = Adopt(c.msg) \/ exchange' = exchange
    BY <1>6 DEF ResumeIncoming, PolicyDenies, CommitmentNeedsHuman, AcceptMessage,
       IncomingLogged, DenialLogged, IncomingFails
  <2>2. InFlight' = InFlight
    BY <1>6 DEF ResumeIncoming, PolicyDenies, CommitmentNeedsHuman, AcceptMessage,
       IncomingLogged, DenialLogged, IncomingFails, InFlight
  <2>3. c.msg.envelope.maxRounds \in L
    BY <1>2 DEF ReceiptInv, InFlight
  <2>4. [InitExchange(c.msg.envelope.maxRounds) EXCEPT !.currentRound = c.msg.envelope.round]
          .maxRounds \in L
    BY <2>3 DEF InitExchange
  <2>5. CASE exchange' = Adopt(c.msg)
    BY <1>2, <1>3, <2>2, <2>4, <2>5 DEF Adopt, TypeOK
  <2>. QED
    BY <1>2, <1>3, <2>1, <2>2, <2>5
<1>7. CASE \E a \in Agents : Restart(a)
  BY <1>2, <1>3, <1>7 DEF Restart, InFlight, TypeOK
<1>8. CASE UNCHANGED vars \/ Transport
  BY <1>2, <1>3, <1>8 DEF vars, InFlight, Transport, BlockCrossEnterprise, ReceiveMessage
<1>. QED
  BY <1>4, <1>5, <1>6, <1>7, <1>8 DEF Next

\* What is audited and what is passed on, next to the rounds.
THEOREM AuditInvariance ==
  Spec => [](TypeOK /\ RoundInv /\ AuditInv /\ ReceiptInv /\ LimitInv)
<1>1. Init => AuditInv /\ ReceiptInv /\ LimitInv
  <2>. SUFFICES ASSUME Init PROVE AuditInv /\ ReceiptInv /\ LimitInv
    OBVIOUS
  <2>1. InFlight = {} /\ sending = {} /\ receiving = {} /\ net = {}
        /\ outcomes = {} /\ audit = {}
    BY DEF Init, InFlight
  <2>2. \A a \in Agents, x \in Exchanges : exchange[a][x] = NoExchange
    BY DEF Init
  <2>. QED
    BY <2>1, <2>2 DEF AuditInv, IdsNameMessages, AuditedBeforePassedOn, ReceiptInv,
                      AcceptedIsPermitted, LimitInv
<1>. QED
  BY <1>1, Invariance, AuditStep, ReceiptStep, LimitStep, PTL DEF Spec

\* What leaves without all of its data lies within the ceiling, and the audit log
\* says that something was withheld.
THEOREM WithheldCorrect == Spec => []WithheldIsAudited
<1>1. TypeOK /\ AuditInv => WithheldIsAudited
  <2>. SUFFICES ASSUME TypeOK, AuditInv, NEW m \in net
                PROVE  /\ \A l \in m.shared : l <= m.envelope.classification
                                              /\ l \in m.draft.canShare
                       /\ m.shared # m.draft.data =>
                            \E e \in audit : e.id = m.id /\ e.event = "data_withheld"
    BY DEF WithheldIsAudited
  <2>1. MeansItsDraft(m) /\ WithheldLoggedFor(m)
    BY DEF AuditInv, InFlight
  <2>. QED
    BY <2>1 DEF MeansItsDraft, WithheldLoggedFor, Allowed, Withheld
<1>. QED
  BY <1>1, AuditInvariance, PTL

\* handleOutgoing and handleIncoming return only after audit.log has stored the
\* entry, so nothing is on the wire or with the agent that is not in the log.
THEOREM AuditBeforePassing == Spec => []AuditedBeforePassedOn
  BY AuditInvariance, PTL DEF AuditInv

\* No overlap of policy answers, redeliveries and other messages lets handleIncoming
\* pass on a message of another tenant or one that commits somebody.
THEOREM OnlyPermittedAccepted == Spec => []AcceptedIsPermitted
  BY AuditInvariance, PTL DEF ReceiptInv

\* The rounds in the audit log never lag behind the message they are about.
THEOREM AuditRoundCorrect == Spec => []AuditRoundNotBehind
<1>1. TypeOK /\ AuditInv => AuditRoundNotBehind
  <2>. SUFFICES ASSUME TypeOK, AuditInv, NEW e \in audit, NEW m \in net,
                       e.id = m.id, e.event = "in_progress"
                PROVE  e.round >= m.envelope.round
    BY DEF AuditRoundNotBehind
  <2>1. PICK n \in net : n.id = e.id /\ e.round >= n.envelope.round
    BY DEF AuditInv, ProgressIsSent
  <2>2. n = m
    BY <2>1 DEF AuditInv, IdsNameMessages
  <2>. QED
    BY <2>1, <2>2
<1>. QED
  BY <1>1, AuditInvariance, PTL

\* While the process runs no step forgets an exchange, moves its limit or takes a
\* round back.
THEOREM LimitIsFixed == Spec => LimitIsNeverExtended
<1>. DEFINE Kept(a, x) ==
       exchange[a][x] # NoExchange /\ epoch'[a] = epoch[a] =>
         /\ exchange'[a][x] # NoExchange
         /\ exchange'[a][x].maxRounds = exchange[a][x].maxRounds
         /\ exchange'[a][x].currentRound >= exchange[a][x].currentRound
<1>1. TypeOK /\ [Next]_vars => [\A a \in Agents, x \in Exchanges : Kept(a, x)]_vars
  <2>. SUFFICES ASSUME TypeOK, Next, NEW a \in Agents, NEW x \in Exchanges,
                       exchange[a][x] # NoExchange, epoch'[a] = epoch[a]
                PROVE  /\ exchange'[a][x] # NoExchange
                       /\ exchange'[a][x].maxRounds = exchange[a][x].maxRounds
                       /\ exchange'[a][x].currentRound >= exchange[a][x].currentRound
    OBVIOUS
  <2>1. exchange[a][x] \in ExchangeState /\ exchange[a][x].currentRound \in Nat
    BY DEF TypeOK, ExchangeState
  <2>2. exchange'[a][x] = exchange[a][x] =>
          /\ exchange'[a][x] # NoExchange
          /\ exchange'[a][x].maxRounds = exchange[a][x].maxRounds
          /\ exchange'[a][x].currentRound >= exchange[a][x].currentRound
    BY <2>1
  <2>3. CASE Request
    <3>1. PICK ag \in Agents, xx \in Exchanges, d \in Drafts :
            exchange' = [exchange EXCEPT ![ag][xx] = IncrementRound(StateFor(ag, xx, d))]
      BY <2>3 DEF Request, SendOverLimit, SendAll, SendFiltered, BeginOutgoing
    <3>2. CASE ag = a /\ xx = x
      <4>1. StateFor(a, x, d) = exchange[a][x]
        BY DEF StateFor
      <4>2. exchange'[a][x] = IncrementRound(exchange[a][x])
        BY <3>1, <3>2, <4>1 DEF TypeOK
      <4>. QED
        BY <2>1, <4>2, IncrementRoundType, NoExchangeAssumption
    <3>3. CASE ~(ag = a /\ xx = x)
      BY <2>2, <3>1, <3>3 DEF TypeOK
    <3>. QED
      BY <3>2, <3>3
  <2>4. CASE ResumeIncoming
    <3>1. PICK c \in receiving : exchange' = Adopt(c.msg) \/ exchange' = exchange
      BY <2>4 DEF ResumeIncoming, PolicyDenies, CommitmentNeedsHuman, AcceptMessage,
         IncomingLogged, DenialLogged, IncomingFails
    <3>2. ASSUME NEW to, NEW y, NEW e, ~(to = a /\ y = x),
                 exchange' = [exchange EXCEPT ![to][y] = e]
          PROVE  exchange'[a][x] = exchange[a][x]
      <4>1. a \in DOMAIN exchange /\ x \in DOMAIN exchange[a]
        BY DEF TypeOK
      <4>2. CASE to = a
        <5>1. exchange'[a] = [exchange[a] EXCEPT ![y] = e] /\ y # x
          BY <3>2, <4>1, <4>2
        <5>. QED
          BY <4>1, <5>1
      <4>3. CASE to # a
        BY <3>2, <4>1, <4>3
      <4>. QED
        BY <4>2, <4>3
    <3>3. PICK t, y : t = c.msg.to /\ y = c.msg.exchange
      OBVIOUS
    <3>4. \/ exchange' = exchange
          \/ exchange[t][y] = NoExchange /\ \E e : exchange' = [exchange EXCEPT ![t][y] = e]
      BY <3>1, <3>3, Zenon DEF Adopt
    <3>5. exchange'[a][x] = exchange[a][x]
      <4>1. ASSUME exchange[t][y] = NoExchange,
                   NEW e, exchange' = [exchange EXCEPT ![t][y] = e]
            PROVE  exchange'[a][x] = exchange[a][x]
        <5>1. ~(t = a /\ y = x)
          BY <4>1
        <5>. QED
          BY <3>2, <4>1, <5>1, Zenon
      <4>. QED
        BY <3>4, <4>1
    <3>. QED
      BY <2>2, <3>5
  <2>5. CASE ResumeOutgoing \/ Transport
    <3>1. exchange' = exchange
      BY <2>5 DEF ResumeOutgoing, WithheldLogged, OutgoingLogged, EscalationLogged,
         OutgoingFails, Transport, BlockCrossEnterprise, ReceiveMessage
    <3>. QED
      BY <2>2, <3>1
  <2>6. CASE \E b \in Agents : Restart(b)
    <3>1. PICK b \in Agents : Restart(b)
      BY <2>6
    <3>2. b # a
      BY <3>1 DEF Restart, TypeOK
    <3>. QED
      BY <2>2, <3>1, <3>2 DEF Restart, TypeOK
  <2>. QED
    BY <2>3, <2>4, <2>5, <2>6 DEF Next
<1>. QED
  BY <1>1, TypeCorrect, PTL DEF Spec, LimitIsNeverExtended

(***************************************************************************)
(* The hooks implement BoundedExchange: every step of theirs is one of its *)
(* steps on Sides, or leaves Sides as it is.                               *)
(***************************************************************************)
LEMMA SidesType ==
  ASSUME TypeOK, NEW a \in Agents, NEW x \in Exchanges
  PROVE  /\ exchange[a][x] = NoExchange => Sides[a][x] = NoExchange
         /\ exchange[a][x] # NoExchange =>
              /\ Sides[a][x] = SideOf(a, x)
              /\ Sides[a][x] # NoExchange
         /\ WaitingRounds(a, x) \subseteq Nat /\ SentRounds(a, x) \subseteq Nat
<1>1. WaitingRounds(a, x) \subseteq Nat /\ SentRounds(a, x) \subseteq Nat
  BY DEF WaitingRounds, SentRounds, TypeOK, OutgoingCall, Message, Envelope
<1>2. exchange[a][x] # NoExchange =>
        SideOf(a, x) \in [limit : Nat, counted : Nat, waiting : SUBSET Nat, sent : SUBSET Nat]
  BY <1>1 DEF SideOf, TypeOK, ExchangeState
<1>. QED
  BY <1>1, <1>2, NoExchangeAssumption DEF Sides

\* Nothing waits and nothing has left on a side the agent does not know.
LEMMA UnknownSideIsEmpty ==
  ASSUME TypeOK, RoundInv, NEW a \in Agents, NEW x \in Exchanges,
         exchange[a][x] = NoExchange
  PROVE  WaitingRounds(a, x) = {} /\ SentRounds(a, x) = {}
<1>1. \A c \in sending : TicketIsCovered(TicketOf(c.msg)) /\ CallInv(c)
  BY DEF RoundInv, TicketInv, Tickets
<1>2. \A m \in net : TicketIsCovered(TicketOf(m))
  BY DEF RoundInv, TicketInv, Tickets
<1>. QED
  BY <1>1, <1>2 DEF WaitingRounds, SentRounds, TicketIsCovered, TicketOf, CallInv

\* A side is what its counter, its calls and its messages make it.
LEMMA SideKept ==
  ASSUME TypeOK, NEW a \in Agents, NEW x \in Exchanges,
         exchange'[a][x] = exchange[a][x],
         WaitingRounds(a, x)' = WaitingRounds(a, x),
         SentRounds(a, x)' = SentRounds(a, x)
  PROVE  Sides'[a][x] = Sides[a][x]
  BY DEF Sides, SideOf

LEMMA SidesUpdated ==
  ASSUME NEW a \in Agents, NEW x \in Exchanges, NEW v, Sides'[a][x] = v,
         \A b \in Agents, y \in Exchanges :
           b # a \/ y # x => Sides'[b][y] = Sides[b][y]
  PROVE  Sides' = [Sides EXCEPT ![a][x] = v]
<1>1. PICK S : S = Sides
  OBVIOUS
<1>2. PICK T : T = Sides'
  OBVIOUS
<1>3. /\ S = [b \in Agents |-> S[b]]
      /\ T = [b \in Agents |-> T[b]]
      /\ \A b \in Agents : S[b] = [y \in Exchanges |-> S[b][y]]
      /\ \A b \in Agents : T[b] = [y \in Exchanges |-> T[b][y]]
  BY <1>1, <1>2 DEF Sides
<1>4. \A b \in Agents, y \in Exchanges :
        T[b][y] = IF b = a /\ y = x THEN v ELSE S[b][y]
  BY <1>1, <1>2
<1>5. ASSUME NEW b \in Agents
      PROVE  T[b] = IF b = a THEN [S[a] EXCEPT ![x] = v] ELSE S[b]
  <2>1. PICK f : f = S[b]
    OBVIOUS
  <2>2. PICK g : g = T[b]
    OBVIOUS
  <2>3. f = [y \in Exchanges |-> f[y]] /\ g = [y \in Exchanges |-> g[y]]
    BY <1>3, <2>1, <2>2
  <2>4. \A y \in Exchanges : g[y] = IF b = a /\ y = x THEN v ELSE f[y]
    BY <1>4, <2>1, <2>2
  <2>5. g = IF b = a THEN [f EXCEPT ![x] = v] ELSE f
    BY <2>3, <2>4
  <2>. QED
    BY <2>1, <2>2, <2>5
<1>6. T = [S EXCEPT ![a] = [S[a] EXCEPT ![x] = v]]
  <2>1. PICK f : f = [S[a] EXCEPT ![x] = v]
    OBVIOUS
  <2>2. \A b \in Agents : T[b] = IF b = a THEN f ELSE S[b]
    BY <1>5, <2>1
  <2>3. T = [S EXCEPT ![a] = f]
    BY <1>3, <2>2
  <2>. QED
    BY <2>1, <2>3
<1>. QED
  BY <1>1, <1>2, <1>6

LEMMA SidesUnchanged ==
  ASSUME \A b \in Agents, y \in Exchanges : Sides'[b][y] = Sides[b][y]
  PROVE  Sides' = Sides
  BY DEF Sides

\* A counted round is an Ask: it is granted exactly when it is within the limit.
LEMMA BeginOutgoingAsks ==
  ASSUME TypeOK, TypeOK', RoundInv, RoundInv', NEW a \in Agents, NEW b \in Agents,
         NEW x \in Exchanges, NEW d \in Drafts, NEW pc, NEW event,
         BeginOutgoing(a, b, x, d, pc, event)
  PROVE  Bounded!Ask(a, x)
<1>1. PICK s : s = StateFor(a, x, d)
  OBVIOUS
<1>2. PICK m : m = Outgoing(a, b, x, d)
  OBVIOUS
<1>3. PICK c : c = [pc |-> pc, msg |-> m,
                    entry |-> Entry(m, "initiator", event, IncrementRound(s))]
  OBVIOUS
<1>4. PICK k : k = IncrementRound(s)
  OBVIOUS
<1>5. s \in ExchangeState /\ k \in ExchangeState
      /\ k.currentRound = s.currentRound + 1 /\ k.maxRounds = s.maxRounds
  BY <1>1, <1>4, StateForType, IncrementRoundType
<1>6. /\ c.msg.from = a /\ c.msg.exchange = x /\ c.msg.epoch = epoch[a] /\ c.pc = pc
      /\ c.msg.envelope.round = k.currentRound /\ c.msg.envelope.maxRounds = k.maxRounds
  BY <1>1, <1>2, <1>3, <1>4 DEF Outgoing, BuildEnvelope
<1>7. /\ exchange' = [exchange EXCEPT ![a][x] = k] /\ sending' = sending \cup {c}
      /\ net' = net /\ epoch' = epoch
  BY <1>1, <1>2, <1>3, <1>4 DEF BeginOutgoing
<1>8. pc = "escalate" <=> k.currentRound > k.maxRounds
  BY <1>6, <1>7 DEF RoundInv, CallInv
<1>9. \A e \in Agents, y \in Exchanges :
        /\ SentRounds(e, y)' = SentRounds(e, y)
        /\ e # a \/ y # x =>
             /\ WaitingRounds(e, y)' = WaitingRounds(e, y)
             /\ exchange'[e][y] = exchange[e][y]
  BY <1>6, <1>7 DEF SentRounds, WaitingRounds, TypeOK
<1>10. WaitingRounds(a, x)' =
         WaitingRounds(a, x) \cup ({k.currentRound} \cap 1 .. k.maxRounds)
  <2>1. k.currentRound \in 1 .. k.maxRounds <=> pc # "escalate"
    BY <1>5, <1>8 DEF ExchangeState
  <2>2. WaitingRounds(a, x)' =
          WaitingRounds(a, x) \cup (IF pc # "escalate" THEN {k.currentRound} ELSE {})
    BY <1>6, <1>7 DEF WaitingRounds
  <2>. QED
    BY <2>1, <2>2
<1>11. PICK v : v = [limit |-> s.maxRounds, counted |-> s.currentRound,
                     waiting |-> WaitingRounds(a, x), sent |-> SentRounds(a, x)]
  OBVIOUS
<1>12. v \in Bounded!Current(a, x)
  <2>1. CASE exchange[a][x] = NoExchange
    <3>1. /\ s.maxRounds = LimitOf(d) /\ s.currentRound = 0
          /\ WaitingRounds(a, x) = {} /\ SentRounds(a, x) = {}
      BY <1>1, <2>1, UnknownSideIsEmpty DEF StateFor, InitExchange
    <3>. QED
      BY <1>11, <2>1, <3>1, SidesType DEF Bounded!Current, Bounded!NewSide
  <2>2. CASE exchange[a][x] # NoExchange
    <3>1. s = exchange[a][x]
      BY <1>1, <2>2 DEF StateFor
    <3>. QED
      BY <1>11, <2>2, <3>1, SidesType DEF Bounded!Current, SideOf
  <2>. QED
    BY <2>1, <2>2
<1>13. PICK w : w = [v EXCEPT !.counted = v.counted + 1,
                     !.waiting = @ \cup ({v.counted + 1} \cap 1 .. v.limit)]
  OBVIOUS
<1>14. w = [limit |-> s.maxRounds, counted |-> k.currentRound,
            waiting |-> WaitingRounds(a, x) \cup ({k.currentRound} \cap 1 .. k.maxRounds),
            sent |-> SentRounds(a, x)]
  BY <1>5, <1>11, <1>13
<1>15. Sides'[a][x] = w
  <2>1. exchange'[a][x] = k /\ k # NoExchange
    BY <1>5, <1>7, NoExchangeAssumption DEF TypeOK
  <2>. QED
    BY <1>5, <1>9, <1>10, <1>14, <2>1 DEF Sides, SideOf
<1>16. Sides' = [Sides EXCEPT ![a][x] = w]
  BY <1>9, <1>15, SideKept, SidesUpdated
<1>. QED
  BY <1>12, <1>13, <1>16 DEF Bounded!Ask

\* A call that ends gives up its round, which no other call of the side holds.
LEMMA RoundGivenUp ==
  ASSUME TypeOK, RoundInv, IdsNameMessages, NEW c \in sending, c.pc # "escalate",
         sending' = sending \ {c}
  PROVE  /\ c.msg.envelope.round \in WaitingRounds(c.msg.from, c.msg.exchange)
         /\ WaitingRounds(c.msg.from, c.msg.exchange)' =
              WaitingRounds(c.msg.from, c.msg.exchange) \ {c.msg.envelope.round}
         /\ \A b \in Agents, y \in Exchanges :
              b # c.msg.from \/ y # c.msg.exchange
              => WaitingRounds(b, y)' = WaitingRounds(b, y)
<1>1. ASSUME NEW k \in sending, k # c, k.msg.from = c.msg.from,
             k.msg.exchange = c.msg.exchange
      PROVE  k.msg.envelope.round # c.msg.envelope.round
  <2>1. k.msg.id # c.msg.id
    BY <1>1 DEF IdsNameMessages
  <2>2. /\ TicketsAreOrdered(TicketOf(k.msg), TicketOf(c.msg))
        /\ TicketsAreOrdered(TicketOf(c.msg), TicketOf(k.msg))
        /\ k.msg.epoch = c.msg.epoch
    BY <1>1 DEF RoundInv, TicketInv, Tickets, CallInv
  <2>3. /\ k.msg.id \in Nat /\ c.msg.id \in Nat
        /\ k.msg.envelope.round \in Nat /\ c.msg.envelope.round \in Nat
    <3>1. k.msg \in Message /\ c.msg \in Message
      BY <1>1 DEF TypeOK, OutgoingCall
    <3>2. ASSUME NEW m \in Message PROVE m.id \in Nat /\ m.envelope.round \in Nat
      BY OcipAssumption DEF Message, Envelope
    <3>. QED
      BY <3>1, <3>2
  <2>4. /\ k.msg.id < c.msg.id => k.msg.envelope.round < c.msg.envelope.round
        /\ c.msg.id < k.msg.id => c.msg.envelope.round < k.msg.envelope.round
    BY <1>1, <2>2 DEF TicketsAreOrdered, TicketOf
  <2>. QED
    BY <2>1, <2>3, <2>4
<1>. QED
  BY <1>1 DEF WaitingRounds

LEMMA LeavingIsLeave ==
  ASSUME TypeOK, TypeOK', RoundInv, IdsNameMessages, NEW c \in sending,
         c.pc # "escalate", sending' = sending \ {c},
         net' = net \cup {c.msg} \/ net' = net,
         UNCHANGED <<exchange, epoch>>
  PROVE  Bounded!Leave(c.msg.from, c.msg.exchange)
<1>1. PICK a \in Agents, x \in Exchanges, r \in Nat :
        a = c.msg.from /\ x = c.msg.exchange /\ r = c.msg.envelope.round
  BY DEF TypeOK, OutgoingCall, Message, Envelope
<1>2. /\ r \in WaitingRounds(a, x)
      /\ WaitingRounds(a, x)' = WaitingRounds(a, x) \ {r}
      /\ \A b \in Agents, y \in Exchanges :
           b # a \/ y # x => WaitingRounds(b, y)' = WaitingRounds(b, y)
  BY <1>1, RoundGivenUp
<1>3. exchange[a][x] \in ExchangeState /\ exchange[a][x] # NoExchange
  BY <1>1, SendingIsTracked, NoExchangeAssumption
<1>4. PICK v : v = SideOf(a, x)
  OBVIOUS
<1>5. Sides[a][x] = v /\ Sides[a][x] # NoExchange /\ r \in Sides[a][x].waiting
  BY <1>2, <1>3, <1>4, SidesType DEF SideOf
<1>6. \A b \in Agents, y \in Exchanges :
        b # a \/ y # x => SentRounds(b, y)' = SentRounds(b, y)
  BY <1>1 DEF SentRounds
<1>7. \A b \in Agents, y \in Exchanges :
        b # a \/ y # x => Sides'[b][y] = Sides[b][y]
  BY <1>2, <1>6, SideKept
<1>8. CASE net' = net \cup {c.msg}
  <2>1. SentRounds(a, x)' = SentRounds(a, x) \cup {r}
    <3>1. c.msg.epoch = epoch[a]
      BY <1>1 DEF RoundInv, CallInv
    <3>. QED
      BY <1>1, <1>8, <3>1 DEF SentRounds
  <2>2. PICK w : w = Bounded!Sent(v, r)
    OBVIOUS
  <2>3. Sides'[a][x] = w
    BY <1>2, <1>3, <1>4, <2>1, <2>2 DEF Sides, SideOf, Bounded!Sent
  <2>4. Sides' = [Sides EXCEPT ![a][x] = w]
    BY <1>7, <2>3, SidesUpdated
  <2>. QED
    BY <1>1, <1>5, <2>2, <2>4, Zenon DEF Bounded!Leave
<1>9. CASE net' = net
  <2>1. SentRounds(a, x)' = SentRounds(a, x)
    BY <1>9 DEF SentRounds
  <2>2. PICK w : w = Bounded!GivenUp(v, r)
    OBVIOUS
  <2>3. Sides'[a][x] = w
    BY <1>2, <1>3, <1>4, <2>1, <2>2 DEF Sides, SideOf, Bounded!GivenUp
  <2>4. Sides' = [Sides EXCEPT ![a][x] = w]
    BY <1>7, <2>3, SidesUpdated
  <2>. QED
    BY <1>1, <1>5, <2>2, <2>4, Zenon DEF Bounded!Leave
<1>. QED
  BY <1>8, <1>9

\* Entries, envelopes, filters and policies are nothing to the rounds.
LEMMA ResumeOutgoingRefines ==
  ASSUME TypeOK, TypeOK', RoundInv, AuditInv, ResumeOutgoing
  PROVE  Bounded!Next \/ Sides' = Sides
<1>1. PICK c \in sending : WithheldLogged(c) \/ OutgoingLogged(c)
                            \/ EscalationLogged(c) \/ OutgoingFails(c)
  BY DEF ResumeOutgoing
<1>2. UNCHANGED <<exchange, epoch>>
  BY <1>1 DEF WithheldLogged, OutgoingLogged, EscalationLogged, OutgoingFails
<1>3. IdsNameMessages /\ c.msg.from \in Agents /\ c.msg.exchange \in Exchanges
  BY DEF AuditInv, TypeOK, OutgoingCall, Message
<1>4. ASSUME net' = net, \A a \in Agents, x \in Exchanges :
                           WaitingRounds(a, x)' = WaitingRounds(a, x)
      PROVE  Sides' = Sides
  <2>1. \A a \in Agents, x \in Exchanges : SentRounds(a, x)' = SentRounds(a, x)
    BY <1>2, <1>4 DEF SentRounds
  <2>. QED
    BY <1>2, <1>4, <2>1, SideKept, SidesUnchanged
<1>5. CASE WithheldLogged(c)
  <2>1. PICK k : k = [pc |-> "log", msg |-> c.msg,
                 entry |-> Entry(c.msg, "initiator", "in_progress",
                                 exchange[c.msg.from][c.msg.exchange])]
    OBVIOUS
  <2>2. k.pc = "log" /\ k.msg = c.msg
    BY <2>1
  <2>3. sending' = (sending \ {c}) \cup {k} /\ net' = net /\ c.pc = "withheld"
    BY <1>5, <2>1 DEF WithheldLogged
  <2>4. \A a \in Agents, x \in Exchanges : WaitingRounds(a, x)' = WaitingRounds(a, x)
    BY <2>2, <2>3 DEF WaitingRounds
  <2>. QED
    BY <1>4, <2>3, <2>4
<1>6. CASE c.pc = "escalate" /\ (EscalationLogged(c) \/ OutgoingFails(c))
  <2>1. sending' = sending \ {c} /\ net' = net
    BY <1>6 DEF EscalationLogged, OutgoingFails
  <2>2. \A a \in Agents, x \in Exchanges : WaitingRounds(a, x)' = WaitingRounds(a, x)
    BY <1>6, <2>1 DEF WaitingRounds
  <2>. QED
    BY <1>4, <2>1, <2>2
<1>7. CASE c.pc # "escalate" /\ (OutgoingLogged(c) \/ OutgoingFails(c))
  <2>1. sending' = sending \ {c} /\ (net' = net \cup {c.msg} \/ net' = net)
    BY <1>7 DEF OutgoingLogged, OutgoingFails
  <2>2. Bounded!Leave(c.msg.from, c.msg.exchange)
    BY <1>2, <1>3, <1>7, <2>1, LeavingIsLeave
  <2>. QED
    BY <1>3, <2>2 DEF Bounded!Next
<1>. QED
  BY <1>1, <1>5, <1>6, <1>7 DEF EscalationLogged, OutgoingLogged

\* The first message of the other side is a Join, a later one changes nothing.
LEMMA AdoptRefines ==
  ASSUME TypeOK, RoundInv, ReceiptInv, LimitInv, NEW c \in receiving,
         exchange' = Adopt(c.msg), UNCHANGED <<sending, net, epoch>>
  PROVE  Bounded!Next \/ Sides' = Sides
<1>1. PICK m \in Message : m = c.msg
  BY DEF TypeOK, IncomingCall
<1>2. PICK a \in Agents, x \in Exchanges : a = m.to /\ x = m.exchange
  BY DEF Message
<1>3. m \in net /\ TicketOf(m) \in Tickets
  BY <1>1 DEF ReceiptInv, Tickets
<1>4. /\ m.envelope.round \in 1 .. m.envelope.maxRounds
      /\ m.envelope.round \in Nat /\ m.envelope.maxRounds \in Nat
      /\ m.envelope.maxRounds \in {LimitOf(d) : d \in Drafts}
  <2>1. TicketIsCovered(TicketOf(m)) /\ m.envelope.round <= m.envelope.maxRounds
    BY <1>3 DEF RoundInv, TicketInv
  <2>2. m.envelope.round \in Nat /\ m.envelope.maxRounds \in Nat
    BY DEF Message, Envelope
  <2>3. m.envelope.maxRounds \in {LimitOf(d) : d \in Drafts}
    BY <1>3 DEF LimitInv, InFlight
  <2>. QED
    BY <2>1, <2>2, <2>3 DEF TicketIsCovered, TicketOf
<1>5. \A b \in Agents, y \in Exchanges :
        /\ WaitingRounds(b, y)' = WaitingRounds(b, y)
        /\ SentRounds(b, y)' = SentRounds(b, y)
  BY DEF WaitingRounds, SentRounds
<1>6. CASE exchange[a][x] # NoExchange
  <2>1. exchange' = exchange
    BY <1>1, <1>2, <1>6 DEF Adopt
  <2>. QED
    BY <1>5, <2>1, SideKept, SidesUnchanged
<1>7. CASE exchange[a][x] = NoExchange
  <2>1. PICK s : s = [InitExchange(m.envelope.maxRounds)
                        EXCEPT !.currentRound = m.envelope.round]
    OBVIOUS
  <2>2. s = [currentRound |-> m.envelope.round, maxRounds |-> m.envelope.maxRounds,
             transcript |-> {}]
    BY <2>1 DEF InitExchange
  <2>3. s # NoExchange
    BY <1>4, <2>2, NoExchangeAssumption DEF ExchangeState
  <2>4. exchange' = [exchange EXCEPT ![a][x] = s]
    BY <1>1, <1>2, <1>7, <2>1 DEF Adopt
  <2>5. /\ exchange'[a][x] = s
        /\ \A b \in Agents, y \in Exchanges :
             b # a \/ y # x => exchange'[b][y] = exchange[b][y]
    BY <2>4 DEF TypeOK
  <2>6. WaitingRounds(a, x) = {} /\ SentRounds(a, x) = {} /\ Sides[a][x] = NoExchange
    BY <1>7, UnknownSideIsEmpty, SidesType
  <2>7. PICK v : v = [Bounded!NewSide(m.envelope.maxRounds)
                        EXCEPT !.counted = m.envelope.round]
    OBVIOUS
  <2>8. v = [limit |-> m.envelope.maxRounds, counted |-> m.envelope.round,
             waiting |-> {}, sent |-> {}]
    BY <2>7 DEF Bounded!NewSide
  <2>9. Sides'[a][x] = v
    <3>1. s.maxRounds = m.envelope.maxRounds /\ s.currentRound = m.envelope.round
      BY <2>2
    <3>2. exchange'[a][x] # NoExchange
      BY <2>3, <2>5
    <3>3. WaitingRounds(a, x)' = {} /\ SentRounds(a, x)' = {}
      BY <1>5, <2>6
    <3>. QED
      BY <2>5, <2>8, <3>1, <3>2, <3>3 DEF Sides, SideOf
  <2>10. Sides' = [Sides EXCEPT ![a][x] = v]
    BY <1>5, <2>5, <2>9, SideKept, SidesUpdated
  <2>11. Bounded!Join(a, x)
    BY <1>4, <2>6, <2>7, <2>10 DEF Bounded!Join
  <2>. QED
    BY <2>11 DEF Bounded!Next
<1>. QED
  BY <1>6, <1>7

LEMMA RestartIsCrash ==
  ASSUME TypeOK, NEW a \in Agents, Restart(a)
  PROVE  Bounded!Crash(a)
<1>1. /\ exchange' = [exchange EXCEPT ![a] = [x \in Exchanges |-> NoExchange]]
      /\ epoch' = [epoch EXCEPT ![a] = @ + 1]
      /\ sending' = {c \in sending : c.msg.from # a} /\ net' = net
  BY DEF Restart
<1>2. ASSUME NEW b \in Agents, NEW x \in Exchanges
      PROVE  Sides'[b][x] = IF b = a THEN NoExchange ELSE Sides[b][x]
  <2>1. CASE b = a
    BY <1>1, <2>1 DEF Sides, TypeOK
  <2>2. CASE b # a
    <3>1. exchange'[b][x] = exchange[b][x] /\ epoch'[b] = epoch[b]
      BY <1>1, <2>2 DEF TypeOK
    <3>2. /\ WaitingRounds(b, x)' = WaitingRounds(b, x)
          /\ SentRounds(b, x)' = SentRounds(b, x)
      BY <1>1, <2>2, <3>1 DEF WaitingRounds, SentRounds
    <3>. QED
      BY <2>2, <3>1, <3>2, SideKept
  <2>. QED
    BY <2>1, <2>2
<1>3. PICK none : none = [x \in Exchanges |-> NoExchange]
  OBVIOUS
<1>4. PICK S : S = Sides
  OBVIOUS
<1>5. PICK T : T = Sides'
  OBVIOUS
<1>6. /\ S = [b \in Agents |-> S[b]] /\ T = [b \in Agents |-> T[b]]
      /\ \A b \in Agents : S[b] = [x \in Exchanges |-> S[b][x]]
      /\ \A b \in Agents : T[b] = [x \in Exchanges |-> T[b][x]]
  BY <1>4, <1>5 DEF Sides
<1>7. ASSUME NEW b \in Agents PROVE T[b] = IF b = a THEN none ELSE S[b]
  <2>1. PICK f : f = S[b]
    OBVIOUS
  <2>2. PICK g : g = T[b]
    OBVIOUS
  <2>3. f = [x \in Exchanges |-> f[x]] /\ g = [x \in Exchanges |-> g[x]]
    BY <1>6, <2>1, <2>2
  <2>4. \A x \in Exchanges : g[x] = IF b = a THEN NoExchange ELSE f[x]
    BY <1>2, <1>4, <1>5, <2>1, <2>2
  <2>5. g = IF b = a THEN none ELSE f
    BY <1>3, <2>3, <2>4
  <2>. QED
    BY <2>1, <2>2, <2>5
<1>8. T = [S EXCEPT ![a] = none]
  BY <1>6, <1>7
<1>. QED
  BY <1>3, <1>4, <1>5, <1>8 DEF Bounded!Crash

LEMMA RefinementStep ==
  ASSUME TypeOK, TypeOK', RoundInv, RoundInv', AuditInv, ReceiptInv, LimitInv, [Next]_vars
  PROVE  Bounded!Next \/ Sides' = Sides
<1>1. CASE Request
  <2>1. PICK a \in Agents, x \in Exchanges, d \in Drafts : \E b \in Agents \ {a} :
          SendOverLimit(a, b, x, d) \/ SendAll(a, b, x, d) \/ SendFiltered(a, b, x, d)
    BY <1>1 DEF Request
  <2>2. PICK b \in Agents : \E pc, event : BeginOutgoing(a, b, x, d, pc, event)
    BY <2>1, Zenon DEF SendOverLimit, SendAll, SendFiltered
  <2>. QED
    BY <2>2, BeginOutgoingAsks DEF Bounded!Next
<1>2. CASE ResumeIncoming
  <2>1. PICK c \in receiving : exchange' = Adopt(c.msg) \/ exchange' = exchange
    BY <1>2 DEF ResumeIncoming, PolicyDenies, CommitmentNeedsHuman, AcceptMessage,
       IncomingLogged, DenialLogged, IncomingFails
  <2>2. UNCHANGED <<sending, net, epoch>>
    BY <1>2 DEF ResumeIncoming, PolicyDenies, CommitmentNeedsHuman, AcceptMessage,
       IncomingLogged, DenialLogged, IncomingFails
  <2>3. CASE exchange' = exchange
    BY <2>2, <2>3 DEF Sides, SideOf, WaitingRounds, SentRounds
  <2>. QED
    BY <2>1, <2>2, <2>3, AdoptRefines
<1>3. CASE Transport \/ UNCHANGED vars
  <2>1. UNCHANGED <<exchange, sending, net, epoch>>
    BY <1>3 DEF Transport, BlockCrossEnterprise, ReceiveMessage, vars
  <2>. QED
    BY <2>1 DEF Sides, SideOf, WaitingRounds, SentRounds
<1>4. CASE \E a \in Agents : Restart(a)
  BY <1>4, RestartIsCrash DEF Bounded!Next
<1>. QED
  BY <1>1, <1>2, <1>3, <1>4, ResumeOutgoingRefines DEF Next

\* Whatever overlaps, fails, is lost, redelivered or restarted: to the rounds of an
\* exchange the hooks do only what BoundedExchange allows.
THEOREM Refinement == Spec => ImplementsBoundedExchange
<1>1. Init => Bounded!Init
  BY DEF Init, Bounded!Init, Sides
<1>2. /\ TypeOK /\ RoundInv /\ AuditInv /\ ReceiptInv /\ LimitInv
      /\ (TypeOK /\ RoundInv)' /\ [Next]_vars
      => [Bounded!Next]_Sides
  BY RefinementStep
<1>. QED
  BY <1>1, <1>2, AuditInvariance, PTL DEF Spec, ImplementsBoundedExchange, Bounded!Spec
=============================================================================
