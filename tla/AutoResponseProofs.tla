------------------------- MODULE AutoResponseProofs -------------------------
(* Theorems about AutoResponse, for any messages, scopes and bounds.       *)
EXTENDS AutoResponse, TLAPS

(***************************************************************************)
(* Types.                                                                  *)
(***************************************************************************)
LEMMA NewCallType ==
  ASSUME TypeOK, NEW m \in Messages, nextCall <= MaxCalls
  PROVE  NewCall(m) \in Call
  BY AutoResponseAssumption DEF NewCall, Call, TypeOK, Rule

LEMMA MapPolicyDecisionType ==
  ASSUME NEW decision
  PROVE  MapPolicyDecision(decision) \in Rule
  BY DEF MapPolicyDecision, Rule, Autonomy

LEMMA ClassifiedCallType ==
  ASSUME NEW c \in Call, NEW class \in Classifications
  PROVE  /\ [c EXCEPT !.pc = "policy", !.class = class] \in Call
         /\ [c EXCEPT !.pc = "policy", !.class = class].call = c.call
  BY DEF Call

LEMMA AnsweredCallType ==
  ASSUME NEW c \in Call, NEW level \in Rule
  PROVE  /\ [c EXCEPT !.pc = "draft", !.policy = level] \in Call
         /\ [c EXCEPT !.pc = "draft", !.policy = level].call = c.call
  BY DEF Call

LEMMA QueuedCallType ==
  ASSUME NEW c \in Call
  PROVE  /\ [c EXCEPT !.pc = "queue"] \in Call
         /\ [c EXCEPT !.pc = "queue"].call = c.call
         /\ [c EXCEPT !.pc = "queue"].pc = "queue"
  BY DEF Call

LEMMA FinishType ==
  ASSUME TypeOK, NEW c \in Call,
         NEW action \in {"sent", "notified", "queued", "blocked", "skipped", "failed"},
         Finish(c, action)
  PROVE  results' \subseteq Result
  BY DEF Finish, TypeOK, Call, Result

LEMMA AuditLogType ==
  ASSUME TypeOK, NEW c, c.call \in 1..MaxCalls,
         NEW event \in {"classified", "generated", "pending_approval",
                        "approved", "rejected"},
         AuditLog(c, event)
  PROVE  audit' \subseteq AuditEntry
  BY DEF AuditLog, TypeOK, AuditEntry

LEMMA NewEntryType ==
  ASSUME TypeOK, NEW c \in Call
  PROVE  NewEntry(c) \in PendingResponse
  BY DEF NewEntry, PendingResponse, TypeOK, Call

LEMMA SettleType ==
  ASSUME TypeOK, NEW d \in deciding, NEW fate \in {"approved", "rejected", "lost"},
         Settle(d, fate)
  PROVE  deciding' \subseteq Decision /\ decided' \subseteq Decided
  BY DEF Settle, TypeOK, Decision, Decided

LEMMA CallsTyped ==
  ASSUME TypeOK, NEW c \in calls
  PROVE  c \in Call /\ c.call \in 1..MaxCalls
  BY DEF TypeOK, Call

LEMMA TypeInit == Init => TypeOK
  BY AutoResponseAssumption DEF Init, TypeOK

LEMMA ProcessMessageType ==
  ASSUME TypeOK, ProcessMessage
  PROVE  TypeOK'
<1>. USE AutoResponseAssumption
<1>1. ASSUME NEW m \in Messages, SkipMessage(m)
      PROVE  TypeOK'
  <2>1. results' \subseteq Result
    BY <1>1, NewCallType, FinishType DEF SkipMessage
  <2>2. nextCall' \in 1..(MaxCalls + 1)
    BY <1>1 DEF SkipMessage, TypeOK
  <2>. QED
    BY <1>1, <2>1, <2>2 DEF TypeOK, SkipMessage
<1>2. ASSUME NEW m \in Messages, ReceiveMessage(m)
      PROVE  TypeOK'
  <2>1. calls' \subseteq Call
    BY <1>2, NewCallType DEF ReceiveMessage, TypeOK
  <2>2. nextCall' \in 1..(MaxCalls + 1)
    BY <1>2 DEF ReceiveMessage, TypeOK
  <2>. QED
    BY <1>2, <2>1, <2>2 DEF TypeOK, ReceiveMessage
<1>3. ASSUME NEW c \in calls, NEW class \in Classifications, Classified(c, class)
      PROVE  TypeOK'
  <2>1. audit' \subseteq AuditEntry
    BY <1>3, CallsTyped, AuditLogType DEF Classified
  <2>2. PICK d \in Call : calls' = (calls \ {c}) \cup {d}
    BY <1>3, CallsTyped, ClassifiedCallType DEF Classified, Advance
  <2>3. calls \subseteq Call
    BY DEF TypeOK
  <2>4. calls' \subseteq Call
    BY <2>2, <2>3
  <2>. QED
    BY <1>3, <2>1, <2>4 DEF TypeOK, Classified
<1>4. ASSUME NEW c \in calls, NEW decision, PolicyAnswers(c, decision)
      PROVE  TypeOK'
  <2>1. PICK d \in Call : calls' = (calls \ {c}) \cup {d}
    BY <1>4, CallsTyped, AnsweredCallType, MapPolicyDecisionType DEF PolicyAnswers, Advance
  <2>2. calls \subseteq Call
    BY DEF TypeOK
  <2>3. calls' \subseteq Call
    BY <2>1, <2>2
  <2>. QED
    BY <1>4, <2>3 DEF TypeOK, PolicyAnswers
<1>5. ASSUME NEW c \in calls, RespondAtOnce(c)
      PROVE  TypeOK'
  <2>1. audit' \subseteq AuditEntry
    BY <1>5, CallsTyped, AuditLogType DEF RespondAtOnce
  <2>2. results' \subseteq Result
    BY <1>5, CallsTyped, FinishType DEF RespondAtOnce
  <2>. QED
    BY <1>5, <2>1, <2>2 DEF TypeOK, RespondAtOnce
<1>6. ASSUME NEW c \in calls, BlockResponse(c)
      PROVE  TypeOK'
  <2>1. audit' \subseteq AuditEntry
    BY <1>6, CallsTyped, AuditLogType DEF BlockResponse
  <2>2. results' \subseteq Result
    BY <1>6, CallsTyped, FinishType DEF BlockResponse
  <2>. QED
    BY <1>6, <2>1, <2>2 DEF TypeOK, BlockResponse
<1>7. ASSUME NEW c \in calls, Enqueue(c)
      PROVE  TypeOK'
  <2>1. audit' \subseteq AuditEntry
    BY <1>7, CallsTyped, AuditLogType DEF Enqueue
  <2>2. calls' \subseteq Call
    BY <1>7, CallsTyped, QueuedCallType DEF Enqueue, Advance, TypeOK
  <2>3. pending' \subseteq PendingResponse
    BY <1>7, CallsTyped, NewEntryType DEF Enqueue, TypeOK
  <2>4. nextId' \in Nat \ {0}
    BY <1>7 DEF Enqueue, TypeOK
  <2>. QED
    BY <1>7, <2>1, <2>2, <2>3, <2>4 DEF TypeOK, Enqueue
<1>8. ASSUME NEW c \in calls, EnqueueLogged(c)
      PROVE  TypeOK'
  <2>1. audit' \subseteq AuditEntry
    BY <1>8, CallsTyped, AuditLogType DEF EnqueueLogged
  <2>2. results' \subseteq Result
    BY <1>8, CallsTyped, FinishType DEF EnqueueLogged
  <2>. QED
    BY <1>8, <2>1, <2>2 DEF TypeOK, EnqueueLogged
<1>9. ASSUME NEW c \in calls, CallFails(c)
      PROVE  TypeOK'
  <2>1. results' \subseteq Result
    BY <1>9, CallsTyped, FinishType DEF CallFails
  <2>. QED
    BY <1>9, <2>1 DEF TypeOK, CallFails
<1>. QED
  BY <1>1, <1>2, <1>3, <1>4, <1>5, <1>6, <1>7, <1>8, <1>9 DEF ProcessMessage

LEMMA ReviewType ==
  ASSUME TypeOK, Review
  PROVE  TypeOK'
<1>1. ASSUME NEW e \in pending, ListPending(e)
      PROVE  TypeOK'
  BY <1>1 DEF TypeOK, ListPending
<1>2. ASSUME NEW v \in views, NEW e \in pending, NEW action \in {"approved", "rejected"},
             Decide(v, e, action)
      PROVE  TypeOK'
  <2>1. deciding' \subseteq Decision
    BY <1>2 DEF Decide, TypeOK, Decision
  <2>. QED
    BY <1>2, <2>1 DEF TypeOK, Decide
<1>3. ASSUME NEW d \in deciding, DecisionLogged(d)
      PROVE  TypeOK'
  <2>1. d.entry.call \in 1..MaxCalls /\ d.action \in {"approved", "rejected"}
    BY DEF TypeOK, Decision, PendingResponse
  <2>2. audit' \subseteq AuditEntry
    BY <1>3, <2>1, AuditLogType DEF DecisionLogged
  <2>3. deciding' \subseteq Decision /\ decided' \subseteq Decided
    BY <1>3, <2>1, SettleType DEF DecisionLogged
  <2>. QED
    BY <1>3, <2>2, <2>3 DEF TypeOK, DecisionLogged
<1>4. ASSUME NEW d \in deciding, DecisionFails(d)
      PROVE  TypeOK'
  <2>1. deciding' \subseteq Decision /\ decided' \subseteq Decided
    BY <1>4, SettleType DEF DecisionFails
  <2>. QED
    BY <1>4, <2>1 DEF TypeOK, DecisionFails
<1>. QED
  BY <1>1, <1>2, <1>3, <1>4 DEF Review

LEMMA TypePreserved ==
  ASSUME TypeOK, [Next]_vars
  PROVE  TypeOK'
<1>. USE AutoResponseAssumption
<1>1. ASSUME NEW s \in Scopes, UpdateScopeConfig(s)
      PROVE  TypeOK'
  BY <1>1 DEF TypeOK, UpdateScopeConfig
<1>2. CASE Restart
  BY <1>2 DEF TypeOK, Restart
<1>3. CASE UNCHANGED vars
  BY <1>3 DEF TypeOK, vars
<1>. QED
  BY <1>1, <1>2, <1>3, ProcessMessageType, ReviewType DEF Next

\* Every variable of the plugin has its type, for any messages and scopes.
THEOREM AutoResponseTypeCorrect == Spec => []TypeOK
  BY TypeInit, TypePreserved, PTL DEF Spec

(***************************************************************************)
(* The approval queue.                                                     *)
(***************************************************************************)

\* The facts the queue's invariant speaks of, apart from the calls.
queue == <<pending, deciding, decided, views, nextId, epoch>>

LEMMA FatesUnchanged ==
  ASSUME UNCHANGED queue
  PROVE  Fates' = Fates /\ Entries' = Entries /\ Seen' = Seen
  BY DEF queue, Fates, Entries, Seen, PendingFate, DecidingFate, DecidedFate

LEMMA EntriesTyped ==
  ASSUME TypeOK
  PROVE  Entries \subseteq PendingResponse /\ Seen \subseteq PendingResponse
<1>1. \A f \in Fates : f.entry \in PendingResponse
  BY DEF Fates, PendingFate, DecidingFate, DecidedFate, TypeOK, Decision, Decided
<1>. QED
  BY <1>1 DEF Entries, Seen, TypeOK

\* Wherever an entry is, it is one of the entries, and seen.
LEMMA EntryOf ==
  /\ \A e \in pending : PendingFate(e) \in Fates /\ PendingFate(e).entry = e
  /\ \A d \in deciding : DecidingFate(d) \in Fates /\ DecidingFate(d).entry = d.entry
  /\ \A d \in decided : DecidedFate(d) \in Fates /\ DecidedFate(d).entry = d.entry
<1>1. \A e : PendingFate(e).entry = e
  BY DEF PendingFate
<1>2. \A d : DecidingFate(d).entry = d.entry /\ DecidedFate(d).entry = d.entry
  BY DEF DecidingFate, DecidedFate
<1>. QED
  BY <1>1, <1>2 DEF Fates

LEMMA SeenEntries ==
  /\ \A e \in pending : e \in Entries
  /\ \A d \in deciding \cup decided : d.entry \in Entries
  /\ Entries \subseteq Seen /\ views \subseteq Seen
  BY EntryOf DEF Entries, Seen

\* A step of processMessage that leaves the queue alone: a call is new or goes on
\* from an earlier one.
LEMMA CallStep ==
  ASSUME TypeOK, TypeOK', QueueInv, UNCHANGED queue, nextCall' >= nextCall,
         \A c, d \in calls' : c.call = d.call => c = d,
         \A c \in calls' :
           \/ c.call = nextCall /\ nextCall' = nextCall + 1
           \/ \E d \in calls : d.call = c.call /\ (c.pc # "queue" => d.pc # "queue")
  PROVE  QueueInv'
<1>1. Fates' = Fates /\ Entries' = Entries /\ Seen' = Seen
  BY FatesUnchanged
<1>2. IdsAreUnique' /\ EntriesAreKept' /\ DecidedById'
  BY <1>1 DEF QueueInv, IdsAreUnique, EntriesAreKept, DecidedById, queue
<1>3. nextCall \in Nat /\ nextCall' \in Nat
  BY AutoResponseAssumption DEF TypeOK
<1>4. \A c \in calls : c.call \in Nat
  BY CallsTyped
<1>5. \A e \in Seen : e.call \in Nat
  BY EntriesTyped DEF PendingResponse
<1>6. \A c \in calls' : c.call < nextCall'
  BY <1>3, <1>4 DEF QueueInv, CallsQueueOnce
<1>7. \A e \in Seen' : e.call < nextCall'
  BY <1>1, <1>3, <1>5 DEF QueueInv, CallsQueueOnce
<1>8. \A c \in calls', e \in Seen' : c.pc # "queue" => e.call # c.call
  BY <1>1, <1>3, <1>5 DEF QueueInv, CallsQueueOnce
<1>. QED
  BY <1>2, <1>6, <1>7, <1>8 DEF QueueInv, CallsQueueOnce

\* A call that ends leaves the others.
LEMMA CallEnds ==
  ASSUME TypeOK, TypeOK', QueueInv, UNCHANGED <<queue, nextCall>>, NEW c \in calls,
         calls' = calls \ {c}
  PROVE  QueueInv'
<1>1. nextCall \in Nat
  BY AutoResponseAssumption DEF TypeOK
<1>. QED
  BY <1>1, CallStep DEF QueueInv, CallsQueueOnce

\* A call that goes on is replaced by itself.
LEMMA CallAdvances ==
  ASSUME TypeOK, TypeOK', QueueInv, UNCHANGED <<queue, nextCall>>,
         NEW c \in calls, NEW d, Advance(c, d), d.call = c.call, c.pc # "queue"
  PROVE  QueueInv'
<1>1. nextCall \in Nat
  BY AutoResponseAssumption DEF TypeOK
<1>2. \A a, b \in calls' : a.call = b.call => a = b
  BY DEF QueueInv, CallsQueueOnce, Advance
<1>3. \A a \in calls' : \E b \in calls : b.call = a.call /\ (a.pc # "queue" => b.pc # "queue")
  BY DEF Advance
<1>. QED
  BY <1>1, <1>2, <1>3, CallStep

\* The new entry has an id and a call that nothing known has.
LEMMA EnqueueInv ==
  ASSUME TypeOK, TypeOK', QueueInv, NEW c \in calls, Enqueue(c)
  PROVE  QueueInv'
<1>. DEFINE n == NewEntry(c)
<1>1. /\ n \in PendingResponse
      /\ n.id = nextId /\ n.epoch = epoch /\ n.call = c.call
  BY CallsTyped, NewEntryType DEF NewEntry
<1>2. /\ nextId \in Nat \ {0} /\ epoch \in Nat /\ nextCall \in Nat
      /\ \A e \in Seen : e.id \in Nat /\ e.epoch \in Nat /\ e.call \in Nat
  BY EntriesTyped, AutoResponseAssumption DEF TypeOK, PendingResponse
<1>. HIDE DEF n
<1>3. pending \subseteq Seen /\ views \subseteq Seen
  BY SeenEntries
<1>4. /\ pending' = pending \cup {n}
      /\ nextId' = nextId + 1
      /\ UNCHANGED <<deciding, decided, views, epoch, nextCall>>
  <2>1. \A e \in pending : e.id # nextId
    BY <1>2, <1>3 DEF QueueInv, IdsAreUnique
  <2>. QED
    BY <1>1, <2>1 DEF Enqueue, n
<1>5. Fates' = Fates \cup {PendingFate(n)}
  BY <1>4 DEF Fates, PendingFate, DecidingFate, DecidedFate
<1>6. Entries' = Entries \cup {n} /\ Seen' = Seen \cup {n}
  <2>1. PendingFate(n).entry = n
    BY DEF PendingFate
  <2>2. Entries' = Entries \cup {n}
    BY <1>5, <2>1 DEF Entries
  <2>. QED
    BY <1>4, <2>2 DEF Seen
<1>7. \A e \in Seen : e.call # n.call /\ ~(e.epoch = n.epoch /\ e.id = n.id)
  BY <1>1, <1>2 DEF QueueInv, IdsAreUnique, CallsQueueOnce, Enqueue
<1>8. IdsAreUnique'
  BY <1>1, <1>2, <1>4, <1>6, <1>7 DEF QueueInv, IdsAreUnique
<1>9. EntriesAreKept'
  <2>1. \A f \in Fates : f.entry \in Seen
    BY DEF Entries, Seen
  <2>2. \A f, g \in Fates' : f.entry = g.entry => f = g
    BY <1>5, <1>7, <2>1 DEF QueueInv, EntriesAreKept, PendingFate
  <2>3. ASSUME NEW i \in 1..(nextId' - 1)
        PROVE  \E e \in Entries' : e.id = i /\ e.epoch = epoch'
    <3>1. CASE i = nextId
      BY <3>1, <1>1, <1>4, <1>6
    <3>2. CASE i # nextId
      <4>1. i \in 1..(nextId - 1)
        BY <3>2, <1>2, <1>4
      <4>. QED
        BY <4>1, <1>4, <1>6 DEF QueueInv, EntriesAreKept
    <3>. QED
      BY <3>1, <3>2
  <2>. QED
    BY <2>2, <2>3 DEF EntriesAreKept
<1>10. CallsQueueOnce'
  <2>1. PICK d : Advance(c, d) /\ d.call = c.call /\ d.pc = "queue"
    BY CallsTyped, QueuedCallType DEF Enqueue
  <2>2. calls' = (calls \ {c}) \cup {d}
    BY <2>1 DEF Advance
  <2>3. \A a \in calls \ {c} : a.call # c.call
    BY DEF QueueInv, CallsQueueOnce
  <2>. QED
    BY <1>1, <1>2, <1>4, <1>6, <2>1, <2>2, <2>3 DEF QueueInv, CallsQueueOnce
<1>11. DecidedById'
  BY <1>4 DEF QueueInv, DecidedById
<1>. QED
  BY <1>8, <1>9, <1>10, <1>11 DEF QueueInv

LEMMA ProcessMessageInv ==
  ASSUME TypeOK, TypeOK', QueueInv, ProcessMessage
  PROVE  QueueInv'
<1>0. /\ nextCall \in Nat
      /\ \A c \in calls : c.call \in Nat
  BY CallsTyped, AutoResponseAssumption DEF TypeOK
<1>1. ASSUME NEW m \in Messages, SkipMessage(m)
      PROVE  QueueInv'
  BY <1>0, <1>1, CallStep DEF SkipMessage, queue, QueueInv, CallsQueueOnce
<1>2. ASSUME NEW m \in Messages, ReceiveMessage(m)
      PROVE  QueueInv'
  <2>1. PICK n : n.call = nextCall /\ calls' = calls \cup {n}
    BY <1>2 DEF ReceiveMessage, NewCall
  <2>2. \A c, d \in calls' : c.call = d.call => c = d
    BY <1>0, <2>1 DEF QueueInv, CallsQueueOnce
  <2>3. nextCall' = nextCall + 1 /\ UNCHANGED queue
    BY <1>2 DEF ReceiveMessage, queue
  <2>. QED
    BY <1>0, <2>1, <2>2, <2>3, CallStep
<1>3. ASSUME NEW c \in calls, NEW class \in Classifications, Classified(c, class)
      PROVE  QueueInv'
  BY <1>3, CallsTyped, ClassifiedCallType, CallAdvances DEF Classified, queue
<1>4. ASSUME NEW c \in calls, NEW decision, PolicyAnswers(c, decision)
      PROVE  QueueInv'
  BY <1>4, CallsTyped, MapPolicyDecisionType, AnsweredCallType, CallAdvances
  DEF PolicyAnswers, queue
<1>5. ASSUME NEW c \in calls,
             RespondAtOnce(c) \/ BlockResponse(c) \/ EnqueueLogged(c) \/ CallFails(c)
      PROVE  QueueInv'
  <2>1. calls' = calls \ {c} /\ UNCHANGED <<queue, nextCall>>
    BY <1>5 DEF RespondAtOnce, BlockResponse, EnqueueLogged, CallFails, queue
  <2>. QED
    BY <2>1, CallEnds
<1>. QED
  BY <1>1, <1>2, <1>3, <1>4, <1>5, EnqueueInv DEF ProcessMessage

\* When the entries and what is seen of them stay as they are, only the places
\* of the entries matter.
LEMMA SameEntries ==
  ASSUME TypeOK, QueueInv, Entries' = Entries, Seen' = Seen, pending' \subseteq pending,
         UNCHANGED <<nextId, epoch, calls, nextCall>>
  PROVE  /\ IdsAreUnique' /\ CallsQueueOnce'
         /\ \A i \in 1..(nextId' - 1) : \E e \in Entries' : e.id = i /\ e.epoch = epoch'
  BY DEF QueueInv, IdsAreUnique, CallsQueueOnce, EntriesAreKept

LEMMA ListPendingInv ==
  ASSUME TypeOK, QueueInv, NEW e \in pending, ListPending(e)
  PROVE  QueueInv'
<1>1. e \in Entries
  BY SeenEntries
<1>2. Fates' = Fates /\ Entries' = Entries
  BY DEF ListPending, Fates, Entries, PendingFate, DecidingFate, DecidedFate
<1>3. Seen' = Seen
  BY <1>1, <1>2 DEF Seen, ListPending
<1>4. DecidedById'
  BY DEF ListPending, QueueInv, DecidedById
<1>. QED
  BY <1>2, <1>3, <1>4, SameEntries DEF ListPending, QueueInv, EntriesAreKept

\* approve and reject take the entry out of pending before anything else can.
LEMMA DecideInv ==
  ASSUME TypeOK, QueueInv, NEW v \in views, NEW e \in pending,
         NEW action \in {"approved", "rejected"}, Decide(v, e, action)
  PROVE  QueueInv'
<1>1. PICK d : /\ d = [entry |-> e, view |-> v, action |-> action]
               /\ deciding' = deciding \cup {d}
               /\ pending' = pending \ {e}
               /\ UNCHANGED <<decided, views, nextId, epoch, calls, nextCall>>
  BY DEF Decide
<1>2. d.entry = e /\ d.view = v /\ e.id = v.id
  BY <1>1 DEF Decide
<1>3. PendingFate(e) \in Fates /\ PendingFate(e).entry = e
  BY DEF Fates, PendingFate
<1>4. Fates' = (Fates \ {PendingFate(e)}) \cup {DecidingFate(d)}
  <2>1. \A f \in pending : PendingFate(f) = PendingFate(e) => f = e
    BY DEF PendingFate
  <2>2. \A f \in deciding : DecidingFate(f) # PendingFate(e)
    BY DEF PendingFate, DecidingFate
  <2>3. \A f \in decided : DecidedFate(f) # PendingFate(e)
    BY DEF PendingFate, DecidedFate
  <2>. QED
    BY <1>1, <2>1, <2>2, <2>3 DEF Fates
<1>5. DecidingFate(d).entry = e
  BY <1>2 DEF DecidingFate
<1>6. Entries' = Entries
  BY <1>3, <1>4, <1>5 DEF Entries
<1>7. Seen' = Seen
  BY <1>1, <1>6 DEF Seen
<1>8. \A f, g \in Fates' : f.entry = g.entry => f = g
  BY <1>3, <1>4, <1>5 DEF QueueInv, EntriesAreKept
<1>9. DecidedById'
  BY <1>1, <1>2 DEF QueueInv, DecidedById
<1>. QED
  BY <1>1, <1>6, <1>7, <1>8, <1>9, SameEntries DEF QueueInv, EntriesAreKept

\* A decision ends once.
LEMMA SettleInv ==
  ASSUME TypeOK, QueueInv, NEW d \in deciding, NEW fate, Settle(d, fate),
         UNCHANGED <<pending, views, nextId, epoch, calls, nextCall>>
  PROVE  QueueInv'
<1>1. PICK r : /\ r = [entry |-> d.entry, view |-> d.view, fate |-> fate]
               /\ decided' = decided \cup {r}
               /\ deciding' = deciding \ {d}
  BY DEF Settle
<1>2. r.entry = d.entry /\ r.view = d.view
  BY <1>1
<1>3. DecidingFate(d) \in Fates /\ DecidingFate(d).entry = d.entry
  BY DEF Fates, DecidingFate
<1>4. DecidedFate(r).entry = d.entry
  BY <1>2 DEF DecidedFate
<1>5. Fates' = (Fates \ {DecidingFate(d)}) \cup {DecidedFate(r)}
  <2>1. \A f \in deciding : DecidingFate(f) = DecidingFate(d) => f = d
    BY DEF DecidingFate, TypeOK, Decision
  <2>2. \A f \in pending : PendingFate(f) # DecidingFate(d)
    BY DEF PendingFate, DecidingFate
  <2>3. \A f \in decided : DecidedFate(f) # DecidingFate(d)
    BY DEF DecidingFate, DecidedFate
  <2>. QED
    BY <1>1, <2>1, <2>2, <2>3 DEF Fates
<1>6. Entries' = Entries
  BY <1>3, <1>4, <1>5 DEF Entries
<1>7. Seen' = Seen
  BY <1>6 DEF Seen
<1>8. \A f, g \in Fates' : f.entry = g.entry => f = g
  BY <1>3, <1>4, <1>5 DEF QueueInv, EntriesAreKept
<1>9. DecidedById'
  BY <1>1, <1>2 DEF QueueInv, DecidedById
<1>. QED
  BY <1>6, <1>7, <1>8, <1>9, SameEntries DEF QueueInv, EntriesAreKept

\* After a restart no entry of the new process is known.
LEMMA RestartInv ==
  ASSUME TypeOK, QueueInv, Restart
  PROVE  QueueInv'
<1>1. /\ epoch \in Nat /\ epoch' = epoch + 1 /\ nextId' = 1
      /\ pending' = {} /\ deciding' = {} /\ calls' = {}
      /\ UNCHANGED <<decided, views, nextCall>>
  BY DEF Restart, TypeOK
<1>2. Fates' \subseteq Fates
  BY <1>1 DEF Fates, PendingFate, DecidingFate, DecidedFate
<1>3. Entries' \subseteq Entries /\ Seen' \subseteq Seen
  BY <1>1, <1>2 DEF Entries, Seen
<1>4. \A e \in Seen : e.epoch \in Nat
  BY EntriesTyped DEF PendingResponse
<1>5. IdsAreUnique'
  BY <1>1, <1>3, <1>4 DEF QueueInv, IdsAreUnique
<1>6. EntriesAreKept'
  BY <1>1, <1>2 DEF QueueInv, EntriesAreKept
<1>7. CallsQueueOnce'
  BY <1>1, <1>3 DEF QueueInv, CallsQueueOnce
<1>8. DecidedById'
  BY <1>1 DEF QueueInv, DecidedById
<1>. QED
  BY <1>5, <1>6, <1>7, <1>8 DEF QueueInv

LEMMA QueueInit == Init => QueueInv
<1>1. Init => Fates = {} /\ Entries = {} /\ Seen = {}
  BY DEF Init, Fates, Entries, Seen
<1>. QED
  BY <1>1 DEF Init, QueueInv, IdsAreUnique, EntriesAreKept, CallsQueueOnce, DecidedById

LEMMA QueuePreserved ==
  ASSUME TypeOK, TypeOK', QueueInv, [Next]_vars
  PROVE  QueueInv'
<1>1. ASSUME NEW s \in Scopes, UpdateScopeConfig(s)
      PROVE  QueueInv'
  <2>1. UNCHANGED <<queue, calls, nextCall>> /\ nextCall \in Nat
    BY <1>1, AutoResponseAssumption DEF UpdateScopeConfig, queue, TypeOK
  <2>. QED
    BY <2>1, CallStep DEF QueueInv, CallsQueueOnce
<1>2. CASE UNCHANGED vars
  <2>1. UNCHANGED <<queue, calls, nextCall>> /\ nextCall \in Nat
    BY <1>2, AutoResponseAssumption DEF vars, queue, TypeOK
  <2>. QED
    BY <2>1, CallStep DEF QueueInv, CallsQueueOnce
<1>3. CASE Review
  <2>1. ASSUME NEW d \in deciding, DecisionLogged(d) \/ DecisionFails(d)
        PROVE  QueueInv'
    BY <2>1, SettleInv DEF DecisionLogged, DecisionFails
  <2>. QED
    BY <1>3, <2>1, ListPendingInv, DecideInv DEF Review
<1>. QED
  BY <1>1, <1>2, <1>3, ProcessMessageInv, RestartInv DEF Next

\* Every reachable state is well typed and has the entries of the approval queue
\* where the ids say.
THEOREM QueueInvariance == Spec => [](TypeOK /\ QueueInv)
<1>1. Init => TypeOK /\ QueueInv
  BY TypeInit, QueueInit
<1>2. TypeOK /\ QueueInv /\ [Next]_vars => (TypeOK /\ QueueInv)'
  BY TypePreserved, QueuePreserved
<1>. QED
  BY <1>1, <1>2, PTL DEF Spec

\* The approval queue: an entry has one fate, however the calls overlap.
THEOREM OneFate == Spec => []EntryHasOneFate
<1>1. ASSUME TypeOK, QueueInv
      PROVE  EntryHasOneFate
  <2>1. \A f \in Fates : f.entry \in Seen
    BY DEF Entries, Seen
  <2>2. \A f, g \in Fates : f.entry.call = g.entry.call => f = g
    BY <1>1, <2>1 DEF QueueInv, IdsAreUnique, EntriesAreKept
  <2>3. \A i \in 1..(nextId - 1) : \E f \in Fates :
          f.entry.id = i /\ f.entry.epoch = epoch
    BY <1>1 DEF QueueInv, EntriesAreKept, Entries
  <2>. QED
    BY <2>2, <2>3 DEF EntryHasOneFate
<1>. QED
  BY <1>1, QueueInvariance, PTL

\* The approval queue: within one process, what is decided is what was shown.
THEOREM ShownIsDecided == Spec => []DecidedAsShown
<1>1. ASSUME TypeOK, QueueInv
      PROVE  DecidedAsShown
  <2>1. \A d \in decided \cup deciding : d.entry \in Seen /\ d.view \in Seen
    BY <1>1, SeenEntries DEF QueueInv, DecidedById
  <2>. QED
    BY <1>1, <2>1 DEF QueueInv, IdsAreUnique, DecidedById, DecidedAsShown
<1>. QED
  BY <1>1, QueueInvariance, PTL

(***************************************************************************)
(* What is released is audited.                                            *)
(***************************************************************************)
LEMMA AuditLogged ==
  ASSUME NEW c, NEW event, AuditLog(c, event)
  PROVE  audit \subseteq audit' /\ Logged(c.call, event)'
  BY DEF AuditLog, Logged

\* The one result that Finish adds.
LEMMA Finished ==
  ASSUME NEW c, NEW action, Finish(c, action)
  PROVE  \A r \in results' \ results :
           r.call = c.call /\ r.msg = c.msg /\ r.action = action
  BY DEF Finish

\* The audit log only grows: what is not new is audited as before.
LEMMA StillAudited ==
  ASSUME ReleaseInv, audit \subseteq audit',
         \A e \in pending' \ pending : Logged(e.call, "generated")',
         \A d \in deciding' : d \in deciding \/ d.entry \in pending,
         \A r \in results' \ results :
           /\ r.action \in {"sent", "notified", "blocked"} => Logged(r.call, "generated")'
           /\ r.action = "queued" => Logged(r.call, "pending_approval")',
         \A d \in decided' \ decided : d.fate # "lost" =>
           Logged(d.entry.call, "generated")' /\ Logged(d.entry.call, d.fate)'
  PROVE  ReleaseInv'
<1>1. \A call, event : Logged(call, event) => Logged(call, event)'
  BY DEF Logged
<1>2. \A e \in pending' : Logged(e.call, "generated")'
  BY <1>1 DEF ReleaseInv
<1>3. \A d \in deciding' : Logged(d.entry.call, "generated")'
  BY <1>1 DEF ReleaseInv
<1>4. ReleasedIsAudited'
  BY <1>1 DEF ReleaseInv, ReleasedIsAudited
<1>. QED
  BY <1>2, <1>3, <1>4 DEF ReleaseInv

LEMMA ProcessMessageReleases ==
  ASSUME ReleaseInv, ProcessMessage
  PROVE  ReleaseInv'
<1>1. ASSUME NEW m \in Messages, SkipMessage(m)
      PROVE  ReleaseInv'
  <2>1. \A r \in results' \ results : r.action = "skipped"
    BY <1>1, Finished DEF SkipMessage
  <2>. QED
    BY <1>1, <2>1, StillAudited DEF SkipMessage
<1>2. ASSUME NEW m \in Messages, ReceiveMessage(m)
      PROVE  ReleaseInv'
  BY <1>2, StillAudited DEF ReceiveMessage
<1>3. ASSUME NEW c \in calls, NEW class, Classified(c, class)
      PROVE  ReleaseInv'
  BY <1>3, AuditLogged, StillAudited DEF Classified
<1>4. ASSUME NEW c \in calls, NEW decision, PolicyAnswers(c, decision)
      PROVE  ReleaseInv'
  BY <1>4, StillAudited DEF PolicyAnswers
<1>5. ASSUME NEW c \in calls, RespondAtOnce(c) \/ BlockResponse(c)
      PROVE  ReleaseInv'
  <2>1. PICK action \in {"sent", "notified", "blocked"} : Finish(c, action)
    BY <1>5 DEF RespondAtOnce, BlockResponse
  <2>2. /\ AuditLog(c, "generated")
        /\ UNCHANGED <<pending, deciding, decided>>
    BY <1>5 DEF RespondAtOnce, BlockResponse
  <2>3. audit \subseteq audit' /\ Logged(c.call, "generated")'
    BY <2>2, AuditLogged
  <2>4. \A r \in results' \ results : r.call = c.call /\ r.action # "queued"
    BY <2>1, Finished
  <2>. QED
    BY <2>2, <2>3, <2>4, StillAudited
<1>6. ASSUME NEW c \in calls, Enqueue(c)
      PROVE  ReleaseInv'
  <2>1. /\ AuditLog(c, "generated")
        /\ \A e \in pending' \ pending : e.call = c.call
        /\ UNCHANGED <<results, deciding, decided>>
    BY <1>6 DEF Enqueue, NewEntry
  <2>2. audit \subseteq audit' /\ Logged(c.call, "generated")'
    BY <2>1, AuditLogged
  <2>. QED
    BY <2>1, <2>2, StillAudited
<1>7. ASSUME NEW c \in calls, EnqueueLogged(c)
      PROVE  ReleaseInv'
  <2>1. /\ AuditLog(c, "pending_approval") /\ Finish(c, "queued")
        /\ UNCHANGED <<pending, deciding, decided>>
    BY <1>7 DEF EnqueueLogged
  <2>2. audit \subseteq audit' /\ Logged(c.call, "pending_approval")'
    BY <2>1, AuditLogged
  <2>3. \A r \in results' \ results : r.call = c.call /\ r.action = "queued"
    BY <2>1, Finished
  <2>. QED
    BY <2>1, <2>2, <2>3, StillAudited
<1>8. ASSUME NEW c \in calls, CallFails(c)
      PROVE  ReleaseInv'
  <2>1. \A r \in results' \ results : r.action = "failed"
    BY <1>8, Finished DEF CallFails
  <2>. QED
    BY <1>8, <2>1, StillAudited DEF CallFails
<1>. QED
  BY <1>1, <1>2, <1>3, <1>4, <1>5, <1>6, <1>7, <1>8 DEF ProcessMessage

LEMMA ReviewReleases ==
  ASSUME TypeOK, ReleaseInv, Review
  PROVE  ReleaseInv'
<1>1. ASSUME NEW e \in pending, ListPending(e)
      PROVE  ReleaseInv'
  BY <1>1, StillAudited DEF ListPending
<1>2. ASSUME NEW v \in views, NEW e \in pending, NEW action, Decide(v, e, action)
      PROVE  ReleaseInv'
  <2>1. \A d \in deciding' : d \in deciding \/ d.entry = e
    BY <1>2 DEF Decide
  <2>. QED
    BY <1>2, <2>1, StillAudited DEF Decide
<1>3. ASSUME NEW d \in deciding, DecisionLogged(d)
      PROVE  ReleaseInv'
  <2>1. /\ \A r \in decided' \ decided : r.entry = d.entry /\ r.fate = d.action
        /\ deciding' \subseteq deciding
        /\ UNCHANGED <<results, pending>>
    BY <1>3 DEF DecisionLogged, Settle
  <2>2. audit \subseteq audit' /\ Logged(d.entry.call, d.action)'
    BY <1>3, AuditLogged DEF DecisionLogged
  <2>3. Logged(d.entry.call, "generated")'
    BY <2>2 DEF ReleaseInv, Logged
  <2>. QED
    BY <2>1, <2>2, <2>3, StillAudited
<1>4. ASSUME NEW d \in deciding, DecisionFails(d)
      PROVE  ReleaseInv'
  <2>1. \A r \in decided' \ decided : r.fate = "lost"
    BY <1>4 DEF DecisionFails, Settle
  <2>. QED
    BY <1>4, <2>1, StillAudited DEF DecisionFails, Settle
<1>. QED
  BY <1>1, <1>2, <1>3, <1>4 DEF Review

\* processMessage and the queue: what was sent, queued or decided is in the audit
\* log, however the answers of audit.log, the users and the restarts interleave.
THEOREM ReleasedCorrect == Spec => []ReleasedIsAudited
<1>1. Init => ReleaseInv
  BY DEF Init, ReleaseInv, ReleasedIsAudited
<1>2. TypeOK /\ ReleaseInv /\ [Next]_vars => ReleaseInv'
  <2>. SUFFICES ASSUME TypeOK, ReleaseInv, [Next]_vars PROVE ReleaseInv'
    OBVIOUS
  <2>1. CASE Restart \/ (\E s \in Scopes : UpdateScopeConfig(s)) \/ UNCHANGED vars
    BY <2>1, StillAudited DEF Restart, UpdateScopeConfig, vars
  <2>. QED
    BY <2>1, ProcessMessageReleases, ReviewReleases DEF Next
<1>3. ReleaseInv => ReleasedIsAudited
  BY DEF ReleaseInv
<1>. QED
  BY <1>1, <1>2, <1>3, AutoResponseTypeCorrect, PTL DEF Spec

\* A configuration that changes while a message is processed wins over the one it
\* came in under: what leaves unapproved has the consent of the rule in force.
THEOREM RuleWins == Spec => RuleInForceWins
<1>. DEFINE InForce(r) ==
       LET contact == scope.contactOverrides[Sender[r.msg]]
           channel == scope.channelOverrides[Channel[r.msg]]
       IN  IF contact # Unset THEN Permits(contact)
                              ELSE channel # Unset => Permits(channel)
<1>1. ASSUME NEW c, ResolveAutonomyLevel(scope, c) \in {"autonomous", "notify"},
             NEW r, r.msg = c.msg
      PROVE  InForce(r)
  BY <1>1 DEF ResolveAutonomyLevel, Permits
<1>2. [Next]_vars =>
        [\A r \in results' \ results : r.action \in {"sent", "notified"} => InForce(r)]_vars
  <2>. SUFFICES ASSUME Next, NEW r \in results' \ results, r.action \in {"sent", "notified"}
                PROVE  InForce(r)
    OBVIOUS
  <2>1. results' # results
    OBVIOUS
  <2>2. CASE \E m \in Messages : SkipMessage(m)
    <3>1. r.action = "skipped"
      BY <2>2, Finished DEF SkipMessage
    <3>. QED
      BY <3>1
  <2>3. ASSUME NEW c \in calls, RespondAtOnce(c)
        PROVE  InForce(r)
    <3>1. r.msg = c.msg
      BY <2>3, Finished DEF RespondAtOnce
    <3>. QED
      BY <1>1, <2>3, <3>1 DEF RespondAtOnce
  <2>4. ASSUME NEW c \in calls, BlockResponse(c) \/ EnqueueLogged(c) \/ CallFails(c)
        PROVE  FALSE
    BY <2>4, Finished DEF BlockResponse, EnqueueLogged, CallFails
  <2>. QED
    BY <2>1, <2>2, <2>3, <2>4 DEF Next, ProcessMessage, ReceiveMessage, Classified,
       PolicyAnswers, Enqueue, Review, ListPending, Decide, DecisionLogged, DecisionFails,
       UpdateScopeConfig, Restart
<1>. QED
  BY <1>2, PTL DEF Spec, RuleInForceWins
=============================================================================
