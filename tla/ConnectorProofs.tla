--------------------------- MODULE ConnectorProofs ---------------------------
(***************************************************************************)
(* Theorems about ConnectorSystem: types, what callers are told, what a    *)
(* logged merge means, and which items leave for an external model.        *)
(***************************************************************************)
EXTENDS ConnectorSystem, FiniteSetTheorems, TLAPS
-----------------------------------------------------------------------------
(* The inductive invariant.  That of an actor speaks of its call c, the    *)
(* number n of the try, the effects E, the audited accesses A and the      *)
(* reports R of the actor.                                                 *)

Of(S, a) == {r \in S : r.actor = a}

\* An effect, an audited access or a report of the n-th try, the call c.
Is(r, n, c) == r.try = n /\ r.tool = c.tool /\ r.ticket = c.ticket

Running(c) == c.at \notin {"idle", "done"}
Writes(c) == c.tool \notin ReadTools

\* The write of the call has been made, and no error has been told since.
Made(c) ==
  /\ Writes(c)
  /\ \/ c.at = "audit" /\ c.decision # "deny"
     \/ c.at = "done" /\ c.outcome = "success"

\* A call has no report before it is done, and effects and an entry in the audit log
\* when the code says so.
CallInv(c, n, E, A, R) ==
  /\ c \in Call
  /\ c.at # "idle" => c.tool \in Tools
  /\ c.at = "hook" => c.ticket = NoTicket
  /\ c.at = "provider" => c.decision # "deny"
  /\ Writes(c) => c.items = {} /\ c.at # "classify"
  /\ Running(c) => \A r \in R : ~Is(r, n, c)
  /\ Running(c) /\ ~Made(c) => \A e \in E : ~Is(e, n, c)
  /\ Made(c) => \E e \in E : Is(e, n, c)
  /\ Writes(c) /\ c.at = "done" /\ c.outcome \in {"success", "denied"} =>
       \E r \in A : Is(r, n, c) /\ r.outcome = c.outcome

\* What callers were told.
TruthInv(E, A, R) ==
  \A r \in R :
    /\ r.outcome = "success" =>
         /\ \E e \in A : /\ SameCall(e, r) /\ e.items = r.items /\ e.outcome = "success"
                         /\ \A i \in r.items : i.level <= e.level
         /\ r.tool \notin ReadTools => \E e \in E : SameCall(e, r)
    /\ r.outcome \notin {"success", "error"} => ~\E e \in E : SameCall(e, r)

\* What an agent made more than once it was told an error about, except for the call
\* whose write has been made and not been followed by an error.
News(E) == {e \in E : e.new}
Errors(R) == {r \in R : r.outcome = "error"}

CountInv(c, n, E, R) ==
  /\ IsFiniteSet(News(E)) /\ IsFiniteSet(Errors(R))
  /\ Cardinality(News(E)) <= Cardinality(Errors(R)) + (IF Made(c) THEN 1 ELSE 0)
  /\ \A r \in E \cup R : r.try \in 0 .. n

ActorInv(a, c, n, E, A, R) ==
  /\ \A r \in E \cup A \cup R : r.actor = a
  /\ CallInv(c, n, E, A, R)
  /\ TruthInv(E, A, R)
  /\ a \in Agents => CountInv(c, n, E, R)
  /\ a \in Polls => E = {} /\ R = {} /\ ~(Writes(c) /\ c.tool \in Tools)

Commented(A, t) == \E r \in A : r.tool = "jira_comment" /\ r.ticket = t

CommentMade(A, t) ==
  \E r \in A : r.tool = "jira_comment" /\ r.ticket = t /\ r.outcome = "success"

\* A handler s has commented every ticket before todo, and nothing has been done
\* about those that are left but the comment or the transition under way.
HandlerInv(s, c, E, A, R) ==
  /\ c.at = "idle" => s = Idle /\ E = {} /\ R = {}
  /\ c.tool = "jira_transition" => CommentMade(A, c.ticket)
  /\ \A e \in E : e.tool = "jira_transition" => CommentMade(A, e.ticket)
  /\ s # Idle =>
       /\ s \in Handler /\ s.todo # <<>> /\ c.at # "idle"
       /\ c.ticket = s.todo[1]
       /\ c.tool = IF s.now = "transition" THEN "jira_transition" ELSE "jira_comment"
       /\ s.now = "policy" => c.at = "done" /\ CommentMade(A, s.todo[1])
       /\ \A i, j \in DOMAIN s.todo : s.todo[i] = s.todo[j] => i = j
       /\ \A i \in DOMAIN s.keys :
            Commented(A, s.keys[i]) \/ \E j \in DOMAIN s.todo : s.todo[j] = s.keys[i]
       /\ \A r \in E \cup R :
            /\ \A j \in DOMAIN s.todo : r.ticket = s.todo[j] => j = 1
            /\ s.now # "transition" /\ r.ticket = s.todo[1] => r.tool = "jira_comment"

ActivityInv(acts, log) ==
  \A e \in acts :
    /\ e.type \in ActivityTypes
    /\ e.type = "pr_merged" => \A i \in DOMAIN e.keys : Commented(Of(log, e.by), e.keys[i])

\* The polls of a service that are the ones of a start, which may set an interval yet.
Starting(polls, t) == {p \in Polls : polls[p] # NoPoll /\ polls[p].type = t /\ polls[p].starting}

ServiceInv(t, s, polls) ==
  /\ s \in Poller /\ s.starts <= MaxStarts
  /\ s.timer => s.intervals > 0
  /\ IsFiniteSet(Starting(polls, t))
  /\ s.intervals + Cardinality(Starting(polls, t)) <= s.starts

PollsInv ==
  /\ poller \in [PollTypes -> Poller]
  /\ \A t \in PollTypes : ServiceInv(t, poller[t], poll)
  /\ DOMAIN poll = Polls
  /\ \A p \in Polls : poll[p] = NoPoll \/
       (poll[p] \in Poll /\ poll[p].type = ServiceOf[p]
        /\ (poll[p].at = "starting" => poll[p].starting))

WorldInv ==
  /\ doc \in Documents /\ changes \in 0 .. MaxDocuments /\ revoked \subseteq Types
  /\ failures \in 0 .. MaxFailures /\ disabled \subseteq Objects
  /\ tries \in [Agents -> 0 .. MaxTries]
  /\ delivered \in [Deliveries -> 0 .. MaxDeliveries]
  /\ modelCalls \subseteq [items : SUBSET ReadItem, model : {"external", "self_hosted"}]
  /\ effects \subseteq Effect /\ audit \subseteq Record /\ reports \subseteq Record

ActorsInv ==
  /\ call \in [Actors -> Call] /\ DOMAIN handler = Handlers
  /\ \A a \in Actors :
       ActorInv(a, call[a], TryOf(a), Of(effects, a), Of(audit, a), Of(reports, a))
  /\ \A h \in Handlers :
       HandlerInv(handler[h], call[h], Of(effects, h), Of(audit, h), Of(reports, h))
  /\ ActivityInv(activity, audit)

ConnectorInv == WorldInv /\ ActorsInv /\ PollsInv
-----------------------------------------------------------------------------
(* Tools, levels and keys.                                                 *)

LEMMA Bounds == MaxTries \in Nat /\ MaxDocuments \in Nat /\ MaxFailures \in Nat
                /\ MaxDeliveries \in Nat /\ MaxStarts \in Nat
  BY ConnectorAssumption, TrackingAssumption, PollerAssumption

LEMMA ActorsApart ==
  /\ \A a \in Agents : a \notin Handlers /\ a \notin Polls
  /\ \A h \in Handlers : h \notin Polls
  BY ConnectorAssumption

LEMMA ToolFacts ==
  /\ {"jira_comment", "jira_transition"} \subseteq Tools \ ReadTools
  /\ \A t \in PollTypes : PollTool(t) \in Tools \cap ReadTools
  /\ "none" \notin ReadTools
  /\ ReadTools \subseteq Tools
<1>1. /\ "jira" \in Types /\ "gmail" \in Types /\ "gcal" \in Types
      /\ "gdrive" \in Types /\ "github" \in Types
  BY DEF Types
<1>2. /\ {"jira_comment", "jira_transition", "jira_read", "jira_search"} \subseteq ConnectorTools["jira"]
      /\ {"email_search", "email_read"} \subseteq ConnectorTools["gmail"]
      /\ {"calendar_read", "calendar_search"} \subseteq ConnectorTools["gcal"]
      /\ {"github_pr_read", "github_issue_read"} \subseteq ConnectorTools["github"]
      /\ {"gdrive_read", "gdrive_search"} \subseteq ConnectorTools["gdrive"]
  BY DEF ConnectorTools
<1>3. \A t \in Types : ConnectorTools[t] \subseteq Tools
  BY DEF Tools
<1>4. {"jira_comment", "jira_transition"} \subseteq Tools \ ReadTools
  BY <1>1, <1>2, <1>3 DEF ReadTools
<1>5. ReadTools \subseteq Tools
  BY <1>1, <1>2, <1>3 DEF ReadTools
<1>6. \A t \in PollTypes : PollTool(t) \in ReadTools
  BY DEF PollTypes, PollTool, ReadTools
<1>7. "none" \notin ReadTools
  BY DEF ReadTools
<1>. QED
  BY <1>4, <1>5, <1>6, <1>7

LEMMA TypeOfTool == ASSUME NEW tool \in Tools PROVE ConnectorType(tool) \in Types
<1>1. \E t \in Types : tool \in ConnectorTools[t]
  BY DEF Tools
<1>. QED
  BY <1>1 DEF ConnectorType

\* The level of some items is the highest of theirs.
LEMMA HighestLevelIs ==
  ASSUME NEW items \in SUBSET ReadItem
  PROVE  /\ HighestLevel(items) \in Levels
         /\ \A i \in items : i.level <= HighestLevel(items)
<1>1. CASE items = {}
  BY <1>1 DEF HighestLevel, Levels
<1>2. CASE items # {}
  <2>1. \A i \in items : i.level \in 0 .. 3
    BY DEF ReadItem, Levels
  <2>2. \E i \in items : \A j \in items : j.level <= i.level
    <3>1. \A l \in 0 .. 3 : l = 0 \/ l = 1 \/ l = 2 \/ l = 3
      OBVIOUS
    <3>2. CASE \E i \in items : i.level = 3
      BY <2>1, <3>2
    <3>3. CASE (\E i \in items : i.level = 2) /\ \A i \in items : i.level # 3
      BY <2>1, <3>3
    <3>4. CASE (\E i \in items : i.level = 1) /\ \A i \in items : i.level \notin {2, 3}
      BY <2>1, <3>4
    <3>5. CASE \A i \in items : i.level = 0
      BY <1>2, <3>5
    <3>. QED
      BY <2>1, <3>1, <3>2, <3>3, <3>4, <3>5
  <2>3. PICK highest \in items : /\ HighestLevel(items) = highest.level
                                 /\ \A j \in items : j.level <= highest.level
    <3>1. PICK highest :
            highest = CHOOSE i \in items : \A j \in items : j.level <= i.level
      OBVIOUS
    <3>2. highest \in items /\ \A j \in items : j.level <= highest.level
      BY <2>2, <3>1
    <3>3. HighestLevel(items) = highest.level
      BY <1>2, <3>1 DEF HighestLevel
    <3>. QED
      BY <3>2, <3>3
  <2>. QED
    BY <2>1, <2>3 DEF Levels
<1>. QED
  BY <1>1, <1>2

\* The keys of a delivery are tickets, each of them once.
LEMMA DistinctIs ==
  ASSUME NEW s \in Seq(Tickets)
  PROVE  /\ Distinct(s) \in Seq(Tickets)
         /\ \A i, j \in DOMAIN Distinct(s) : Distinct(s)[i] = Distinct(s)[j] => i = j
<1>. DEFINE first == {i \in DOMAIN s : \A j \in 1..(i - 1) : s[j] # s[i]}
            rank == [i \in first |-> Cardinality({j \in first : j <= i})]
            place == [n \in 1..Cardinality(first) |-> CHOOSE i \in first : rank[i] = n]
<1>1. first = {i \in DOMAIN s : \A j \in 1..(i - 1) : s[j] # s[i]}
  OBVIOUS
<1>2. rank = [i \in first |-> Cardinality({j \in first : j <= i})]
  OBVIOUS
<1>3. place = [n \in 1..Cardinality(first) |-> CHOOSE i \in first : rank[i] = n]
  OBVIOUS
<1>4. Distinct(s) = [n \in 1..Cardinality(first) |-> s[place[n]]]
  BY Zenon DEF Distinct
<1>. HIDE DEF first, rank, place
<1>5. /\ first \subseteq 1 .. Len(s) /\ IsFiniteSet(first)
      /\ Cardinality(first) \in Nat
  <2>1. first \subseteq 1 .. Len(s) /\ Len(s) \in Nat
    BY <1>1
  <2>2. IsFiniteSet(1 .. Len(s))
    BY <2>1, FS_Interval
  <2>. QED
    BY <2>1, <2>2, FS_Subset, FS_CardinalityType
<1>6. rank \in Injection(first, 1 .. Cardinality(first))
  <2>. DEFINE Below(i) == {j \in first : j <= i}
  <2>1. \A i \in first : /\ IsFiniteSet(Below(i)) /\ Cardinality(Below(i)) \in Nat
                         /\ Cardinality(Below(i)) <= Cardinality(first)
    <3>1. \A i \in first : Below(i) \in SUBSET first
      OBVIOUS
    <3>. QED
      BY <1>5, <3>1, FS_Subset, FS_CardinalityType
  <2>2. \A i \in first : rank[i] = Cardinality(Below(i))
    BY <1>2
  <2>3. ASSUME NEW i \in first PROVE rank[i] \in 1 .. Cardinality(first)
    <3>1. {i} \in SUBSET Below(i)
      BY <1>5
    <3>2. Cardinality({i}) = 1
      BY FS_Singleton
    <3>3. Cardinality({i}) <= Cardinality(Below(i))
      BY <2>1, <3>1, FS_Subset
    <3>. HIDE DEF Below
    <3>. QED
      BY <1>5, <2>1, <2>2, <3>2, <3>3
  <2>4. ASSUME NEW i \in first, NEW j \in first, i < j PROVE rank[i] # rank[j]
    <3>1. Below(i) \in SUBSET Below(j) /\ Below(i) # Below(j)
      <4>1. \A k \in first : k \in Nat
        BY <1>5
      <4>2. \A k \in Below(i) : k \in Below(j)
        BY <2>4, <4>1
      <4>3. j \in Below(j) /\ j \notin Below(i)
        BY <2>4, <4>1
      <4>. QED
        BY <4>2, <4>3, Zenon
    <3>2. Cardinality(Below(i)) # Cardinality(Below(j))
      BY <2>1, <3>1, FS_Subset
    <3>. QED
      BY <2>2, <3>2
  <2>5. ASSUME NEW i \in first, NEW j \in first, rank[i] = rank[j] PROVE i = j
    BY <1>5, <2>4, <2>5
  <2>6. rank \in [first -> 1 .. Cardinality(first)]
    BY <1>2, <2>3
  <2>. QED
    BY <2>5, <2>6 DEF Injection, IsInjective
<1>7. \A n \in 1 .. Cardinality(first) : \E i \in first : rank[i] = n
  <2>1. /\ IsFiniteSet(1 .. Cardinality(first))
        /\ Cardinality(1 .. Cardinality(first)) = Cardinality(first)
    BY <1>5, FS_Interval
  <2>2. rank \in Surjection(first, 1 .. Cardinality(first))
    BY <1>6, <2>1, FS_Injection
  <2>. QED
    BY <2>2 DEF Surjection
<1>8. \A n \in 1 .. Cardinality(first) : place[n] \in first /\ rank[place[n]] = n
  BY <1>3, <1>7
<1>9. \A i \in first : s[i] \in Tickets
  BY <1>5
<1>10. Distinct(s) \in Seq(Tickets)
  <2>1. PICK m : m = Cardinality(first)
    OBVIOUS
  <2>2. m \in Nat /\ \A n \in 1 .. m : s[place[n]] \in Tickets
    BY <1>5, <1>8, <1>9, <2>1
  <2>3. PICK d : d = [n \in 1 .. m |-> s[place[n]]]
    OBVIOUS
  <2>4. d \in [1 .. m -> Tickets]
    BY <2>2, <2>3
  <2>. QED
    BY <1>4, <2>1, <2>2, <2>3, <2>4
<1>11. \A i, j \in first : s[i] = s[j] => i = j
  BY <1>1, <1>5
<1>12. ASSUME NEW i \in DOMAIN Distinct(s), NEW j \in DOMAIN Distinct(s),
              Distinct(s)[i] = Distinct(s)[j]
       PROVE  i = j
  <2>1. i \in 1 .. Cardinality(first) /\ j \in 1 .. Cardinality(first)
    BY <1>4
  <2>2. s[place[i]] = s[place[j]]
    BY <1>4, <1>12, <2>1
  <2>. QED
    BY <1>8, <1>11, <2>1, <2>2
<1>. QED
  BY <1>10, <1>12

-----------------------------------------------------------------------------
(* How a call goes on.                                                     *)

Rec(a, n, c, outcome, level) ==
  [actor |-> a, try |-> n, tool |-> c.tool, ticket |-> c.ticket,
   outcome |-> outcome, level |-> level, items |-> c.items]

LEMMA Counts ==
  ASSUME NEW c, NEW n, NEW E, NEW R, CountInv(c, n, E, R)
  PROVE  /\ IsFiniteSet(News(E)) /\ Cardinality(News(E)) \in Nat
         /\ IsFiniteSet(Errors(R)) /\ Cardinality(Errors(R)) \in Nat
         /\ Cardinality(News(E)) <= Cardinality(Errors(R)) + 1
         /\ ~Made(c) => Cardinality(News(E)) <= Cardinality(Errors(R))
<1>1. /\ IsFiniteSet(News(E)) /\ IsFiniteSet(Errors(R))
      /\ Cardinality(News(E)) <= Cardinality(Errors(R)) + (IF Made(c) THEN 1 ELSE 0)
  BY DEF CountInv
<1>2. Cardinality(News(E)) \in Nat /\ Cardinality(Errors(R)) \in Nat
  BY <1>1, FS_CardinalityType
<1>. QED
  BY <1>1, <1>2

LEMMA AuditGrows ==
  ASSUME NEW a, NEW c, NEW n, NEW E, NEW A, NEW R, ActorInv(a, c, n, E, A, R),
         NEW B, A \subseteq B, \A x \in B : x.actor = a
  PROVE  ActorInv(a, c, n, E, B, R)
<1>1. CallInv(c, n, E, B, R)
  BY DEF ActorInv, CallInv
<1>2. TruthInv(E, B, R)
  BY DEF ActorInv, TruthInv
<1>. QED
  BY <1>1, <1>2 DEF ActorInv

\* The call goes on to its next await.
LEMMA CallContinues ==
  ASSUME NEW a, NEW c, NEW n, NEW E, NEW A, NEW R, ActorInv(a, c, n, E, A, R), Running(c),
         NEW d \in Call, d.tool = c.tool, d.ticket = c.ticket, Running(d), d.at # "hook",
         Writes(c) => d.items = {} /\ d.at # "classify",
         d.at = "provider" => d.decision # "deny",
         Made(c) <=> Made(d)
  PROVE  ActorInv(a, d, n, E, A, R)
<1>1. Writes(d) <=> Writes(c)
  BY DEF Writes
<1>2. \A r : Is(r, n, d) <=> Is(r, n, c)
  BY DEF Is
<1>3. d.tool \in Tools
  BY DEF ActorInv, CallInv, Running
<1>4. CallInv(d, n, E, A, R)
  BY <1>1, <1>2, <1>3 DEF ActorInv, CallInv, Running
<1>5. a \in Agents => CountInv(d, n, E, R)
  BY DEF ActorInv, CountInv
<1>. QED
  BY <1>1, <1>4, <1>5 DEF ActorInv

\* The provider takes the write.
LEMMA CallPerforms ==
  ASSUME NEW a, NEW c, NEW n \in Nat, NEW E, NEW A, NEW R, ActorInv(a, c, n, E, A, R),
         c.at = "provider", Writes(c),
         NEW e, e.actor = a, Is(e, n, c)
  PROVE  ActorInv(a, [c EXCEPT !.at = "audit"], n, E \cup {e}, A, R)
<1>1. PICK d : d = [c EXCEPT !.at = "audit"]
  OBVIOUS
<1>2. c \in Call /\ c.decision # "deny" /\ c.tool \in Tools /\ c.items = {}
  BY DEF ActorInv, CallInv
<1>3. /\ d \in Call /\ d.tool = c.tool /\ d.ticket = c.ticket /\ d.at = "audit"
      /\ d.decision = c.decision /\ d.items = c.items
  BY <1>1, <1>2 DEF Call
<1>4. Made(d) /\ ~Made(c) /\ Running(c) /\ Running(d)
  BY <1>2, <1>3 DEF Made, Writes, Running
<1>5. \A r : Is(r, n, d) <=> Is(r, n, c)
  BY <1>3 DEF Is
<1>6. \A r \in R : ~Is(r, n, c)
  BY <1>4 DEF ActorInv, CallInv
<1>7. CallInv(d, n, E \cup {e}, A, R)
  BY <1>2, <1>3, <1>4, <1>5, <1>6 DEF CallInv
<1>8. TruthInv(E \cup {e}, A, R)
  <2>1. \A r \in R : ~SameCall(e, r)
    BY <1>6 DEF SameCall, Is
  <2>. QED
    BY <2>1 DEF ActorInv, TruthInv
<1>9. a \in Agents => CountInv(d, n, E \cup {e}, R)
  <2>. SUFFICES ASSUME a \in Agents PROVE CountInv(d, n, E \cup {e}, R)
    OBVIOUS
  <2>1. CountInv(c, n, E, R)
    BY DEF ActorInv
  <2>2. /\ IsFiniteSet(News(E)) /\ Cardinality(News(E)) \in Nat
        /\ IsFiniteSet(Errors(R)) /\ Cardinality(Errors(R)) \in Nat
        /\ Cardinality(News(E)) <= Cardinality(Errors(R))
    BY <1>4, <2>1, Counts
  <2>3. /\ IsFiniteSet(News(E) \cup {e})
        /\ Cardinality(News(E) \cup {e}) =
             IF e \in News(E) THEN Cardinality(News(E)) ELSE Cardinality(News(E)) + 1
    BY <2>2, FS_AddElement
  <2>4. News(E \cup {e}) \in SUBSET (News(E) \cup {e})
    BY DEF News
  <2>5. /\ IsFiniteSet(News(E \cup {e}))
        /\ Cardinality(News(E \cup {e})) <= Cardinality(News(E) \cup {e})
        /\ Cardinality(News(E \cup {e})) \in Nat
    BY <2>3, <2>4, FS_Subset, FS_CardinalityType
  <2>6. Cardinality(News(E \cup {e})) <= Cardinality(Errors(R)) + 1
    BY <2>2, <2>3, <2>5
  <2>7. \A r \in (E \cup {e}) \cup R : r.try \in 0 .. n
    BY <2>1 DEF CountInv, Is
  <2>. QED
    BY <1>4, <2>2, <2>5, <2>6, <2>7 DEF CountInv
<1>10. \A r \in (E \cup {e}) \cup A \cup R : r.actor = a
  BY DEF ActorInv
<1>11. a \notin Polls
  BY <1>2 DEF ActorInv
<1>. QED
  BY <1>1, <1>7, <1>8, <1>9, <1>10, <1>11 DEF ActorInv

\* The caller is told how the call has ended.
LEMMA CallEnds ==
  ASSUME NEW a, NEW c, NEW n \in Nat, NEW E, NEW A, NEW R, ActorInv(a, c, n, E, A, R),
         Running(c), NEW o \in Outcomes,
         o = "success" =>
           /\ \E e \in A : /\ Is(e, n, c) /\ e.items = c.items /\ e.outcome = "success"
                           /\ \A i \in c.items : i.level <= e.level
           /\ Writes(c) => Made(c),
         o = "denied" /\ Writes(c) => \E e \in A : Is(e, n, c) /\ e.outcome = "denied",
         o \notin {"success", "error"} => ~Made(c)
  PROVE  ActorInv(a, [c EXCEPT !.at = "done", !.outcome = o], n, E, A,
                  R \cup (IF a \in Polls THEN {} ELSE {Rec(a, n, c, o, 0)}))
<1>1. PICK d, r, S : /\ d = [c EXCEPT !.at = "done", !.outcome = o]
                     /\ r = Rec(a, n, c, o, 0)
                     /\ S = R \cup (IF a \in Polls THEN {} ELSE {r})
  OBVIOUS
<1>2. c \in Call /\ c.tool \in Tools /\ (Writes(c) => c.items = {})
  BY DEF ActorInv, CallInv, Running
<1>3. /\ d \in Call /\ d.tool = c.tool /\ d.ticket = c.ticket /\ d.at = "done"
      /\ d.outcome = o /\ d.items = c.items
  BY <1>1, <1>2 DEF Call
<1>4. \A x : Is(x, n, d) <=> Is(x, n, c)
  BY <1>3 DEF Is
<1>5. ~Running(d) /\ (Writes(d) <=> Writes(c)) /\ (Made(d) <=> Writes(c) /\ o = "success")
  BY <1>3 DEF Running, Writes, Made
<1>6. CallInv(d, n, E, A, S)
  <2>1. Made(d) => \E e \in E : Is(e, n, d)
    BY <1>4, <1>5 DEF ActorInv, CallInv
  <2>2. Writes(d) /\ o \in {"success", "denied"} => \E x \in A : Is(x, n, d) /\ x.outcome = o
    BY <1>4, <1>5
  <2>. QED
    BY <1>2, <1>3, <1>5, <2>1, <2>2 DEF CallInv
<1>7. /\ r.actor = a /\ r.try = n /\ r.tool = c.tool /\ r.ticket = c.ticket
      /\ r.outcome = o /\ r.items = c.items
  BY <1>1 DEF Rec
<1>8. /\ \A x \in E \cup A \cup R : r.actor = a /\ x.actor = a
      /\ \A x \in E \cup A : SameCall(x, r) <=> Is(x, n, c)
  BY <1>7 DEF ActorInv, SameCall, Is
<1>9. TruthInv(E, A, S)
  <2>. SUFFICES ASSUME NEW s \in S, s \notin R PROVE TruthInv(E, A, {s})
    BY DEF ActorInv, TruthInv
  <2>1. s = r
    BY <1>1
  <2>2. o \notin {"success", "error"} => \A e \in E : ~Is(e, n, c)
    BY DEF ActorInv, CallInv
  <2>3. o = "success" => /\ \E e \in A : /\ SameCall(e, r) /\ e.items = r.items
                                         /\ e.outcome = "success"
                                         /\ \A i \in r.items : i.level <= e.level
                         /\ r.tool \notin ReadTools => \E e \in E : SameCall(e, r)
    <3>1. Writes(c) /\ o = "success" => \E e \in E : Is(e, n, c)
      BY DEF ActorInv, CallInv
    <3>. QED
      BY <1>7, <1>8, <3>1 DEF Writes
  <2>. QED
    BY <1>7, <1>8, <2>1, <2>2, <2>3 DEF TruthInv
<1>10. a \in Agents => CountInv(d, n, E, S)
  <2>. SUFFICES ASSUME a \in Agents PROVE CountInv(d, n, E, S)
    OBVIOUS
  <2>1. CountInv(c, n, E, R)
    BY DEF ActorInv
  <2>2. /\ IsFiniteSet(News(E)) /\ Cardinality(News(E)) \in Nat
        /\ IsFiniteSet(Errors(R)) /\ Cardinality(Errors(R)) \in Nat
        /\ Cardinality(News(E)) <= Cardinality(Errors(R)) + 1
        /\ ~Made(c) => Cardinality(News(E)) <= Cardinality(Errors(R))
    BY <2>1, Counts
  <2>3. S = R \cup {r}
    BY <1>1, ActorsApart
  <2>4. \A x \in E \cup S : x.try \in 0 .. n
    BY <1>7, <2>1, <2>3 DEF CountInv
  <2>5. CASE o = "error"
    <3>1. Errors(S) = Errors(R) \cup {r}
      BY <1>7, <2>3, <2>5 DEF Errors
    <3>2. r \notin Errors(R)
      <4>1. Is(r, n, c)
        BY <1>7 DEF Is
      <4>. QED
        BY <4>1 DEF ActorInv, CallInv, Errors
    <3>3. /\ IsFiniteSet(Errors(S)) /\ Cardinality(Errors(S)) = Cardinality(Errors(R)) + 1
      BY <2>2, <3>1, <3>2, FS_AddElement
    <3>4. ~Made(d)
      BY <1>5, <2>5
    <3>. QED
      BY <2>2, <2>4, <3>3, <3>4 DEF CountInv
  <2>6. CASE o # "error"
    <3>1. Errors(S) = Errors(R)
      BY <1>7, <2>3, <2>6 DEF Errors
    <3>2. Cardinality(News(E)) <= Cardinality(Errors(R)) + (IF Made(d) THEN 1 ELSE 0)
      <4>1. CASE Made(d)
        BY <2>2, <4>1
      <4>2. CASE ~Made(d)
        <5>1. ~Made(c)
          BY <1>5, <2>6, <4>2 DEF Made
        <5>. QED
          BY <2>2, <4>2, <5>1
      <4>. QED
        BY <4>1, <4>2
    <3>. QED
      BY <2>2, <2>4, <3>1, <3>2 DEF CountInv
  <2>. QED
    BY <2>5, <2>6
<1>11. \A x \in E \cup A \cup S : x.actor = a
  BY <1>1, <1>7, <1>8 DEF ActorInv
<1>12. a \in Polls => E = {} /\ S = {} /\ ~(Writes(d) /\ d.tool \in Tools)
  BY <1>1, <1>3, <1>5 DEF ActorInv
<1>. QED
  BY <1>1, <1>6, <1>9, <1>10, <1>11, <1>12 DEF ActorInv

\* A call begins, with nothing done about it yet.
LEMMA CallBegins ==
  ASSUME NEW a, NEW c, NEW n \in Nat, NEW E, NEW A, NEW R, ActorInv(a, c, n, E, A, R),
         NEW m \in Nat, n <= m, a \in Agents => ~Made(c),
         NEW d \in Call, d.tool \in Tools, d.items = {},
         \/ d.at = "policy"
         \/ d.at = "hook" /\ d.ticket = NoTicket
         \/ d.at = "done" /\ d.outcome \notin {"success", "denied"},
         \A r \in E \cup R : ~Is(r, m, d),
         a \in Polls => d.tool \in ReadTools
  PROVE  ActorInv(a, d, m, E, A, R)
<1>1. ~Made(d)
  BY DEF Made
<1>2. CallInv(d, m, E, A, R)
  BY <1>1 DEF CallInv
<1>3. a \in Agents => CountInv(d, m, E, R)
  <2>. SUFFICES ASSUME a \in Agents PROVE CountInv(d, m, E, R)
    OBVIOUS
  <2>1. CountInv(c, n, E, R)
    BY DEF ActorInv
  <2>2. \A r \in E \cup R : r.try \in 0 .. m
    <3>1. \A r \in E \cup R : r.try \in 0 .. n
      BY <2>1 DEF CountInv
    <3>. QED
      BY <3>1
  <2>. QED
    BY <1>1, <2>1, <2>2 DEF CountInv
<1>4. a \in Polls => ~(Writes(d) /\ d.tool \in Tools)
  BY DEF Writes
<1>. QED
  BY <1>2, <1>3, <1>4 DEF ActorInv

-----------------------------------------------------------------------------
(* From the actors to the system.                                          *)

LEMMA HandlerFollows ==
  ASSUME NEW s, NEW c, NEW E, NEW A, NEW R, HandlerInv(s, c, E, A, R), Running(c),
         NEW d, d.tool = c.tool, d.ticket = c.ticket, d.at # "idle",
         NEW F, NEW B, NEW S, A \subseteq B,
         \A x \in F : x \in E \/ (x.tool = c.tool /\ x.ticket = c.ticket),
         \A x \in S : x \in R \/ (x.tool = c.tool /\ x.ticket = c.ticket)
  PROVE  HandlerInv(s, d, F, B, S)
<1>1. \A t : (Commented(A, t) => Commented(B, t)) /\ (CommentMade(A, t) => CommentMade(B, t))
  BY DEF Commented, CommentMade
<1>2. c.at # "idle" /\ c.at # "done"
  BY DEF Running
<1>3. c.tool = "jira_transition" => CommentMade(B, c.ticket)
  BY <1>1 DEF HandlerInv
<1>4. \A e \in F : e.tool = "jira_transition" => CommentMade(B, e.ticket)
  BY <1>1, <1>3 DEF HandlerInv
<1>5. ASSUME s # Idle
      PROVE  /\ s \in Handler /\ s.todo # <<>>
             /\ c.ticket = s.todo[1]
             /\ c.tool = IF s.now = "transition" THEN "jira_transition" ELSE "jira_comment"
             /\ s.now # "policy"
             /\ \A i, j \in DOMAIN s.todo : s.todo[i] = s.todo[j] => i = j
             /\ \A i \in DOMAIN s.keys :
                  Commented(B, s.keys[i]) \/ \E j \in DOMAIN s.todo : s.todo[j] = s.keys[i]
             /\ \A r \in E \cup R :
                  /\ \A j \in DOMAIN s.todo : r.ticket = s.todo[j] => j = 1
                  /\ s.now # "transition" /\ r.ticket = s.todo[1] => r.tool = "jira_comment"
  BY <1>1, <1>2, <1>5 DEF HandlerInv
<1>6. ASSUME s # Idle
      PROVE  \A r \in F \cup S :
               /\ \A j \in DOMAIN s.todo : r.ticket = s.todo[j] => j = 1
               /\ s.now # "transition" /\ r.ticket = s.todo[1] => r.tool = "jira_comment"
  <2>. SUFFICES ASSUME NEW r \in F \cup S, r \notin E \cup R
                PROVE  /\ \A j \in DOMAIN s.todo : r.ticket = s.todo[j] => j = 1
                       /\ s.now # "transition" /\ r.ticket = s.todo[1] => r.tool = "jira_comment"
    BY <1>5, <1>6
  <2>1. r.tool = c.tool /\ r.ticket = s.todo[1]
    BY <1>5, <1>6
  <2>2. 1 \in DOMAIN s.todo
    BY <1>5, <1>6 DEF Handler
  <2>. QED
    BY <1>5, <1>6, <2>1, <2>2
<1>. QED
  BY <1>3, <1>4, <1>5, <1>6 DEF HandlerInv

LEMMA ActivityStays ==
  ASSUME NEW acts, NEW log, NEW more, ActivityInv(acts, log), log \subseteq more
  PROVE  ActivityInv(acts, more)
  BY DEF ActivityInv, Commented, Of

LEMMA ActorStep ==
  ASSUME ConnectorInv, WorldInv', PollsInv',
         NEW a \in Actors, NEW d, call' = [call EXCEPT ![a] = d],
         NEW F, NEW B, NEW S, \A x \in F \cup B \cup S : x.actor = a,
         effects' = effects \cup F, audit' = audit \cup B, reports' = reports \cup S,
         ActorInv(a, d, TryOf(a)', Of(effects, a) \cup F, Of(audit, a) \cup B, Of(reports, a) \cup S),
         \A b \in Agents \ {a} : tries'[b] = tries[b],
         DOMAIN handler' = Handlers, \A h \in Handlers \ {a} : handler'[h] = handler[h],
         a \in Handlers =>
           HandlerInv(handler'[a], d, Of(effects, a) \cup F, Of(audit, a) \cup B,
                      Of(reports, a) \cup S),
         ActivityInv(activity', audit')
  PROVE  ConnectorInv'
<1>1. call'[a] = d /\ call' \in [Actors -> Call] /\ \A b \in Actors \ {a} : call'[b] = call[b]
  BY DEF ConnectorInv, ActorsInv, ActorInv, CallInv
<1>2. /\ Of(effects', a) = Of(effects, a) \cup F
      /\ Of(audit', a) = Of(audit, a) \cup B
      /\ Of(reports', a) = Of(reports, a) \cup S
      /\ \A b : b # a => /\ Of(effects', b) = Of(effects, b)
                         /\ Of(audit', b) = Of(audit, b)
                         /\ Of(reports', b) = Of(reports, b)
  <2>1. /\ Of(effects \cup F, a) = Of(effects, a) \cup F
        /\ \A b : b # a => Of(effects \cup F, b) = Of(effects, b)
    <3>1. \A x \in F : x.actor = a
      OBVIOUS
    <3>. QED
      BY <3>1 DEF Of
  <2>2. /\ Of(audit \cup B, a) = Of(audit, a) \cup B
        /\ \A b : b # a => Of(audit \cup B, b) = Of(audit, b)
    <3>1. \A x \in B : x.actor = a
      OBVIOUS
    <3>. QED
      BY <3>1 DEF Of
  <2>3. /\ Of(reports \cup S, a) = Of(reports, a) \cup S
        /\ \A b : b # a => Of(reports \cup S, b) = Of(reports, b)
    <3>1. \A x \in S : x.actor = a
      OBVIOUS
    <3>. QED
      BY <3>1 DEF Of
  <2>. QED
    BY <2>1, <2>2, <2>3, Zenon
<1>3. ASSUME NEW b \in Actors, b # a
      PROVE  /\ Of(effects', b) = Of(effects, b)
             /\ Of(audit', b) = Of(audit, b)
             /\ Of(reports', b) = Of(reports, b)
             /\ TryOf(b)' = TryOf(b)
             /\ call'[b] = call[b]
  <2>1. TryOf(b)' = TryOf(b)
    BY <1>3 DEF TryOf
  <2>. QED
    BY <1>1, <1>2, <1>3, <2>1
<1>4. ASSUME NEW b \in Actors
      PROVE  ActorInv(b, call'[b], TryOf(b)', Of(effects', b), Of(audit', b), Of(reports', b))
  <2>1. CASE b = a
    BY <1>1, <1>2, <2>1
  <2>2. CASE b # a
    <3>1. ActorInv(b, call[b], TryOf(b), Of(effects, b), Of(audit, b), Of(reports, b))
      BY DEF ConnectorInv, ActorsInv
    <3>. QED
      BY <1>3, <2>2, <3>1
  <2>. QED
    BY <2>1, <2>2
<1>5. ASSUME NEW h \in Handlers
      PROVE  HandlerInv(handler'[h], call'[h], Of(effects', h), Of(audit', h), Of(reports', h))
  <2>1. CASE h = a
    BY <1>1, <1>2, <2>1
  <2>2. CASE h # a
    <3>1. HandlerInv(handler[h], call[h], Of(effects, h), Of(audit, h), Of(reports, h))
      BY DEF ConnectorInv, ActorsInv
    <3>2. h \in Actors
      BY DEF Actors
    <3>. QED
      BY <1>3, <2>2, <3>1, <3>2
  <2>. QED
    BY <2>1, <2>2
<1>6. ActorsInv'
  BY <1>1, <1>4, <1>5 DEF ActorsInv
<1>. QED
  BY <1>6 DEF ConnectorInv

\* What a step of a call leaves alone.
Around ==
  /\ UNCHANGED <<doc, changes, revoked, tries, modelCalls, trackingVars, pollerVars>>
  /\ failures' \in 0 .. MaxFailures /\ disabled' \subseteq Objects

LEMMA CallStepInv ==
  ASSUME ConnectorInv, Around, NEW a \in Actors, Running(call[a]),
         NEW d, call' = [call EXCEPT ![a] = d],
         d.tool = call[a].tool, d.ticket = call[a].ticket, d.at # "idle",
         NEW F \in SUBSET Effect, NEW B \in SUBSET Record, NEW S \in SUBSET Record,
         \A x \in F \cup B \cup S :
           x.actor = a /\ x.tool = call[a].tool /\ x.ticket = call[a].ticket,
         effects' = effects \cup F, audit' = audit \cup B, reports' = reports \cup S,
         ActorInv(a, d, TryOf(a), Of(effects, a) \cup F, Of(audit, a) \cup B, Of(reports, a) \cup S)
  PROVE  ConnectorInv'
<1>1. /\ UNCHANGED <<doc, changes, revoked, tries, modelCalls, handler, delivered, activity,
                     poller, poll>>
      /\ failures' \in 0 .. MaxFailures /\ disabled' \subseteq Objects
  BY DEF Around, trackingVars, pollerVars
<1>2. WorldInv'
  BY <1>1 DEF ConnectorInv, WorldInv
<1>3. PollsInv'
  BY <1>1 DEF ConnectorInv, PollsInv, ServiceInv, Starting
<1>4. ActivityInv(activity', audit')
  BY <1>1, ActivityStays DEF ConnectorInv, ActorsInv
<1>5. TryOf(a)' = TryOf(a)
  BY <1>1 DEF TryOf
<1>6. PICK c, E, A, R : /\ c = call[a] /\ E = Of(effects, a) /\ A = Of(audit, a)
                        /\ R = Of(reports, a)
  OBVIOUS
<1>7. a \in Handlers => HandlerInv(handler'[a], d, E \cup F, A \cup B, R \cup S)
  <2>1. a \in Handlers => HandlerInv(handler[a], c, E, A, R)
    BY <1>6 DEF ConnectorInv, ActorsInv
  <2>2. handler' = handler
    BY <1>1
  <2>. QED
    BY <1>6, <2>1, <2>2, HandlerFollows
<1>8. DOMAIN handler' = Handlers
  BY <1>1 DEF ConnectorInv, ActorsInv
<1>. QED
  <2>1. \A b \in Agents \ {a} : tries'[b] = tries[b]
    BY <1>1
  <2>2. \A h \in Handlers \ {a} : handler'[h] = handler[h]
    BY <1>1
  <2>3. ActorInv(a, d, TryOf(a)', E \cup F, A \cup B, R \cup S)
    BY <1>5, <1>6
  <2>4. \A x \in F \cup B \cup S : x.actor = a
    OBVIOUS
  <2>. QED
    BY <1>2, <1>3, <1>4, <1>6, <1>7, <1>8, <2>1, <2>2, <2>3, <2>4, ActorStep

LEMMA TryOfIs ==
  ASSUME ConnectorInv, NEW a
  PROVE  TryOf(a) \in 0 .. MaxTries /\ TryOf(a) \in Nat
  BY Bounds DEF ConnectorInv, WorldInv, TryOf

LEMMA RecIsRecord ==
  ASSUME NEW a \in Actors, NEW n \in 0 .. MaxTries, NEW c \in Call, c.tool \in Tools,
         NEW o \in Outcomes, NEW l \in Levels
  PROVE  LET r == Rec(a, n, c, o, l) IN
         /\ r \in Record /\ r.actor = a /\ Is(r, n, c)
         /\ r.outcome = o /\ r.level = l /\ r.items = c.items
<1>1. PICK r, tool, ticket, items :
        r = Rec(a, n, c, o, l) /\ tool = c.tool /\ ticket = c.ticket /\ items = c.items
  OBVIOUS
<1>2. /\ tool \in Tools /\ ticket \in Tickets \cup {NoTicket} /\ items \in SUBSET ReadItem
  BY <1>1 DEF Call
<1>3. r = [actor |-> a, try |-> n, tool |-> tool, ticket |-> ticket, outcome |-> o,
           level |-> l, items |-> items]
  BY <1>1 DEF Rec
<1>4. r \in Record
  BY <1>2, <1>3 DEF Record
<1>. QED
  BY <1>1, <1>3, <1>4 DEF Is

\* The invariant of an actor whose call is under way.
LEMMA RunningActor ==
  ASSUME ConnectorInv, NEW a \in Actors, Running(call[a])
  PROVE  /\ ActorInv(a, call[a], TryOf(a), Of(effects, a), Of(audit, a), Of(reports, a))
         /\ call[a] \in Call /\ call[a].tool \in Tools
         /\ Writes(call[a]) => call[a].items = {} /\ call[a].at # "classify"
         /\ a \in Polls => ~Writes(call[a])
  BY DEF ConnectorInv, ActorsInv, ActorInv, CallInv, Running

LEMMA FinishInv ==
  ASSUME ConnectorInv, Around, NEW a \in Actors, Running(call[a]),
         NEW o \in Outcomes, Finish(a, o),
         NEW F \in SUBSET Effect, NEW B \in SUBSET Record,
         \A x \in F \cup B : x.actor = a /\ x.tool = call[a].tool /\ x.ticket = call[a].ticket,
         effects' = effects \cup F, audit' = audit \cup B,
         NEW c, Running(c),
         c.tool = call[a].tool, c.ticket = call[a].ticket, c.items = call[a].items,
         [c EXCEPT !.at = "done", !.outcome = o] = [call[a] EXCEPT !.at = "done", !.outcome = o],
         ActorInv(a, c, TryOf(a), Of(effects, a) \cup F, Of(audit, a) \cup B, Of(reports, a)),
         o = "success" =>
           /\ \E e \in Of(audit, a) \cup B :
                /\ Is(e, TryOf(a), c) /\ e.items = c.items /\ e.outcome = "success"
                /\ \A i \in c.items : i.level <= e.level
           /\ Writes(c) => Made(c),
         o = "denied" /\ Writes(c) =>
           \E e \in Of(audit, a) \cup B : Is(e, TryOf(a), c) /\ e.outcome = "denied",
         o \notin {"success", "error"} => ~Made(c)
  PROVE  ConnectorInv'
<1>1. PICK d, r, S, n : /\ d = [c EXCEPT !.at = "done", !.outcome = o]
                        /\ n = TryOf(a) /\ r = Rec(a, n, c, o, 0)
                        /\ S = IF a \in Polls THEN {} ELSE {r}
  OBVIOUS
<1>2. n \in 0 .. MaxTries /\ n \in Nat
  BY <1>1, TryOfIs
<1>3. call' = [call EXCEPT ![a] = d]
  BY <1>1 DEF Finish, ConnectorInv, ActorsInv
<1>4. c \in Call /\ c.tool \in Tools
  BY DEF ActorInv, CallInv, Running
<1>5. d.tool = c.tool /\ d.ticket = c.ticket /\ d.at # "idle"
  BY <1>1, <1>4 DEF Call
<1>6. r \in Record /\ r.actor = a /\ Is(r, n, c)
  <2>1. 0 \in Levels
    BY DEF Levels
  <2>. QED
    BY <1>1, <1>2, <1>4, <2>1, RecIsRecord
<1>7. reports' = reports \cup S
  <2>1. RecordOf(a, call[a], o, 0) = r
    BY <1>1 DEF RecordOf, Rec
  <2>. QED
    BY <1>1, <2>1 DEF Finish
<1>8. S \in SUBSET Record /\ \A x \in S : x.actor = a /\ x.tool = call[a].tool /\ x.ticket = call[a].ticket
  BY <1>1, <1>6 DEF Is
<1>9. ActorInv(a, d, n, Of(effects, a) \cup F, Of(audit, a) \cup B, Of(reports, a) \cup S)
  <2>1. PICK E, A, R : E = Of(effects, a) \cup F /\ A = Of(audit, a) \cup B /\ R = Of(reports, a)
    OBVIOUS
  <2>2. ActorInv(a, d, n, E, A, R \cup S)
    BY <1>1, <1>2, <2>1, CallEnds
  <2>. QED
    BY <2>1, <2>2
<1>10. \A x \in F \cup B \cup S : x.actor = a /\ x.tool = call[a].tool /\ x.ticket = call[a].ticket
  BY <1>8
<1>11. d.tool = call[a].tool /\ d.ticket = call[a].ticket /\ d.at # "idle"
  BY <1>5
<1>12. ActorInv(a, d, TryOf(a), Of(effects, a) \cup F, Of(audit, a) \cup B, Of(reports, a) \cup S)
  BY <1>1, <1>9
<1>13. S \in SUBSET Record
  BY <1>8
<1>. QED
  BY <1>3, <1>7, <1>10, <1>11, <1>12, <1>13, CallStepInv

\* A call that ends with nothing more written than before.
LEMMA FinishPlain ==
  ASSUME ConnectorInv, Around, NEW a \in Actors, Running(call[a]),
         NEW o \in Outcomes \ {"success"}, Finish(a, o), UNCHANGED <<effects, audit>>,
         o = "denied" => ~Writes(call[a]),
         o # "error" => ~Made(call[a])
  PROVE  ConnectorInv'
<1>1. ActorInv(a, call[a], TryOf(a), Of(effects, a) \cup {}, Of(audit, a) \cup {}, Of(reports, a))
  <2>1. Of(effects, a) \cup {} = Of(effects, a) /\ Of(audit, a) \cup {} = Of(audit, a)
    OBVIOUS
  <2>. QED
    BY <2>1, RunningActor
<1>2. PICK F, B : F = {} /\ B = {}
  OBVIOUS
<1>3. F \in SUBSET Effect /\ B \in SUBSET Record
  BY <1>2
<1>4. Running(call[a]) /\ o # "success"
  OBVIOUS
<1>5. effects' = effects \cup F /\ audit' = audit \cup B /\ \A x \in F \cup B : FALSE
  BY <1>2
<1>6. ActorInv(a, call[a], TryOf(a), Of(effects, a) \cup F, Of(audit, a) \cup B, Of(reports, a))
  BY <1>1, <1>2
<1>. QED
  BY <1>3, <1>4, <1>5, <1>6, FinishInv

\* A call that goes on with nothing written.
LEMMA GoesOn ==
  ASSUME ConnectorInv, Around, NEW a \in Actors, Running(call[a]),
         NEW d \in Call, call' = [call EXCEPT ![a] = d],
         d.tool = call[a].tool, d.ticket = call[a].ticket, d.at # "idle",
         UNCHANGED <<effects, audit, reports>>,
         ActorInv(a, d, TryOf(a), Of(effects, a), Of(audit, a), Of(reports, a))
  PROVE  ConnectorInv'
<1>1. PICK F, B, S : F = {} /\ B = {} /\ S = {}
  OBVIOUS
<1>2. F \in SUBSET Effect /\ B \in SUBSET Record /\ S \in SUBSET Record
  BY <1>1
<1>3. /\ effects' = effects \cup F /\ audit' = audit \cup B /\ reports' = reports \cup S
      /\ \A x \in F \cup B \cup S :
           x.actor = a /\ x.tool = call[a].tool /\ x.ticket = call[a].ticket
  BY <1>1
<1>4. ActorInv(a, d, TryOf(a), Of(effects, a) \cup F, Of(audit, a) \cup B, Of(reports, a) \cup S)
  BY <1>1
<1>. QED
  BY <1>2, <1>3, <1>4, CallStepInv

LEMMA FailsKeeps == ASSUME ConnectorInv, Fails \/ UNCHANGED failures
                    PROVE  failures' \in 0 .. MaxFailures
  BY Bounds DEF ConnectorInv, WorldInv, Fails

-----------------------------------------------------------------------------
(* Every step of a call.                                                   *)

Elsewhere == UNCHANGED <<trackingVars, pollerVars>>

\* The steps that end a call with an error, or before anything was written.
LEMMA EndsPlainly ==
  ASSUME ConnectorInv, Elsewhere, NEW a \in Actors,
         \/ HookFails(a) \/ PolicyFails(a) \/ FetchRevoked(a) \/ ReadFails(a)
         \/ WriteRevoked(a) \/ AuditOfWriteFails(a)
  PROVE  ConnectorInv'
<1>1. disabled \subseteq Objects /\ ObjectOf(a, call[a].tool) \subseteq Objects
  BY DEF ConnectorInv, WorldInv, ObjectOf, Objects
<1>2. Around
  <2>1. /\ UNCHANGED <<doc, changes, revoked, tries, modelCalls>>
        /\ Fails \/ UNCHANGED failures
        /\ UNCHANGED disabled \/ disabled' = disabled \cup ObjectOf(a, call[a].tool)
    BY DEF HookFails, PolicyFails, FetchRevoked, ReadFails, WriteRevoked, AuditOfWriteFails
  <2>. QED
    BY <1>1, <2>1, FailsKeeps DEF Around, Elsewhere
<1>3. UNCHANGED <<effects, audit>> /\ Running(call[a])
  BY DEF HookFails, PolicyFails, FetchRevoked, ReadFails, WriteRevoked, AuditOfWriteFails, Running
<1>4. CASE HookFails(a)
  <2>1. Finish(a, "refused") /\ ~Made(call[a])
    BY <1>4 DEF HookFails, Made
  <2>2. "refused" \in Outcomes \ {"success"}
    BY DEF Outcomes
  <2>. QED
    BY <1>2, <1>3, <2>1, <2>2, FinishPlain
<1>5. CASE PolicyFails(a) \/ WriteRevoked(a) \/ AuditOfWriteFails(a)
  <2>1. Finish(a, "error")
    BY <1>5 DEF PolicyFails, WriteRevoked, AuditOfWriteFails
  <2>2. "error" \in Outcomes \ {"success"}
    BY DEF Outcomes
  <2>. QED
    BY <1>2, <1>3, <2>1, <2>2, FinishPlain
<1>6. CASE FetchRevoked(a)
  <2>1. Finish(a, "revoked") /\ ~Made(call[a])
    BY <1>6 DEF FetchRevoked, Made
  <2>2. "revoked" \in Outcomes \ {"success"}
    BY DEF Outcomes
  <2>. QED
    BY <1>2, <1>3, <2>1, <2>2, FinishPlain
<1>7. CASE ReadFails(a)
  <2>1. PICK o \in {"unavailable", "error"} : Finish(a, o)
    BY <1>7 DEF ReadFails
  <2>2. o \in Outcomes \ {"success"} /\ o # "denied" /\ ~Made(call[a])
    BY <1>7 DEF Outcomes, ReadFails, Made, Writes
  <2>. QED
    BY <1>2, <1>3, <2>1, <2>2, FinishPlain
<1>. QED
  BY <1>4, <1>5, <1>6, <1>7

\* The call that Entered makes.
LEMMA EnteredIs ==
  ASSUME NEW a, NEW tool \in Tools, NEW ticket \in Tickets \cup {NoTicket}
  PROVE  LET d == Entered(a, tool, ticket) IN
         /\ d \in Call /\ d.tool = tool /\ d.ticket = ticket /\ d.items = {}
         /\ d.at = "policy" \/ (d.at = "done" /\ d.outcome = "disabled")
<1>1. PICK at, outcome :
        /\ at = (IF ObjectOf(a, tool) \cap disabled # {} THEN "done" ELSE "policy")
        /\ outcome = (IF ObjectOf(a, tool) \cap disabled # {} THEN "disabled" ELSE "none")
  OBVIOUS
<1>2. PICK d : d = Entered(a, tool, ticket)
  OBVIOUS
<1>3. d = [NoCall EXCEPT !.tool = tool, !.ticket = ticket, !.at = at, !.outcome = outcome]
  BY <1>1, <1>2, Zenon DEF Entered
<1>4. d = [tool |-> tool, ticket |-> ticket, at |-> at, decision |-> "none", todo |-> {},
           items |-> {}, outcome |-> outcome]
  BY <1>3 DEF NoCall
<1>5. \/ at = "policy" /\ outcome = "none"
      \/ at = "done" /\ outcome = "disabled"
  BY <1>1
<1>6. d \in Call
  BY <1>4, <1>5 DEF Call, Outcomes
<1>. QED
  BY <1>2, <1>4, <1>5, <1>6

LEMMA HookAnswersInv ==
  ASSUME ConnectorInv, Elsewhere, NEW a \in Actors, HookAnswers(a)
  PROVE  ConnectorInv'
<1>1. /\ UNCHANGED <<doc, changes, revoked, failures, disabled, tries, effects, audit, modelCalls>>
      /\ call[a].at = "hook"
  BY DEF HookAnswers
<1>2. Around /\ Running(call[a]) /\ ~Made(call[a])
  BY <1>1, FailsKeeps DEF Around, Elsewhere, ConnectorInv, WorldInv, Running, Made
<1>3. CASE Finish(a, "refused")
  <2>1. "refused" \in Outcomes \ {"success"}
    BY DEF Outcomes
  <2>. QED
    BY <1>1, <1>2, <1>3, <2>1, FinishPlain
<1>4. CASE call' = [call EXCEPT ![a] = Entered(a, call[a].tool, NoTicket)] /\ UNCHANGED reports
  <2>1. PICK c, d : c = call[a] /\ d = Entered(a, c.tool, NoTicket)
    OBVIOUS
  <2>2. /\ ActorInv(a, c, TryOf(a), Of(effects, a), Of(audit, a), Of(reports, a))
        /\ c \in Call /\ c.tool \in Tools /\ Running(c) /\ ~Made(c) /\ c.ticket = NoTicket
        /\ a \in Polls => c.tool \in ReadTools
    BY <1>1, <1>2, <2>1, RunningActor DEF ActorInv, CallInv, Writes
  <2>3. /\ d \in Call /\ d.tool = c.tool /\ d.ticket = NoTicket /\ d.items = {}
        /\ d.at = "policy" \/ (d.at = "done" /\ d.outcome = "disabled")
    BY <2>1, <2>2, EnteredIs
  <2>4. \A r \in Of(effects, a) \cup Of(reports, a) : ~Is(r, TryOf(a), d)
    BY <2>2, <2>3 DEF ActorInv, CallInv, Is
  <2>5. TryOf(a) \in Nat /\ TryOf(a) <= TryOf(a)
    BY TryOfIs
  <2>6. ActorInv(a, d, TryOf(a), Of(effects, a), Of(audit, a), Of(reports, a))
    BY <2>2, <2>3, <2>4, <2>5, CallBegins
  <2>. QED
    BY <1>1, <1>2, <1>4, <2>1, <2>2, <2>3, <2>6, GoesOn
<1>. QED
  BY <1>3, <1>4 DEF HookAnswers

LEMMA PolicyAnswersInv ==
  ASSUME ConnectorInv, Elsewhere, NEW a \in Actors, PolicyAnswers(a)
  PROVE  ConnectorInv'
<1>1. /\ UNCHANGED <<doc, changes, revoked, failures, disabled, tries, effects, audit, modelCalls>>
      /\ call[a].at = "policy"
  BY DEF PolicyAnswers
<1>2. Around /\ Running(call[a]) /\ ~Made(call[a])
  BY <1>1, FailsKeeps DEF Around, Elsewhere, ConnectorInv, WorldInv, Running, Made
<1>3. PICK decision : decision = EvaluateTool(doc, call[a].tool)
  OBVIOUS
<1>4. decision \in Decisions \cup {"error"}
  BY <1>3 DEF EvaluateTool, Decision, Decisions
<1>5. CASE decision = "error"
  <2>1. Finish(a, "error")
    BY <1>3, <1>5 DEF PolicyAnswers
  <2>2. "error" \in Outcomes \ {"success"}
    BY DEF Outcomes
  <2>. QED
    BY <1>1, <1>2, <2>1, <2>2, FinishPlain
<1>6. CASE decision = "deny" /\ call[a].tool \in ReadTools
  <2>1. Finish(a, "denied")
    BY <1>3, <1>6 DEF PolicyAnswers
  <2>2. "denied" \in Outcomes \ {"success"} /\ ~Writes(call[a])
    BY <1>6 DEF Outcomes, Writes
  <2>. QED
    BY <1>1, <1>2, <2>1, <2>2, FinishPlain
<1>7. CASE decision # "error" /\ ~(decision = "deny" /\ call[a].tool \in ReadTools)
  <2>1. PICK at : at = IF decision = "deny" THEN "audit" ELSE "provider"
    OBVIOUS
  <2>2. call' = [call EXCEPT ![a].at = at, ![a].decision = decision] /\ UNCHANGED reports
    BY <1>3, <1>7, <2>1 DEF PolicyAnswers
  <2>3. PICK c, d : c = call[a] /\ d = [c EXCEPT !.at = at, !.decision = decision]
    OBVIOUS
  <2>4. call' = [call EXCEPT ![a] = d]
    BY <2>2, <2>3 DEF ConnectorInv, ActorsInv
  <2>5. /\ ActorInv(a, c, TryOf(a), Of(effects, a), Of(audit, a), Of(reports, a))
        /\ c \in Call /\ (Writes(c) => c.items = {})
    BY <1>2, <2>3, RunningActor
  <2>6. decision \in Decisions /\ at \in {"audit", "provider"} /\ (at = "audit" <=> decision = "deny")
    BY <1>4, <1>7, <2>1
  <2>7. /\ d \in Call /\ d.tool = c.tool /\ d.ticket = c.ticket /\ d.at = at
        /\ d.decision = decision /\ d.items = c.items /\ d.outcome = c.outcome
    BY <2>3, <2>5, <2>6 DEF Call
  <2>8. Running(d) /\ ~Made(d) /\ Running(c) /\ ~Made(c)
    BY <1>2, <2>3, <2>6, <2>7 DEF Running, Made
  <2>9. ActorInv(a, d, TryOf(a), Of(effects, a), Of(audit, a), Of(reports, a))
    BY <2>5, <2>6, <2>7, <2>8, CallContinues
  <2>10. d.at # "idle" /\ d.tool = call[a].tool /\ d.ticket = call[a].ticket /\ d \in Call
    BY <2>3, <2>7, <2>8 DEF Running
  <2>11. UNCHANGED <<effects, audit, reports>>
    BY <1>1, <2>2
  <2>. QED
    BY <1>2, <2>4, <2>9, <2>10, <2>11, GoesOn
<1>. QED
  BY <1>5, <1>6, <1>7

\* What a tool reads are items.
LEMMA FetchedIs ==
  ASSUME NEW tool \in Tools, NEW items \in Fetched(tool)
  PROVE  items \in SUBSET Items
<1>1. PICK type : type = ConnectorType(tool)
  OBVIOUS
<1>2. type \in Types
  BY <1>1, TypeOfTool
<1>3. \A t : Held(t) \subseteq Items
  BY DEF Held
<1>4. CASE type = "gmail"
  <2>1. items \in GmailFetched(tool)
    BY <1>1, <1>4 DEF Fetched
  <2>. QED
    BY <1>3, <2>1 DEF GmailFetched
<1>5. CASE type = "gcal"
  <2>1. items \in GCalFetched(tool)
    BY <1>1, <1>5 DEF Fetched
  <2>. QED
    BY <1>3, <2>1 DEF GCalFetched
<1>6. CASE type = "jira"
  <2>1. items \in JiraFetched(tool)
    BY <1>1, <1>6 DEF Fetched
  <2>. QED
    BY <1>3, <2>1 DEF JiraFetched
<1>7. CASE type = "github"
  <2>1. items \in GitHubFetched(tool)
    BY <1>1, <1>7 DEF Fetched
  <2>. QED
    BY <1>3, <2>1 DEF GitHubFetched
<1>8. CASE type = "gdrive"
  <2>1. items \in GDriveFetched(tool)
    BY <1>1, <1>8 DEF Fetched
  <2>. QED
    BY <1>3, <2>1 DEF GDriveFetched
<1>. QED
  BY <1>2, <1>4, <1>5, <1>6, <1>7, <1>8 DEF Types

LEMMA FetchInv ==
  ASSUME ConnectorInv, Elsewhere, NEW a \in Actors, Fetch(a)
  PROVE  ConnectorInv'
<1>1. /\ UNCHANGED <<doc, changes, revoked, failures, disabled, tries, effects, audit, reports,
                     modelCalls>>
      /\ call[a].at = "provider" /\ call[a].tool \in ReadTools
  BY DEF Fetch
<1>2. Around /\ Running(call[a]) /\ ~Made(call[a])
  BY <1>1, FailsKeeps DEF Around, Elsewhere, ConnectorInv, WorldInv, Running, Made
<1>3. PICK c : c = call[a]
  OBVIOUS
<1>4. /\ ActorInv(a, c, TryOf(a), Of(effects, a), Of(audit, a), Of(reports, a))
      /\ c \in Call /\ c.tool \in Tools /\ ~Writes(c)
  BY <1>1, <1>2, <1>3, RunningActor DEF Writes
<1>5. PICK items \in Fetched(c.tool) :
        call' = [call EXCEPT ![a].at = IF items = {} THEN "audit" ELSE "classify",
                             ![a].todo = items]
  BY <1>3 DEF Fetch
<1>6. items \in SUBSET Items
  BY <1>4, FetchedIs
<1>7. PICK at : at = IF items = {} THEN "audit" ELSE "classify"
  OBVIOUS
<1>8. PICK d : d = [c EXCEPT !.at = at, !.todo = items]
  OBVIOUS
<1>9. call' = [call EXCEPT ![a] = d]
  BY <1>3, <1>5, <1>7, <1>8 DEF ConnectorInv, ActorsInv
<1>10. d \in Call /\ d.tool = c.tool /\ d.ticket = c.ticket /\ d.at \in {"audit", "classify"}
  BY <1>4, <1>6, <1>7, <1>8 DEF Call
<1>11. Running(c) /\ Running(d) /\ ~Made(c) /\ ~Made(d) /\ d.at \notin {"hook", "provider", "idle"}
  BY <1>2, <1>3, <1>4, <1>10 DEF Running, Made, Writes
<1>12. ActorInv(a, d, TryOf(a), Of(effects, a), Of(audit, a), Of(reports, a))
  BY <1>4, <1>10, <1>11, CallContinues
<1>13. d.tool = call[a].tool /\ d.ticket = call[a].ticket /\ d.at # "idle" /\ d \in Call
  BY <1>3, <1>10, <1>11
<1>14. UNCHANGED <<effects, audit, reports>>
  BY <1>1
<1>. QED
  BY <1>2, <1>9, <1>12, <1>13, <1>14, GoesOn

LEMMA ClassifyInv ==
  ASSUME ConnectorInv, Elsewhere, NEW a \in Actors, Classify(a)
  PROVE  ConnectorInv'
<1>1. /\ UNCHANGED <<doc, changes, revoked, failures, disabled, tries, effects, audit, reports,
                     modelCalls>>
      /\ call[a].at = "classify"
  BY DEF Classify
<1>2. Around /\ Running(call[a]) /\ ~Made(call[a])
  BY <1>1, FailsKeeps DEF Around, Elsewhere, ConnectorInv, WorldInv, Running, Made
<1>3. PICK c : c = call[a]
  OBVIOUS
<1>4. /\ ActorInv(a, c, TryOf(a), Of(effects, a), Of(audit, a), Of(reports, a))
      /\ c \in Call /\ c.tool \in Tools /\ ~Writes(c)
  BY <1>1, <1>2, <1>3, RunningActor
<1>5. PICK item \in c.todo : \E level \in Classified(item.type, item.sensitivity) :
        call' = [call EXCEPT
           ![a].todo = @ \ {item},
           ![a].items = @ \cup {[item |-> item, level |-> level]},
           ![a].at = IF call[a].todo = {item} THEN "audit" ELSE "classify"]
  BY <1>3 DEF Classify
<1>6. PICK level \in Classified(item.type, item.sensitivity) :
        call' = [call EXCEPT
           ![a].todo = @ \ {item},
           ![a].items = @ \cup {[item |-> item, level |-> level]},
           ![a].at = IF call[a].todo = {item} THEN "audit" ELSE "classify"]
  BY <1>5
<1>7. c.todo \in SUBSET Items /\ c.items \in SUBSET ReadItem
  BY <1>4 DEF Call
<1>8. level \in Levels
  <2>1. item \in Item
    BY <1>7, ConnectorAssumption
  <2>. QED
    BY <2>1 DEF Item, Classified, DefaultClassification, Levels
<1>9. PICK todo, items, at :
        /\ todo = c.todo \ {item} /\ items = c.items \cup {[item |-> item, level |-> level]}
        /\ at = IF c.todo = {item} THEN "audit" ELSE "classify"
  OBVIOUS
<1>10. todo \in SUBSET Items /\ items \in SUBSET ReadItem /\ at \in {"audit", "classify"}
  <2>1. [item |-> item, level |-> level] \in ReadItem
    BY <1>7, <1>8 DEF ReadItem
  <2>. QED
    BY <1>7, <1>9, <2>1
<1>11. PICK d : d = [c EXCEPT !.todo = todo, !.items = items, !.at = at]
  OBVIOUS
<1>12. call' = [call EXCEPT ![a] = d]
  BY <1>3, <1>6, <1>9, <1>11 DEF ConnectorInv, ActorsInv
<1>13. d \in Call /\ d.tool = c.tool /\ d.ticket = c.ticket /\ d.at = at
  BY <1>4, <1>10, <1>11 DEF Call
<1>14. Running(c) /\ Running(d) /\ ~Made(c) /\ ~Made(d) /\ d.at \notin {"hook", "provider", "idle"}
  BY <1>2, <1>3, <1>4, <1>10, <1>13 DEF Running, Made, Writes
<1>15. ActorInv(a, d, TryOf(a), Of(effects, a), Of(audit, a), Of(reports, a))
  BY <1>4, <1>13, <1>14, CallContinues
<1>16. d.tool = call[a].tool /\ d.ticket = call[a].ticket /\ d.at # "idle" /\ d \in Call
  BY <1>3, <1>13, <1>14
<1>17. UNCHANGED <<effects, audit, reports>>
  BY <1>1
<1>. QED
  BY <1>2, <1>12, <1>15, <1>16, <1>17, GoesOn

\* A call at the audit log writes an entry and ends.
LEMMA LoggedInv ==
  ASSUME ConnectorInv, Elsewhere, NEW a \in Actors, NEW o \in {"success", "denied"},
         call[a].at = "audit", NEW l \in Levels, \A i \in call[a].items : i.level <= l,
         Writes(call[a]) => (o = "denied" <=> call[a].decision = "deny"),
         ~Writes(call[a]) => o = "success",
         audit' = audit \cup {RecordOf(a, call[a], o, l)}, Finish(a, o),
         UNCHANGED <<doc, changes, revoked, failures, disabled, tries, effects, modelCalls>>
  PROVE  ConnectorInv'
<1>1. Around /\ Running(call[a])
  BY FailsKeeps DEF Around, Elsewhere, ConnectorInv, WorldInv, Running
<1>2. PICK c, n, F, B, r : /\ c = call[a] /\ n = TryOf(a) /\ r = Rec(a, n, c, o, l)
                           /\ F = {} /\ B = {r}
  OBVIOUS
<1>3. /\ ActorInv(a, c, n, Of(effects, a), Of(audit, a), Of(reports, a))
      /\ c \in Call /\ c.tool \in Tools /\ c.at = "audit"
  BY <1>1, <1>2, RunningActor
<1>4. o \in Outcomes
  BY DEF Outcomes
<1>5. n \in 0 .. MaxTries
  BY <1>2, TryOfIs
<1>6. /\ r \in Record /\ r.actor = a /\ Is(r, n, c)
      /\ r.outcome = o /\ r.level = l /\ r.items = c.items
  BY <1>2, <1>3, <1>4, <1>5, RecIsRecord
<1>7. RecordOf(a, call[a], o, l) = r
  BY <1>2 DEF RecordOf, Rec
<1>8. /\ F \in SUBSET Effect /\ B \in SUBSET Record
      /\ effects' = effects \cup F /\ audit' = audit \cup B
  BY <1>2, <1>6, <1>7
<1>9. \A x \in F \cup B : x.actor = a /\ x.tool = call[a].tool /\ x.ticket = call[a].ticket
  BY <1>2, <1>6 DEF Is
<1>10. Of(effects, a) \cup F = Of(effects, a)
  BY <1>2
<1>11. \A x \in Of(audit, a) \cup B : x.actor = a
  BY <1>2, <1>6 DEF Of
<1>12. ActorInv(a, c, n, Of(effects, a), Of(audit, a) \cup B, Of(reports, a))
  <2>1. Of(audit, a) \subseteq Of(audit, a) \cup B
    OBVIOUS
  <2>. QED
    BY <1>3, <1>11, <2>1, AuditGrows
<1>13. \E e \in Of(audit, a) \cup B :
         /\ Is(e, n, c) /\ e.items = c.items /\ e.outcome = o
         /\ \A i \in c.items : i.level <= e.level
  BY <1>2, <1>6
<1>14. Writes(c) => (Made(c) <=> o = "success")
  BY <1>2, <1>3 DEF Made
<1>15. ~Writes(c) => ~Made(c)
  BY DEF Made
<1>16. o = "success" =>
         /\ \E e \in Of(audit, a) \cup B :
              /\ Is(e, TryOf(a), c) /\ e.items = c.items /\ e.outcome = "success"
              /\ \A i \in c.items : i.level <= e.level
         /\ Writes(c) => Made(c)
  BY <1>2, <1>13, <1>14
<1>17. o = "denied" /\ Writes(c) =>
         \E e \in Of(audit, a) \cup B : Is(e, TryOf(a), c) /\ e.outcome = "denied"
  BY <1>2, <1>13
<1>18. o \notin {"success", "error"} => ~Made(c)
  BY <1>14, <1>15
<1>19. /\ c.tool = call[a].tool /\ c.ticket = call[a].ticket /\ c.items = call[a].items
       /\ [c EXCEPT !.at = "done", !.outcome = o] = [call[a] EXCEPT !.at = "done", !.outcome = o]
       /\ Running(c)
  BY <1>1, <1>2
<1>20. ActorInv(a, c, TryOf(a), Of(effects, a) \cup F, Of(audit, a) \cup B, Of(reports, a))
  BY <1>2, <1>10, <1>12
<1>. QED
  BY <1>1, <1>4, <1>8, <1>9, <1>16, <1>17, <1>18, <1>19, <1>20, FinishInv

LEMMA ReadLoggedInv ==
  ASSUME ConnectorInv, Elsewhere, NEW a \in Actors, ReadLogged(a)
  PROVE  ConnectorInv'
<1>1. /\ UNCHANGED <<doc, changes, revoked, failures, disabled, tries, effects, modelCalls>>
      /\ call[a].at = "audit" /\ ~Writes(call[a]) /\ Finish(a, "success")
      /\ audit' = audit \cup {RecordOf(a, call[a], "success", HighestLevel(call[a].items))}
  BY DEF ReadLogged, Writes
<1>2. PICK l : l = HighestLevel(call[a].items)
  OBVIOUS
<1>3. call[a].items \in SUBSET ReadItem
  BY <1>1, RunningActor DEF Running, Call
<1>4. l \in Levels /\ \A i \in call[a].items : i.level <= l
  BY <1>2, <1>3, HighestLevelIs
<1>. QED
  BY <1>1, <1>2, <1>4, LoggedInv

LEMMA WriteLoggedInv ==
  ASSUME ConnectorInv, Elsewhere, NEW a \in Actors, WriteLogged(a)
  PROVE  ConnectorInv'
<1>1. PICK o : o = IF call[a].decision = "deny" THEN "denied" ELSE "success"
  OBVIOUS
<1>2. /\ UNCHANGED <<doc, changes, revoked, failures, disabled, tries, effects, modelCalls>>
      /\ call[a].at = "audit" /\ Writes(call[a]) /\ Finish(a, o)
      /\ audit' = audit \cup {RecordOf(a, call[a], o, 0)}
  BY <1>1 DEF WriteLogged, Writes
<1>3. o \in {"success", "denied"} /\ (o = "denied" <=> call[a].decision = "deny")
  BY <1>1
<1>4. call[a].items = {}
  BY <1>2, RunningActor DEF Running
<1>5. 0 \in Levels /\ \A i \in call[a].items : i.level <= 0
  BY <1>4 DEF Levels
<1>. QED
  BY <1>2, <1>3, <1>5, LoggedInv

\* The write of a call as the provider takes it.
LEMMA EffectIs ==
  ASSUME NEW a \in Actors, NEW c \in Call, c.tool \in Tools, TryOf(a) \in 0 .. MaxTries
  PROVE  LET e == EffectOf(a, c) IN
         e \in Effect /\ e.actor = a /\ Is(e, TryOf(a), c)
<1>1. PICK e, n, tool, ticket, new :
        /\ e = EffectOf(a, c) /\ n = TryOf(a) /\ tool = c.tool /\ ticket = c.ticket
        /\ new = (c.tool \in GmailMakes \cup GCalMakes \cup JiraMakes)
  OBVIOUS
<1>2. tool \in Tools /\ ticket \in Tickets \cup {NoTicket} /\ n \in 0 .. MaxTries
  BY <1>1 DEF Call
<1>3. new \in BOOLEAN
  BY <1>1
<1>4. e = [actor |-> a, try |-> n, tool |-> tool, ticket |-> ticket, new |-> new]
  BY <1>1 DEF EffectOf
<1>5. e \in Effect
  BY <1>2, <1>3, <1>4 DEF Effect
<1>6. e.actor = a /\ Is(e, n, c)
  BY <1>1, <1>4 DEF Is
<1>. QED
  BY <1>1, <1>5, <1>6

\* The actor after its write.
LEMMA Performed ==
  ASSUME ConnectorInv, NEW a \in Actors, call[a].at = "provider", Writes(call[a])
  PROVE  LET d == [call[a] EXCEPT !.at = "audit"]
             F == {EffectOf(a, call[a])}
         IN  /\ ActorInv(a, d, TryOf(a), Of(effects, a) \cup F, Of(audit, a), Of(reports, a))
             /\ F \in SUBSET Effect
             /\ \A x \in F : x.actor = a /\ x.tool = call[a].tool /\ x.ticket = call[a].ticket
             /\ d \in Call /\ d.at = "audit" /\ d.tool = call[a].tool
             /\ d.ticket = call[a].ticket /\ d.items = call[a].items
<1>1. PICK c, n, e, d : /\ c = call[a] /\ n = TryOf(a) /\ e = EffectOf(a, c)
                        /\ d = [c EXCEPT !.at = "audit"]
  OBVIOUS
<1>2. n \in Nat /\ n \in 0 .. MaxTries
  BY <1>1, TryOfIs
<1>3. /\ ActorInv(a, c, n, Of(effects, a), Of(audit, a), Of(reports, a))
      /\ c \in Call /\ c.tool \in Tools
  BY <1>1, RunningActor DEF Running
<1>4. e \in Effect /\ e.actor = a /\ Is(e, n, c)
  BY <1>1, <1>2, <1>3, EffectIs
<1>5. c.at = "provider" /\ Writes(c)
  BY <1>1
<1>6. ActorInv(a, d, n, Of(effects, a) \cup {e}, Of(audit, a), Of(reports, a))
  BY <1>1, <1>2, <1>3, <1>4, <1>5, CallPerforms
<1>7. /\ d \in Call /\ d.at = "audit" /\ d.tool = c.tool /\ d.ticket = c.ticket
      /\ d.items = c.items
  BY <1>1, <1>3 DEF Call
<1>. QED
  BY <1>1, <1>4, <1>6, <1>7 DEF Is

LEMMA PerformWriteInv ==
  ASSUME ConnectorInv, Elsewhere, NEW a \in Actors, PerformWrite(a)
  PROVE  ConnectorInv'
<1>1. /\ UNCHANGED <<doc, changes, revoked, failures, disabled, tries, audit, reports,
                     modelCalls>>
      /\ call[a].at = "provider" /\ Writes(call[a])
      /\ effects' = effects \cup {EffectOf(a, call[a])}
      /\ call' = [call EXCEPT ![a].at = "audit"]
  BY DEF PerformWrite, Writes
<1>2. Around /\ Running(call[a])
  BY <1>1, FailsKeeps DEF Around, Elsewhere, ConnectorInv, WorldInv, Running
<1>3. PICK d, F, B, S : /\ d = [call[a] EXCEPT !.at = "audit"] /\ F = {EffectOf(a, call[a])}
                        /\ B = {} /\ S = {}
  OBVIOUS
<1>4. /\ ActorInv(a, d, TryOf(a), Of(effects, a) \cup F, Of(audit, a), Of(reports, a))
      /\ F \in SUBSET Effect
      /\ \A x \in F : x.actor = a /\ x.tool = call[a].tool /\ x.ticket = call[a].ticket
      /\ d \in Call /\ d.at = "audit" /\ d.tool = call[a].tool
      /\ d.ticket = call[a].ticket
  BY <1>1, <1>3, Performed
<1>5. call' = [call EXCEPT ![a] = d]
  BY <1>1, <1>3 DEF ConnectorInv, ActorsInv
<1>6. /\ B \in SUBSET Record /\ S \in SUBSET Record /\ d.at # "idle"
      /\ effects' = effects \cup F /\ audit' = audit \cup B /\ reports' = reports \cup S
  BY <1>1, <1>3, <1>4
<1>7. \A x \in F \cup B \cup S :
        x.actor = a /\ x.tool = call[a].tool /\ x.ticket = call[a].ticket
  BY <1>3, <1>4
<1>8. ActorInv(a, d, TryOf(a), Of(effects, a) \cup F, Of(audit, a) \cup B, Of(reports, a) \cup S)
  <2>1. Of(audit, a) \cup B = Of(audit, a) /\ Of(reports, a) \cup S = Of(reports, a)
    BY <1>3
  <2>. QED
    BY <1>4, <2>1
<1>. QED
  BY <1>2, <1>4, <1>5, <1>6, <1>7, <1>8, CallStepInv

LEMMA WriteFailsInv ==
  ASSUME ConnectorInv, Elsewhere, NEW a \in Actors, WriteFails(a)
  PROVE  ConnectorInv'
<1>1. /\ UNCHANGED <<doc, changes, revoked, disabled, tries, audit, modelCalls>>
      /\ call[a].at = "provider" /\ Writes(call[a]) /\ Fails /\ Finish(a, "error")
  BY DEF WriteFails, Writes
<1>2. Around /\ Running(call[a])
  BY <1>1, FailsKeeps DEF Around, Elsewhere, ConnectorInv, WorldInv, Running
<1>3. "error" \in Outcomes \ {"success"}
  BY DEF Outcomes
<1>4. CASE effects' = effects
  <2>1. UNCHANGED <<effects, audit>>
    BY <1>1, <1>4
  <2>. QED
    BY <1>1, <1>2, <1>3, <2>1, FinishPlain
<1>5. CASE effects' = effects \cup {EffectOf(a, call[a])}
  <2>1. PICK d, F, B : /\ d = [call[a] EXCEPT !.at = "audit"] /\ F = {EffectOf(a, call[a])}
                       /\ B = {}
    OBVIOUS
  <2>2. /\ ActorInv(a, d, TryOf(a), Of(effects, a) \cup F, Of(audit, a), Of(reports, a))
        /\ F \in SUBSET Effect
        /\ \A x \in F : x.actor = a /\ x.tool = call[a].tool /\ x.ticket = call[a].ticket
        /\ d \in Call /\ d.at = "audit" /\ d.tool = call[a].tool
        /\ d.ticket = call[a].ticket /\ d.items = call[a].items
    BY <1>1, <2>1, Performed
  <2>3. call[a] \in Call
    BY <1>2, RunningActor
  <2>4. [d EXCEPT !.at = "done", !.outcome = "error"] =
          [call[a] EXCEPT !.at = "done", !.outcome = "error"]
    <3>1. PICK c : c = call[a]
      OBVIOUS
    <3>. QED
      BY <2>1, <2>3, <3>1 DEF Call
  <2>5. /\ B \in SUBSET Record /\ Running(d)
        /\ effects' = effects \cup F /\ audit' = audit \cup B
        /\ \A x \in F \cup B : x.actor = a /\ x.tool = call[a].tool /\ x.ticket = call[a].ticket
    BY <1>1, <1>5, <2>1, <2>2 DEF Running
  <2>6. ActorInv(a, d, TryOf(a), Of(effects, a) \cup F, Of(audit, a) \cup B, Of(reports, a))
    <3>1. Of(audit, a) \cup B = Of(audit, a)
      BY <2>1
    <3>. QED
      BY <2>2, <3>1
  <2>7. "error" \in Outcomes
    BY <1>3
  <2>. QED
    BY <1>1, <1>2, <2>2, <2>4, <2>5, <2>6, <2>7, FinishInv
<1>. QED
  BY <1>4, <1>5 DEF WriteFails

LEMMA CallStepKeeps ==
  ASSUME ConnectorInv, Elsewhere, NEW a \in Actors, CallStep(a)
  PROVE  ConnectorInv'
BY HookAnswersInv, PolicyAnswersInv, EndsPlainly, FetchInv, ClassifyInv, ReadLoggedInv,
   PerformWriteInv, WriteFailsInv, WriteLoggedInv DEF CallStep
-----------------------------------------------------------------------------
(* The steps of agents and of the world.                                   *)

LEMMA InvokeInv ==
  ASSUME ConnectorInv, Elsewhere, NEW a \in Agents, NEW tool \in AgentTools, Invoke(a, tool)
  PROVE  ConnectorInv'
<1>1. /\ UNCHANGED <<doc, changes, revoked, failures, disabled, effects, audit, reports,
                     modelCalls, handler, delivered, activity, poller, poll>>
      /\ tries[a] < MaxTries /\ tries' = [tries EXCEPT ![a] = @ + 1]
      /\ \/ call[a].at = "idle"
         \/ call[a].at = "done" /\ call[a].outcome # "success" /\ call[a].tool = tool
      /\ call' = [call EXCEPT ![a] = [NoCall EXCEPT !.tool = tool, !.at = "hook"]]
  BY DEF Invoke, Elsewhere, trackingVars, pollerVars
<1>2. a \in Actors /\ a \notin Handlers /\ a \notin Polls /\ tool \in Tools
  BY ActorsApart, ConnectorAssumption DEF Actors
<1>3. PICK c, d, n, E, A, R :
        /\ c = call[a] /\ d = [NoCall EXCEPT !.tool = tool, !.at = "hook"] /\ n = TryOf(a)
        /\ E = Of(effects, a) /\ A = Of(audit, a) /\ R = Of(reports, a)
  OBVIOUS
<1>4. ActorInv(a, c, n, E, A, R)
  BY <1>2, <1>3 DEF ConnectorInv, ActorsInv
<1>5. n = tries[a] /\ n \in 0 .. MaxTries /\ n \in Nat
  BY <1>3, TryOfIs DEF TryOf
<1>6. tries' \in [Agents -> 0 .. MaxTries] /\ tries'[a] = n + 1
      /\ \A b \in Agents \ {a} : tries'[b] = tries[b]
  BY <1>1, <1>5, Bounds DEF ConnectorInv, WorldInv
<1>7. TryOf(a)' = n + 1
  BY <1>6 DEF TryOf
<1>8. d = [tool |-> tool, ticket |-> NoTicket, at |-> "hook", decision |-> "none", todo |-> {},
           items |-> {}, outcome |-> "none"]
  BY <1>3 DEF NoCall
<1>9. /\ d \in Call /\ d.tool = tool /\ d.ticket = NoTicket /\ d.items = {} /\ d.at = "hook"
  BY <1>2, <1>8 DEF Call
<1>10. \A r \in E \cup R : r.try \in 0 .. n
  BY <1>4 DEF ActorInv, CountInv
<1>11. \A r \in E \cup R : ~Is(r, n + 1, d)
  BY <1>5, <1>10 DEF Is
<1>12. ~Made(c)
  BY <1>1, <1>3 DEF Made
<1>13. n + 1 \in Nat /\ n <= n + 1
  BY <1>5
<1>14. ActorInv(a, d, n + 1, E, A, R)
  <2>1. d.tool \in Tools
    BY <1>2, <1>9
  <2>2. a \in Polls => d.tool \in ReadTools
    BY <1>2
  <2>. QED
    BY <1>4, <1>5, <1>9, <1>11, <1>12, <1>13, <2>1, <2>2, CallBegins
<1>15. PICK F, B, S : F = {} /\ B = {} /\ S = {}
  OBVIOUS
<1>16. /\ effects' = effects \cup F /\ audit' = audit \cup B /\ reports' = reports \cup S
       /\ \A x \in F \cup B \cup S : x.actor = a
  BY <1>1, <1>15
<1>17. ActorInv(a, d, TryOf(a)', Of(effects, a) \cup F, Of(audit, a) \cup B, Of(reports, a) \cup S)
  BY <1>3, <1>7, <1>14, <1>15
<1>18. WorldInv'
  BY <1>1, <1>6 DEF ConnectorInv, WorldInv
<1>19. PollsInv'
  BY <1>1 DEF ConnectorInv, PollsInv, ServiceInv, Starting
<1>20. ActivityInv(activity', audit') /\ DOMAIN handler' = Handlers
       /\ \A h \in Handlers \ {a} : handler'[h] = handler[h]
  BY <1>1 DEF ConnectorInv, ActorsInv
<1>21. call' = [call EXCEPT ![a] = d]
  BY <1>1, <1>3
<1>. QED
  BY <1>2, <1>6, <1>16, <1>17, <1>18, <1>19, <1>20, <1>21, ActorStep

\* An actor that has handed on what it has read.
LEMMA HandsOn ==
  ASSUME NEW a, NEW c, NEW n, NEW E, NEW A, NEW R, ActorInv(a, c, n, E, A, R)
  PROVE  ActorInv(a, [c EXCEPT !.items = {}], n, E, A, R)
<1>1. PICK d : d = [c EXCEPT !.items = {}]
  OBVIOUS
<1>2. c \in Call
  BY DEF ActorInv, CallInv
<1>3. /\ d \in Call /\ d.tool = c.tool /\ d.ticket = c.ticket /\ d.at = c.at /\ d.items = {}
      /\ d.decision = c.decision /\ d.outcome = c.outcome
  BY <1>1, <1>2 DEF Call
<1>4. /\ Writes(d) <=> Writes(c)
      /\ Made(d) <=> Made(c)
      /\ Running(d) <=> Running(c)
      /\ \A r : Is(r, n, d) <=> Is(r, n, c)
  BY <1>3 DEF Writes, Made, Running, Is
<1>5. CallInv(d, n, E, A, R)
  BY <1>3, <1>4 DEF ActorInv, CallInv
<1>6. a \in Agents => CountInv(d, n, E, R)
  BY <1>4 DEF ActorInv, CountInv
<1>. QED
  BY <1>1, <1>3, <1>4, <1>5, <1>6 DEF ActorInv

\* What the router resolves.
LEMMA Routed ==
  ASSUME NEW policy, NEW level, NEW model \in {"external", "self_hosted"}
  PROVE  Route(policy, model, level) \in {"external", "self_hosted"}
  BY DEF Route

LEMMA CallModelInv ==
  ASSUME ConnectorInv, Elsewhere, NEW a \in Agents, NEW model \in {"external", "self_hosted"},
         CallModel(a, model)
  PROVE  ConnectorInv'
<1>1. PICK items, route : /\ items = call[a].items
                          /\ route = Route(doc, model, HighestLevel(items))
  OBVIOUS
<1>2. /\ UNCHANGED <<doc, changes, revoked, failures, disabled, tries, effects, audit, reports,
                     handler, delivered, activity, poller, poll>>
      /\ call' = [call EXCEPT ![a].items = {}]
      /\ modelCalls' = modelCalls \cup {[items |-> items, model |-> route]}
  BY <1>1 DEF CallModel, Elsewhere, trackingVars, pollerVars
<1>3. a \in Actors /\ a \notin Handlers
  BY ActorsApart DEF Actors
<1>4. ActorInv(a, call[a], TryOf(a), Of(effects, a), Of(audit, a), Of(reports, a))
  BY <1>3 DEF ConnectorInv, ActorsInv
<1>5. items \in SUBSET ReadItem
  BY <1>1, <1>4 DEF ActorInv, CallInv, Call
<1>6. route \in {"external", "self_hosted"}
  BY <1>1, Routed
<1>7. WorldInv'
  <2>1. modelCalls' \subseteq [items : SUBSET ReadItem, model : {"external", "self_hosted"}]
    BY <1>2, <1>5, <1>6 DEF ConnectorInv, WorldInv
  <2>. QED
    BY <1>2, <2>1 DEF ConnectorInv, WorldInv
<1>8. PollsInv'
  BY <1>2 DEF ConnectorInv, PollsInv, ServiceInv, Starting
<1>9. PICK d, F, B, S : d = [call[a] EXCEPT !.items = {}] /\ F = {} /\ B = {} /\ S = {}
  OBVIOUS
<1>10. ActorInv(a, d, TryOf(a), Of(effects, a), Of(audit, a), Of(reports, a))
  <2>1. PICK c, n, E, A, R :
          /\ c = call[a] /\ n = TryOf(a)
          /\ E = Of(effects, a) /\ A = Of(audit, a) /\ R = Of(reports, a)
    OBVIOUS
  <2>2. ActorInv(a, [c EXCEPT !.items = {}], n, E, A, R)
    BY <1>4, <2>1, HandsOn
  <2>. QED
    BY <1>9, <2>1, <2>2
<1>11. ActorInv(a, d, TryOf(a)', Of(effects, a) \cup F, Of(audit, a) \cup B, Of(reports, a) \cup S)
  <2>1. TryOf(a)' = TryOf(a)
    BY <1>2 DEF TryOf
  <2>2. /\ Of(effects, a) \cup F = Of(effects, a) /\ Of(audit, a) \cup B = Of(audit, a)
        /\ Of(reports, a) \cup S = Of(reports, a)
    BY <1>9
  <2>. QED
    BY <1>10, <2>1, <2>2
<1>12. /\ effects' = effects \cup F /\ audit' = audit \cup B /\ reports' = reports \cup S
       /\ \A x \in F \cup B \cup S : x.actor = a
  BY <1>2, <1>9
<1>13. ActivityInv(activity', audit') /\ DOMAIN handler' = Handlers
       /\ \A h \in Handlers \ {a} : handler'[h] = handler[h]
  BY <1>2 DEF ConnectorInv, ActorsInv
<1>14. \A b \in Agents \ {a} : tries'[b] = tries[b]
  BY <1>2
<1>15. call' = [call EXCEPT ![a] = d]
  BY <1>2, <1>9 DEF ConnectorInv, ActorsInv
<1>. QED
  BY <1>3, <1>7, <1>8, <1>11, <1>12, <1>13, <1>14, <1>15, ActorStep

\* What leaves the actors alone.
LEMMA ActorsStay ==
  ASSUME ConnectorInv, UNCHANGED <<call, tries, effects, audit, reports, handler>>,
         ActivityInv(activity', audit')
  PROVE  ActorsInv'
<1>1. \A a : TryOf(a)' = TryOf(a)
  BY DEF TryOf
<1>2. ASSUME NEW a \in Actors
      PROVE  ActorInv(a, call'[a], TryOf(a)', Of(effects', a), Of(audit', a), Of(reports', a))
  BY <1>1 DEF ConnectorInv, ActorsInv
<1>3. ASSUME NEW h \in Handlers
      PROVE  HandlerInv(handler'[h], call'[h], Of(effects', h), Of(audit', h), Of(reports', h))
  BY DEF ConnectorInv, ActorsInv
<1>4. call' \in [Actors -> Call] /\ DOMAIN handler' = Handlers /\ ActivityInv(activity', audit')
  BY DEF ConnectorInv, ActorsInv
<1>. QED
  BY <1>2, <1>3, <1>4 DEF ActorsInv

LEMMA WorldKeeps ==
  ASSUME ConnectorInv, Elsewhere, World
  PROVE  ConnectorInv'
<1>1. UNCHANGED <<failures, disabled, call, tries, effects, audit, reports, modelCalls,
                  handler, delivered, activity, poller, poll>>
  BY DEF World, ChangePolicy, Revoke, Elsewhere, trackingVars, pollerVars
<1>2. doc' \in Documents /\ changes' \in 0 .. MaxDocuments /\ revoked' \subseteq Types
  BY Bounds, ConnectorAssumption DEF World, ChangePolicy, Revoke, ConnectorInv, WorldInv
<1>3. WorldInv'
  BY <1>1, <1>2 DEF ConnectorInv, WorldInv
<1>4. PollsInv'
  BY <1>1 DEF ConnectorInv, PollsInv, ServiceInv, Starting
<1>5. ActivityInv(activity', audit')
  BY <1>1 DEF ConnectorInv, ActorsInv
<1>6. ActorsInv'
  BY <1>1, <1>5, ActorsStay
<1>. QED
  BY <1>3, <1>4, <1>6 DEF ConnectorInv

-----------------------------------------------------------------------------
(* The steps of the webhook and of the handlers.                           *)

LEMMA WorldStays ==
  ASSUME ConnectorInv, UNCHANGED pollerVars,
         UNCHANGED <<doc, changes, revoked, disabled, tries, effects, audit, reports, modelCalls>>,
         Fails \/ UNCHANGED failures,
         delivered' \in [Deliveries -> 0 .. MaxDeliveries]
  PROVE  WorldInv' /\ PollsInv'
<1>1. WorldInv'
  BY FailsKeeps DEF ConnectorInv, WorldInv
<1>2. PollsInv'
  BY DEF ConnectorInv, PollsInv, ServiceInv, Starting, pollerVars
<1>. QED
  BY <1>1, <1>2

\* A handler moves on; the call it has now may be another one.
LEMMA HandlerMoves ==
  ASSUME ConnectorInv, WorldInv', PollsInv',
         UNCHANGED <<tries, effects, audit, reports>>, NEW h \in Handlers,
         NEW d, call' \in [Actors -> Call], call'[h] = d,
         \A b \in Actors \ {h} : call'[b] = call[b],
         ActorInv(h, d, TryOf(h), Of(effects, h), Of(audit, h), Of(reports, h)),
         NEW s, handler' = [handler EXCEPT ![h] = s],
         HandlerInv(s, d, Of(effects, h), Of(audit, h), Of(reports, h)),
         ActivityInv(activity', audit')
  PROVE  ConnectorInv'
<1>1. \A a : TryOf(a)' = TryOf(a)
  BY DEF TryOf
<1>2. ASSUME NEW a \in Actors
      PROVE  ActorInv(a, call'[a], TryOf(a)', Of(effects', a), Of(audit', a), Of(reports', a))
  <2>1. CASE a = h
    BY <1>1, <2>1
  <2>2. CASE a # h
    <3>1. ActorInv(a, call[a], TryOf(a), Of(effects, a), Of(audit, a), Of(reports, a))
      BY DEF ConnectorInv, ActorsInv
    <3>. QED
      BY <1>1, <2>2, <3>1
  <2>. QED
    BY <2>1, <2>2
<1>3. /\ handler'[h] = s /\ DOMAIN handler' = Handlers
      /\ \A g \in Handlers \ {h} : handler'[g] = handler[g]
  BY DEF ConnectorInv, ActorsInv
<1>4. ASSUME NEW g \in Handlers
      PROVE  HandlerInv(handler'[g], call'[g], Of(effects', g), Of(audit', g), Of(reports', g))
  <2>1. CASE g = h
    BY <1>3, <2>1
  <2>2. CASE g # h
    <3>1. HandlerInv(handler[g], call[g], Of(effects, g), Of(audit, g), Of(reports, g))
      BY DEF ConnectorInv, ActorsInv
    <3>2. call'[g] = call[g]
      BY <2>2 DEF Actors
    <3>. QED
      BY <1>3, <2>2, <3>1, <3>2
  <2>. QED
    BY <2>1, <2>2
<1>5. ActorsInv'
  BY <1>2, <1>3, <1>4 DEF ActorsInv
<1>. QED
  BY <1>5 DEF ConnectorInv

\* A handler goes on without a call.
LEMMA HandlerGoesOn ==
  ASSUME ConnectorInv, WorldInv', PollsInv',
         UNCHANGED <<call, tries, effects, audit, reports>>, NEW h \in Handlers,
         NEW s, handler' = [handler EXCEPT ![h] = s],
         HandlerInv(s, call[h], Of(effects, h), Of(audit, h), Of(reports, h)),
         ActivityInv(activity', audit')
  PROVE  ConnectorInv'
<1>1. h \in Actors
  BY DEF Actors
<1>2. PICK d : d = call[h]
  OBVIOUS
<1>3. /\ call' \in [Actors -> Call] /\ call'[h] = d /\ \A b \in Actors \ {h} : call'[b] = call[b]
      /\ ActorInv(h, d, TryOf(h), Of(effects, h), Of(audit, h), Of(reports, h))
  BY <1>1, <1>2 DEF ConnectorInv, ActorsInv
<1>4. HandlerInv(s, d, Of(effects, h), Of(audit, h), Of(reports, h))
  BY <1>2
<1>. QED
  BY <1>3, <1>4, HandlerMoves

\* A handler makes its next call.
LEMMA HandlerCalls ==
  ASSUME ConnectorInv, WorldInv', PollsInv',
         UNCHANGED <<tries, effects, audit, reports>>, NEW h \in Handlers,
         NEW d \in Call, call' = [call EXCEPT ![h] = d], d.tool \in Tools, d.items = {},
         d.at = "policy" \/ (d.at = "done" /\ d.outcome = "disabled"),
         \A r \in Of(effects, h) \cup Of(reports, h) : ~Is(r, TryOf(h), d),
         NEW s, handler' = [handler EXCEPT ![h] = s],
         HandlerInv(s, d, Of(effects, h), Of(audit, h), Of(reports, h)),
         ActivityInv(activity', audit')
  PROVE  ConnectorInv'
<1>1. h \in Actors /\ h \notin Agents /\ h \notin Polls
  BY ActorsApart DEF Actors
<1>2. PICK c, n, E, A, R :
        /\ c = call[h] /\ n = TryOf(h)
        /\ E = Of(effects, h) /\ A = Of(audit, h) /\ R = Of(reports, h)
  OBVIOUS
<1>3. n \in Nat /\ n <= n
  BY <1>2, TryOfIs
<1>4. ActorInv(h, c, n, E, A, R)
  BY <1>1, <1>2 DEF ConnectorInv, ActorsInv
<1>5. /\ \A r \in E \cup R : ~Is(r, n, d)
      /\ \/ d.at = "policy"
         \/ d.at = "hook" /\ d.ticket = NoTicket
         \/ d.at = "done" /\ d.outcome \notin {"success", "denied"}
      /\ h \in Agents => ~Made(c)
      /\ h \in Polls => d.tool \in ReadTools
  BY <1>1, <1>2
<1>6. ActorInv(h, d, n, E, A, R)
  BY <1>3, <1>4, <1>5, CallBegins
<1>7. call' \in [Actors -> Call] /\ call'[h] = d /\ \A b \in Actors \ {h} : call'[b] = call[b]
  BY <1>1 DEF ConnectorInv, ActorsInv
<1>8. ActorInv(h, d, TryOf(h), Of(effects, h), Of(audit, h), Of(reports, h))
  BY <1>2, <1>6
<1>. QED
  BY <1>7, <1>8, HandlerMoves

\* The handler stops.
LEMMA HandlerRests ==
  ASSUME NEW s, NEW c, NEW E, NEW A, NEW R, HandlerInv(s, c, E, A, R), s # Idle
  PROVE  HandlerInv(Idle, c, E, A, R)
  BY DEF HandlerInv

\* The handler is done with a ticket that has been commented.
LEMMA TicketDone ==
  ASSUME NEW s, NEW c, NEW E, NEW A, NEW R, HandlerInv(s, c, E, A, R), s # Idle,
         Commented(A, s.todo[1]), NEW rest, rest = Tail(s.todo)
  PROVE  /\ rest = <<>> => \A i \in DOMAIN s.keys : Commented(A, s.keys[i])
         /\ rest # <<>> =>
              /\ Head(rest) \in Tickets
              /\ \A r \in E \cup R : r.ticket # Head(rest)
              /\ \A d : d.tool = "jira_comment" /\ d.ticket = Head(rest) /\ d.at # "idle" =>
                   HandlerInv([s EXCEPT !.todo = rest, !.now = "comment"], d, E, A, R)
<1>1. /\ s \in Handler /\ s.todo # <<>> /\ s.todo \in Seq(Tickets) /\ s.keys \in Seq(Tickets)
      /\ \A i, j \in DOMAIN s.todo : s.todo[i] = s.todo[j] => i = j
      /\ \A i \in DOMAIN s.keys :
           Commented(A, s.keys[i]) \/ \E j \in DOMAIN s.todo : s.todo[j] = s.keys[i]
      /\ \A r \in E \cup R : \A j \in DOMAIN s.todo : r.ticket = s.todo[j] => j = 1
  BY DEF HandlerInv, Handler
<1>2. PICK todo : todo = s.todo
  OBVIOUS
<1>3. /\ rest \in Seq(Tickets) /\ Len(rest) = Len(todo) - 1 /\ Len(todo) \in Nat \ {0}
      /\ DOMAIN todo = 1 .. Len(todo) /\ DOMAIN rest = 1 .. Len(rest)
      /\ \A i \in DOMAIN rest : i + 1 \in DOMAIN todo /\ rest[i] = todo[i + 1]
      /\ \A i \in DOMAIN todo \ {1} : i - 1 \in DOMAIN rest /\ rest[i - 1] = todo[i]
  BY <1>1, <1>2
<1>4. \A i \in DOMAIN s.keys :
        Commented(A, s.keys[i]) \/ \E j \in DOMAIN rest : rest[j] = s.keys[i]
  <2>. SUFFICES ASSUME NEW i \in DOMAIN s.keys, ~Commented(A, s.keys[i])
                PROVE  \E j \in DOMAIN rest : rest[j] = s.keys[i]
    OBVIOUS
  <2>1. PICK j \in DOMAIN todo : todo[j] = s.keys[i]
    BY <1>1, <1>2
  <2>2. j # 1
    BY <1>2, <2>1
  <2>. QED
    BY <1>3, <2>1, <2>2
<1>5. ASSUME rest = <<>> PROVE \A i \in DOMAIN s.keys : Commented(A, s.keys[i])
  BY <1>3, <1>4, <1>5
<1>6. ASSUME rest # <<>>
      PROVE  Head(rest) \in Tickets /\ Head(rest) = rest[1] /\ 1 \in DOMAIN rest
  BY <1>3, <1>6
<1>7. \A r \in E \cup R : \A j \in DOMAIN rest : r.ticket # rest[j]
  <2>. SUFFICES ASSUME NEW r \in E \cup R, NEW j \in DOMAIN rest, r.ticket = rest[j]
                PROVE  FALSE
    OBVIOUS
  <2>1. j + 1 \in DOMAIN todo /\ r.ticket = todo[j + 1]
    BY <1>3
  <2>2. j + 1 = 1
    BY <1>1, <1>2, <2>1
  <2>. QED
    BY <1>3, <2>2
<1>8. \A i, j \in DOMAIN rest : rest[i] = rest[j] => i = j
  <2>. SUFFICES ASSUME NEW i \in DOMAIN rest, NEW j \in DOMAIN rest, rest[i] = rest[j]
                PROVE  i = j
    OBVIOUS
  <2>1. i + 1 \in DOMAIN todo /\ j + 1 \in DOMAIN todo /\ todo[i + 1] = todo[j + 1]
    BY <1>3
  <2>2. i + 1 = j + 1
    BY <1>1, <1>2, <2>1
  <2>. QED
    BY <1>3, <2>2
<1>9. ASSUME rest # <<>>, NEW d, d.tool = "jira_comment", d.ticket = Head(rest), d.at # "idle"
      PROVE  HandlerInv([s EXCEPT !.todo = rest, !.now = "comment"], d, E, A, R)
  <2>1. PICK z : z = [s EXCEPT !.todo = rest, !.now = "comment"]
    OBVIOUS
  <2>2. z \in Handler /\ z.todo = rest /\ z.now = "comment" /\ z.keys = s.keys
    BY <1>1, <1>3, <2>1 DEF Handler
  <2>3. \A e \in E : e.tool = "jira_transition" => CommentMade(A, e.ticket)
    BY DEF HandlerInv
  <2>4. HandlerInv(z, d, E, A, R)
    BY <1>4, <1>6, <1>7, <1>8, <1>9, <2>2, <2>3 DEF HandlerInv
  <2>. QED
    BY <2>1, <2>4
<1>10. rest # <<>> =>
         \A d : d.tool = "jira_comment" /\ d.ticket = Head(rest) /\ d.at # "idle" =>
           HandlerInv([s EXCEPT !.todo = rest, !.now = "comment"], d, E, A, R)
  BY <1>9, Zenon
<1>11. rest # <<>> => \A r \in E \cup R : r.ticket # Head(rest)
  BY <1>6, <1>7
<1>. QED
  BY <1>5, <1>6, <1>10, <1>11, Zenon

LEMMA HandlerTools == {"jira_comment", "jira_transition"} \subseteq Tools \ ReadTools
  BY ToolFacts

\* The next ticket, or the end of the merge.
LEMMA NextTicketInv ==
  ASSUME ConnectorInv, WorldInv', PollsInv',
         UNCHANGED <<tries, effects, audit, reports>>, NEW h \in Handlers,
         handler[h] # Idle, Commented(Of(audit, h), handler[h].todo[1]), NextTicket(h)
  PROVE  ConnectorInv'
<1>1. PICK s, rest, E, A, R :
        /\ s = handler[h] /\ rest = Tail(s.todo)
        /\ E = Of(effects, h) /\ A = Of(audit, h) /\ R = Of(reports, h)
  OBVIOUS
<1>2. HandlerInv(s, call[h], E, A, R) /\ s # Idle /\ ActivityInv(activity, audit)
  BY <1>1 DEF ConnectorInv, ActorsInv
<1>3. Commented(A, s.todo[1])
  BY <1>1
<1>4. /\ rest = <<>> => \A i \in DOMAIN s.keys : Commented(A, s.keys[i])
      /\ rest # <<>> =>
           /\ Head(rest) \in Tickets
           /\ \A r \in E \cup R : r.ticket # Head(rest)
           /\ \A d : d.tool = "jira_comment" /\ d.ticket = Head(rest) /\ d.at # "idle" =>
                HandlerInv([s EXCEPT !.todo = rest, !.now = "comment"], d, E, A, R)
  <2>1. rest = Tail(s.todo)
    BY <1>1
  <2>. QED
    BY <1>2, <1>3, <2>1, TicketDone, Zenon
<1>5. CASE rest = <<>>
  <2>1. /\ handler' = [handler EXCEPT ![h] = Idle]
        /\ activity' = activity \cup {Activity("pr_merged", s.keys, h)}
        /\ call' = call
    BY <1>1, <1>5 DEF NextTicket
  <2>2. HandlerInv(Idle, call[h], E, A, R)
    BY <1>2, HandlerRests
  <2>3. ActivityInv(activity', audit')
    <3>1. PICK e : e = Activity("pr_merged", s.keys, h)
      OBVIOUS
    <3>2. e.type = "pr_merged" /\ e.keys = s.keys /\ e.by = h
      BY <3>1 DEF Activity
    <3>3. \A i \in DOMAIN e.keys : Commented(Of(audit, e.by), e.keys[i])
      BY <1>1, <1>4, <1>5, <3>2
    <3>. QED
      BY <1>2, <2>1, <3>1, <3>2, <3>3 DEF ActivityInv, ActivityTypes
  <2>4. UNCHANGED <<call, tries, effects, audit, reports>>
    BY <2>1
  <2>. QED
    BY <1>1, <2>1, <2>2, <2>3, <2>4, HandlerGoesOn
<1>6. CASE rest # <<>>
  <2>1. PICK d, z : /\ d = Entered(h, "jira_comment", Head(rest))
                    /\ z = [s EXCEPT !.todo = rest, !.now = "comment"]
    OBVIOUS
  <2>2. /\ handler' = [handler EXCEPT ![h] = z]
        /\ call' = [call EXCEPT ![h] = d]
        /\ activity' = activity
    <3>1. /\ handler' = [handler EXCEPT ![h].todo = rest, ![h].now = "comment"]
          /\ call' = [call EXCEPT ![h] = d] /\ activity' = activity
      BY <1>1, <1>6, <2>1 DEF NextTicket
    <3>2. handler[h] = s /\ DOMAIN handler = Handlers
      BY <1>1 DEF ConnectorInv, ActorsInv
    <3>3. [handler EXCEPT ![h].todo = rest, ![h].now = "comment"] = [handler EXCEPT ![h] = z]
      BY <2>1, <3>2
    <3>. QED
      BY <3>1, <3>3
  <2>3. /\ d \in Call /\ d.tool = "jira_comment" /\ d.ticket = Head(rest) /\ d.items = {}
        /\ d.at = "policy" \/ (d.at = "done" /\ d.outcome = "disabled")
    <3>1. "jira_comment" \in Tools /\ Head(rest) \in Tickets \cup {NoTicket}
      BY <1>4, <1>6, HandlerTools
    <3>. QED
      BY <2>1, <3>1, EnteredIs
  <2>4. d.tool \in Tools
    BY <2>3, HandlerTools
  <2>5. \A r \in Of(effects, h) \cup Of(reports, h) : ~Is(r, TryOf(h), d)
    BY <1>1, <1>4, <1>6, <2>3 DEF Is
  <2>6. HandlerInv(z, d, Of(effects, h), Of(audit, h), Of(reports, h))
    BY <1>1, <1>4, <1>6, <2>1, <2>3
  <2>7. ActivityInv(activity', audit')
    BY <1>2, <2>2
  <2>. QED
    BY <2>2, <2>3, <2>4, <2>5, <2>6, <2>7, HandlerCalls
<1>. QED
  BY <1>5, <1>6

LEMMA RefuseInv ==
  ASSUME ConnectorInv, UNCHANGED pollerVars, NEW d \in Deliveries, Refuse(d)
  PROVE  ConnectorInv'
<1>1. /\ UNCHANGED <<handler, activity, doc, changes, revoked, failures, disabled, call, tries,
                     effects, audit, reports, modelCalls>>
      /\ delivered[d] < MaxDeliveries /\ delivered' = [delivered EXCEPT ![d] = @ + 1]
  BY DEF Refuse, connectorVars
<1>2. delivered' \in [Deliveries -> 0 .. MaxDeliveries]
  BY <1>1, Bounds DEF ConnectorInv, WorldInv
<1>3. WorldInv' /\ PollsInv'
  BY <1>1, <1>2, WorldStays
<1>4. ActivityInv(activity', audit')
  BY <1>1 DEF ConnectorInv, ActorsInv
<1>5. ActorsInv'
  BY <1>1, <1>4, ActorsStay
<1>. QED
  BY <1>3, <1>5 DEF ConnectorInv

LEMMA KeysAre ==
  ASSUME NEW d \in Deliveries
  PROVE  /\ TicketKeys(d) \in Seq(Tickets)
         /\ \A i, j \in DOMAIN TicketKeys(d) : TicketKeys(d)[i] = TicketKeys(d)[j] => i = j
<1>1. d \in Delivery
  BY TrackingAssumption
<1>2. PICK s : s = d.branch \o d.title
  OBVIOUS
<1>3. s \in Seq(Tickets)
  BY <1>1, <1>2 DEF Delivery
<1>. QED
  BY <1>2, <1>3, DistinctIs DEF TicketKeys

LEMMA AcceptInv ==
  ASSUME ConnectorInv, UNCHANGED pollerVars, NEW d \in Deliveries, NEW h \in Handlers,
         Accept(d, h)
  PROVE  ConnectorInv'
<1>1. PICK type, keys, merge :
        /\ type = EventType(d) /\ keys = TicketKeys(d)
        /\ merge = (type = "pr_merged" /\ keys # <<>>)
  OBVIOUS
<1>2. /\ UNCHANGED <<doc, changes, revoked, failures, disabled, tries, effects, audit, reports,
                     modelCalls>>
      /\ delivered[d] < MaxDeliveries /\ delivered' = [delivered EXCEPT ![d] = @ + 1]
      /\ handler[h] = Idle /\ call[h].at = "idle"
  BY DEF Accept
<1>3. delivered' \in [Deliveries -> 0 .. MaxDeliveries]
  BY <1>2, Bounds DEF ConnectorInv, WorldInv
<1>4. WorldInv' /\ PollsInv'
  BY <1>2, <1>3, WorldStays
<1>5. /\ keys \in Seq(Tickets)
      /\ \A i, j \in DOMAIN keys : keys[i] = keys[j] => i = j
  BY <1>1, KeysAre
<1>6. PICK E, A, R : E = Of(effects, h) /\ A = Of(audit, h) /\ R = Of(reports, h)
  OBVIOUS
<1>7. E = {} /\ R = {}
  BY <1>2, <1>6 DEF ConnectorInv, ActorsInv, HandlerInv
<1>8. ActivityInv(activity, audit) /\ audit' = audit
  BY <1>2 DEF ConnectorInv, ActorsInv
<1>9. CASE type = "pr_merged" /\ keys # <<>>
  <2>1. PICK c, z : /\ c = Entered(h, "jira_comment", Head(keys))
                    /\ z = [of |-> d, keys |-> keys, todo |-> keys, now |-> "comment"]
    OBVIOUS
  <2>2. /\ handler' = [handler EXCEPT ![h] = z]
        /\ call' = [call EXCEPT ![h] = c]
        /\ activity' = activity
    BY <1>1, <1>9, <2>1 DEF Accept
  <2>3. Head(keys) \in Tickets /\ Head(keys) = keys[1]
    BY <1>5, <1>9
  <2>4. /\ c \in Call /\ c.tool = "jira_comment" /\ c.ticket = keys[1] /\ c.items = {}
        /\ c.at = "policy" \/ (c.at = "done" /\ c.outcome = "disabled")
    BY <2>1, <2>3, EnteredIs, HandlerTools
  <2>5. c.tool \in Tools
    BY <2>4, HandlerTools
  <2>6. \A r \in Of(effects, h) \cup Of(reports, h) : ~Is(r, TryOf(h), c)
    BY <1>6, <1>7
  <2>7. z \in Handler /\ z.keys = keys /\ z.todo = keys /\ z.now = "comment"
    BY <1>5, <2>1 DEF Handler
  <2>8. HandlerInv(z, c, E, A, R)
    BY <1>5, <1>7, <1>9, <2>4, <2>7 DEF HandlerInv
  <2>9. HandlerInv(z, c, Of(effects, h), Of(audit, h), Of(reports, h))
    BY <1>6, <2>8
  <2>10. ActivityInv(activity', audit')
    BY <1>8, <2>2
  <2>11. UNCHANGED <<tries, effects, audit, reports>>
    BY <1>2
  <2>. QED
    BY <1>4, <2>2, <2>4, <2>5, <2>6, <2>9, <2>10, <2>11, HandlerCalls
<1>10. CASE ~(type = "pr_merged" /\ keys # <<>>)
  <2>1. PICK e : e = Activity(ActivityType(type), keys, h)
    OBVIOUS
  <2>2. /\ handler' = handler /\ call' = call
        /\ activity' = activity \cup (IF d.event = "pull_request" THEN {e} ELSE {})
    BY <1>1, <1>10, <2>1 DEF Accept
  <2>3. e.type \in ActivityTypes /\ e.keys = keys
        /\ (e.type = "pr_merged" => type = "pr_merged")
    BY <2>1 DEF Activity, ActivityType, ActivityTypes
  <2>4. e.type = "pr_merged" => DOMAIN e.keys = {}
    BY <1>5, <1>10, <2>3
  <2>5. ActivityInv(activity', audit')
    BY <1>8, <2>2, <2>3, <2>4 DEF ActivityInv
  <2>6. UNCHANGED <<call, tries, effects, audit, reports, handler>>
    BY <1>2, <2>2
  <2>7. ActorsInv'
    BY <2>5, <2>6, ActorsStay
  <2>. QED
    BY <1>4, <2>7 DEF ConnectorInv
<1>. QED
  BY <1>9, <1>10

\* What holds around a step of a handler.
LEMMA HandlerAround ==
  ASSUME ConnectorInv, UNCHANGED pollerVars, NEW h \in Handlers, HandlerStep(h)
  PROVE  /\ WorldInv' /\ PollsInv'
         /\ UNCHANGED <<tries, effects, audit, reports>>
         /\ handler[h] # Idle
         /\ h \in Actors /\ h \notin Agents /\ h \notin Polls
<1>1. Undisturbed /\ (Fails \/ UNCHANGED failures)
  BY DEF HandlerStep, CommentAnswered, TransitionChecked, TransitionAnswered, Abort,
         AbortAtPolicy
<1>2. /\ UNCHANGED <<doc, changes, revoked, disabled, tries, effects, audit, reports, modelCalls>>
      /\ UNCHANGED delivered
  BY <1>1 DEF Undisturbed
<1>3. delivered' \in [Deliveries -> 0 .. MaxDeliveries]
  BY <1>2 DEF ConnectorInv, WorldInv
<1>4. WorldInv' /\ PollsInv'
  BY <1>1, <1>2, <1>3, WorldStays
<1>5. Idle.now = "idle"
  BY DEF Idle
<1>6. handler[h] # Idle
  BY <1>5 DEF HandlerStep, CommentAnswered, TransitionChecked, TransitionAnswered, Abort,
              AbortAtPolicy
<1>7. h \in Actors /\ h \notin Agents /\ h \notin Polls
  BY ActorsApart DEF Actors
<1>. QED
  BY <1>2, <1>4, <1>6, <1>7

\* The ticket of an answered call has been commented.
LEMMA AnsweredIsCommented ==
  ASSUME NEW a, NEW s, NEW c, NEW n, NEW E, NEW A, NEW R,
         ActorInv(a, c, n, E, A, R), HandlerInv(s, c, E, A, R), s # Idle,
         c.at = "done", c.outcome \in {"success", "denied"}
  PROVE  /\ Commented(A, s.todo[1])
         /\ s.now = "comment" /\ c.outcome = "success" => CommentMade(A, s.todo[1])
<1>1. /\ c.ticket = s.todo[1] /\ s.now \in {"comment", "policy", "transition"}
      /\ c.tool = IF s.now = "transition" THEN "jira_transition" ELSE "jira_comment"
      /\ c.tool = "jira_transition" => CommentMade(A, c.ticket)
  BY DEF HandlerInv, Handler
<1>2. \A t : CommentMade(A, t) => Commented(A, t)
  BY DEF CommentMade, Commented
<1>3. CASE s.now = "transition"
  BY <1>1, <1>2, <1>3
<1>4. CASE s.now # "transition"
  <2>1. Writes(c)
    BY <1>1, <1>4, HandlerTools DEF Writes
  <2>2. PICK r \in A : Is(r, n, c) /\ r.outcome = c.outcome
    BY <2>1 DEF ActorInv, CallInv
  <2>. QED
    BY <1>1, <1>4, <2>2 DEF Is, Commented, CommentMade
<1>. QED
  BY <1>3, <1>4

LEMMA HandlerStepKeeps ==
  ASSUME ConnectorInv, UNCHANGED pollerVars, NEW h \in Handlers, HandlerStep(h)
  PROVE  ConnectorInv'
<1>1. /\ WorldInv' /\ PollsInv'
      /\ UNCHANGED <<tries, effects, audit, reports>>
      /\ handler[h] # Idle
      /\ h \in Actors
  BY HandlerAround
<1>2. PICK s, c, n, E, A, R :
        /\ s = handler[h] /\ c = call[h] /\ n = TryOf(h)
        /\ E = Of(effects, h) /\ A = Of(audit, h) /\ R = Of(reports, h)
  OBVIOUS
<1>3. /\ ActorInv(h, c, n, E, A, R) /\ HandlerInv(s, c, E, A, R) /\ s # Idle
      /\ ActivityInv(activity, audit) /\ audit' = audit
  BY <1>1, <1>2 DEF ConnectorInv, ActorsInv
<1>4. ASSUME NextTicket(h), Commented(A, s.todo[1]) PROVE ConnectorInv'
  <2>1. Commented(Of(audit, h), handler[h].todo[1])
    BY <1>2, <1>4
  <2>. QED
    BY <1>1, <1>4, <2>1, NextTicketInv
<1>5. CASE CommentAnswered(h)
  <2>1. /\ s.now = "comment" /\ c.at = "done" /\ c.outcome \in {"success", "denied"}
    BY <1>2, <1>5 DEF CommentAnswered
  <2>2. /\ Commented(A, s.todo[1])
        /\ c.outcome = "success" => CommentMade(A, s.todo[1])
    BY <1>3, <2>1, AnsweredIsCommented
  <2>3. CASE NextTicket(h)
    BY <1>4, <2>2, <2>3
  <2>4. CASE /\ c.outcome = "success"
             /\ handler' = [handler EXCEPT ![h].now = "policy"]
             /\ UNCHANGED <<activity, call>>
    <3>1. PICK z : z = [s EXCEPT !.now = "policy"]
      OBVIOUS
    <3>2. handler' = [handler EXCEPT ![h] = z]
      BY <1>2, <2>4, <3>1 DEF ConnectorInv, ActorsInv
    <3>3. s \in Handler
      BY <1>3 DEF HandlerInv
    <3>4. z \in Handler /\ z.todo = s.todo /\ z.keys = s.keys /\ z.now = "policy"
      BY <3>1, <3>3 DEF Handler
    <3>5. HandlerInv(z, c, E, A, R)
      BY <1>3, <2>1, <2>2, <2>4, <3>4 DEF HandlerInv
    <3>6. HandlerInv(z, call[h], Of(effects, h), Of(audit, h), Of(reports, h))
      BY <1>2, <3>5
    <3>7. ActivityInv(activity', audit')
      BY <1>3, <2>4
    <3>8. UNCHANGED <<call, tries, effects, audit, reports>>
      BY <1>1, <2>4
    <3>. QED
      BY <1>1, <3>2, <3>6, <3>7, <3>8, HandlerGoesOn
  <2>. QED
    BY <1>2, <1>5, <2>3, <2>4 DEF CommentAnswered
<1>6. CASE TransitionChecked(h)
  <2>1. s.now = "policy"
    BY <1>2, <1>6 DEF TransitionChecked
  <2>2. /\ s \in Handler /\ s.todo # <<>> /\ c.at = "done" /\ CommentMade(A, s.todo[1])
        /\ \A r \in E \cup R : r.ticket = s.todo[1] => r.tool = "jira_comment"
    BY <1>3, <2>1 DEF HandlerInv
  <2>3. Commented(A, s.todo[1])
    BY <2>2 DEF CommentMade, Commented
  <2>4. CASE NextTicket(h)
    BY <1>4, <2>3, <2>4
  <2>5. CASE /\ handler' = [handler EXCEPT ![h].now = "transition"]
             /\ call' = [call EXCEPT ![h] = Entered(h, "jira_transition", Head(handler[h].todo))]
             /\ UNCHANGED activity
    <3>1. PICK z, d : /\ z = [s EXCEPT !.now = "transition"]
                      /\ d = Entered(h, "jira_transition", Head(s.todo))
      OBVIOUS
    <3>2. handler' = [handler EXCEPT ![h] = z] /\ call' = [call EXCEPT ![h] = d]
      BY <1>2, <2>5, <3>1 DEF ConnectorInv, ActorsInv
    <3>3. z \in Handler /\ z.todo = s.todo /\ z.keys = s.keys /\ z.now = "transition"
      BY <2>2, <3>1 DEF Handler
    <3>4. Head(s.todo) \in Tickets /\ Head(s.todo) = s.todo[1]
      BY <2>2 DEF Handler
    <3>5. /\ d \in Call /\ d.tool = "jira_transition" /\ d.ticket = s.todo[1] /\ d.items = {}
          /\ d.at = "policy" \/ (d.at = "done" /\ d.outcome = "disabled")
      BY <3>1, <3>4, EnteredIs, HandlerTools
    <3>6. d.tool \in Tools
      BY <3>5, HandlerTools
    <3>7. \A r \in Of(effects, h) \cup Of(reports, h) : ~Is(r, TryOf(h), d)
      BY <1>2, <2>2, <3>5 DEF Is
    <3>8. HandlerInv(z, d, E, A, R)
      BY <1>3, <2>2, <3>3, <3>5 DEF HandlerInv
    <3>9. HandlerInv(z, d, Of(effects, h), Of(audit, h), Of(reports, h))
      BY <1>2, <3>8
    <3>10. ActivityInv(activity', audit')
      BY <1>3, <2>5
    <3>. QED
      BY <1>1, <3>2, <3>5, <3>6, <3>7, <3>9, <3>10, HandlerCalls
  <2>. QED
    BY <1>6, <2>4, <2>5 DEF TransitionChecked
<1>7. CASE TransitionAnswered(h)
  <2>1. /\ s.now = "transition" /\ c.at = "done" /\ c.outcome \in {"success", "denied"}
        /\ NextTicket(h)
    BY <1>2, <1>7 DEF TransitionAnswered
  <2>2. Commented(A, s.todo[1])
    BY <1>3, <2>1, AnsweredIsCommented
  <2>. QED
    BY <1>4, <2>1, <2>2
<1>8. CASE Abort(h) \/ AbortAtPolicy(h)
  <2>1. handler' = [handler EXCEPT ![h] = Idle] /\ UNCHANGED <<activity, call>>
    BY <1>8 DEF Abort, AbortAtPolicy
  <2>2. HandlerInv(Idle, c, E, A, R)
    BY <1>3, HandlerRests
  <2>3. HandlerInv(Idle, call[h], Of(effects, h), Of(audit, h), Of(reports, h))
    BY <1>2, <2>2
  <2>4. ActivityInv(activity', audit')
    BY <1>3, <2>1
  <2>5. UNCHANGED <<call, tries, effects, audit, reports>>
    BY <1>1, <2>1
  <2>. QED
    BY <1>1, <2>1, <2>3, <2>4, <2>5, HandlerGoesOn
<1>. QED
  BY <1>5, <1>6, <1>7, <1>8 DEF HandlerStep

-----------------------------------------------------------------------------
(* The steps of the polling services.                                      *)

\* What a poll adds to the intervals its service may have: a start sets one at its end.
Weight(q) == IF q # NoPoll /\ q.starting THEN 1 ELSE 0

Steady(s) == s \in Poller /\ (s.timer => s.intervals > 0)

LEMMA WeightIs == ASSUME NEW q PROVE Weight(q) \in 0 .. 1
  BY DEF Weight

LEMMA StoppedIs ==
  ASSUME NEW s, Steady(s)
  PROVE  LET z == Stopped(s) IN
         /\ Steady(z) /\ z.starts = s.starts /\ z.intervals <= s.intervals
<1>1. PICK i, z : /\ i = IF s.timer THEN s.intervals - 1 ELSE s.intervals
                  /\ z = [s EXCEPT !.timer = FALSE, !.intervals = i]
  OBVIOUS
<1>2. s \in Poller /\ (s.timer => s.intervals > 0)
  BY DEF Steady
<1>3. i \in Nat /\ i <= s.intervals
  BY <1>1, <1>2 DEF Poller
<1>4. Stopped(s) = z
  BY <1>1, <1>2 DEF Stopped, Poller
<1>5. z \in Poller /\ z.starts = s.starts /\ z.intervals = i /\ z.timer = FALSE
  BY <1>1, <1>2, <1>3 DEF Poller
<1>. QED
  BY <1>3, <1>4, <1>5 DEF Steady

LEMMA RefreshedIs ==
  ASSUME NEW s, Steady(s), NEW t
  PROVE  LET z == Refreshed(s, t) IN
         /\ Steady(z) /\ z.starts = s.starts /\ z.intervals <= s.intervals
<1>1. s \in Poller /\ (s.timer => s.intervals > 0)
  BY DEF Steady
<1>2. CASE t \in revoked
  <2>1. PICK y : y = [s EXCEPT !.disabled = TRUE]
    OBVIOUS
  <2>2. Steady(y) /\ y.starts = s.starts /\ y.intervals = s.intervals
    BY <1>1, <2>1 DEF Steady, Poller
  <2>3. Refreshed(s, t) = Stopped(y)
    BY <1>2, <2>1 DEF Refreshed, Disabled
  <2>. QED
    BY <2>2, <2>3, StoppedIs
<1>3. CASE t \notin revoked
  <2>1. PICK z : z = [s EXCEPT !.token = TRUE]
    OBVIOUS
  <2>2. Steady(z) /\ z.starts = s.starts /\ z.intervals = s.intervals
    BY <1>1, <2>1 DEF Steady, Poller
  <2>3. Refreshed(s, t) = z
    BY <1>3, <2>1 DEF Refreshed
  <2>. QED
    BY <1>1, <2>2, <2>3 DEF Poller
<1>. QED
  BY <1>2, <1>3

LEMMA NotedIs ==
  ASSUME NEW s, Steady(s), NEW error \in BOOLEAN
  PROVE  LET z == [s EXCEPT !.lastError = error] IN
         Steady(z) /\ z.starts = s.starts /\ z.intervals = s.intervals
  BY DEF Steady, Poller

LEMMA EndedIs ==
  ASSUME NEW s, Steady(s), NEW p, poll[p] \in Poll, poll[p] # NoPoll
  PROVE  LET z == Ended(s, p) IN
         /\ Steady(z) /\ z.starts = s.starts
         /\ z.intervals <= s.intervals + Weight(poll[p])
<1>1. s \in Poller /\ (s.timer => s.intervals > 0) /\ s.intervals \in Nat
  BY DEF Steady, Poller
<1>2. CASE poll[p].starting
  <2>1. PICK i, z : i = s.intervals + 1 /\ z = [s EXCEPT !.timer = TRUE, !.intervals = i]
    OBVIOUS
  <2>2. i \in Nat /\ i > 0
    BY <1>1, <2>1
  <2>3. Steady(z) /\ z.starts = s.starts /\ z.intervals = s.intervals + 1
    BY <1>1, <2>1, <2>2 DEF Steady, Poller
  <2>4. Ended(s, p) = z /\ Weight(poll[p]) = 1
    BY <1>1, <1>2, <2>1 DEF Ended, Weight, Poller
  <2>. QED
    BY <1>1, <2>3, <2>4
<1>3. CASE ~poll[p].starting
  BY <1>1, <1>3 DEF Ended, Weight, Steady
<1>. QED
  BY <1>2, <1>3

\* A poll p goes on as q, and its service as s.
LEMMA PollMoves ==
  ASSUME PollsInv, NEW p \in Polls, NEW t, t = ServiceOf[p], NEW q, NEW s,
         q # NoPoll => q \in Poll /\ q.type = t /\ (q.at = "starting" => q.starting),
         Steady(s), s.starts <= MaxStarts,
         s.intervals + Weight(q) + poller[t].starts
           <= poller[t].intervals + Weight(poll[p]) + s.starts,
         poller' = [poller EXCEPT ![t] = s], poll' = [poll EXCEPT ![p] = q]
  PROVE  PollsInv'
<1>1. t \in PollTypes
  BY PollerAssumption
<1>2. /\ poller' \in [PollTypes -> Poller] /\ poller'[t] = s
      /\ \A u \in PollTypes \ {t} : poller'[u] = poller[u]
  BY <1>1 DEF PollsInv, Steady
<1>3. /\ DOMAIN poll' = Polls /\ poll'[p] = q
      /\ \A r \in Polls \ {p} : poll'[r] = poll[r]
  BY DEF PollsInv
<1>4. \A r \in Polls : poll'[r] = NoPoll \/
        (poll'[r] \in Poll /\ poll'[r].type = ServiceOf[r]
         /\ (poll'[r].at = "starting" => poll'[r].starting))
  BY <1>3 DEF PollsInv
<1>5. PICK X, Y : X = Starting(poll, t) /\ Y = Starting(poll', t)
  OBVIOUS
<1>6. /\ Y \ {p} = X \ {p}
      /\ p \in X <=> Weight(poll[p]) = 1
      /\ p \in Y <=> Weight(q) = 1
  <2>1. Y \ {p} = X \ {p}
    BY <1>3, <1>5 DEF Starting
  <2>2. p \in X <=> Weight(poll[p]) = 1
    BY <1>5 DEF Starting, Weight, PollsInv
  <2>3. p \in Y <=> Weight(q) = 1
    BY <1>3, <1>5 DEF Starting, Weight
  <2>. QED
    BY <2>1, <2>2, <2>3
<1>7. /\ IsFiniteSet(X) /\ Cardinality(X) \in Nat
      /\ poller[t].intervals + Cardinality(X) <= poller[t].starts
      /\ poller[t].intervals \in Nat /\ poller[t].starts \in Nat
      /\ s.intervals \in Nat /\ s.starts \in Nat
  BY <1>1, <1>5, FS_CardinalityType DEF PollsInv, ServiceInv, Steady, Poller
<1>8. PICK W : W = X \ {p}
  OBVIOUS
<1>9. /\ IsFiniteSet(W) /\ Cardinality(W) \in Nat
      /\ Cardinality(X) = Cardinality(W) + Weight(poll[p])
  <2>1. IsFiniteSet(W) /\ Cardinality(W) = IF p \in X THEN Cardinality(X) - 1 ELSE Cardinality(X)
    BY <1>7, <1>8, FS_RemoveElement
  <2>2. Cardinality(W) \in Nat
    BY <2>1, FS_CardinalityType
  <2>. QED
    BY <1>6, <1>7, <2>1, <2>2, WeightIs
<1>10. IsFiniteSet(Y) /\ Cardinality(Y) = Cardinality(W) + Weight(q)
  <2>1. CASE p \in Y
    <3>1. Y = W \cup {p} /\ p \notin W
      BY <1>6, <1>8, <2>1
    <3>2. IsFiniteSet(Y) /\ Cardinality(Y) = Cardinality(W) + 1
      BY <1>9, <3>1, FS_AddElement
    <3>. QED
      BY <1>6, <2>1, <3>2
  <2>2. CASE p \notin Y
    <3>1. Y = W
      BY <1>6, <1>8, <2>2
    <3>2. Weight(q) = 0
      BY <1>6, <2>2, WeightIs
    <3>. QED
      BY <1>9, <3>1, <3>2
  <2>. QED
    BY <2>1, <2>2
<1>11. s.intervals + Cardinality(Y) <= s.starts
  <2>1. PICK i, j, k, l, m, n, x, y :
          /\ i = s.intervals /\ j = s.starts /\ k = poller[t].intervals /\ l = poller[t].starts
          /\ m = Weight(q) /\ n = Weight(poll[p]) /\ x = Cardinality(X) /\ y = Cardinality(Y)
    OBVIOUS
  <2>2. /\ m \in 0 .. 1 /\ n \in 0 .. 1
        /\ i \in Nat /\ j \in Nat /\ k \in Nat /\ l \in Nat /\ x \in Nat
        /\ k + x <= l /\ i + m + l <= k + n + j
    BY <1>7, <2>1, WeightIs
  <2>3. y = Cardinality(W) + m /\ x = Cardinality(W) + n /\ Cardinality(W) \in Nat
    BY <1>9, <1>10, <2>1
  <2>4. i + y <= j
    BY <2>2, <2>3
  <2>. QED
    BY <2>1, <2>4
<1>12. ServiceInv(t, s, poll')
  BY <1>5, <1>10, <1>11 DEF ServiceInv, Steady
<1>13. ASSUME NEW u \in PollTypes, u # t PROVE ServiceInv(u, poller'[u], poll')
  <2>1. Starting(poll', u) = Starting(poll, u)
    <3>1. p \notin Starting(poll, u) /\ p \notin Starting(poll', u)
      BY <1>3, <1>13 DEF Starting, PollsInv
    <3>. QED
      BY <1>3, <3>1 DEF Starting
  <2>2. ServiceInv(u, poller[u], poll)
    BY DEF PollsInv
  <2>. QED
    BY <1>2, <1>13, <2>1, <2>2 DEF ServiceInv
<1>14. \A u \in PollTypes : ServiceInv(u, poller'[u], poll')
  BY <1>2, <1>12, <1>13
<1>. QED
  BY <1>2, <1>3, <1>4, <1>14 DEF PollsInv

LEMMA ServiceMoves ==
  ASSUME PollsInv, NEW t \in PollTypes, NEW s, Steady(s), s.starts = poller[t].starts,
         s.intervals <= poller[t].intervals,
         poller' = [poller EXCEPT ![t] = s], poll' = poll
  PROVE  PollsInv'
<1>1. /\ poller' \in [PollTypes -> Poller] /\ poller'[t] = s
      /\ \A u \in PollTypes \ {t} : poller'[u] = poller[u]
  BY DEF PollsInv, Steady
<1>2. ServiceInv(t, poller[t], poll)
  BY DEF PollsInv
<1>3. PICK x : x = Cardinality(Starting(poll, t))
  OBVIOUS
<1>4. /\ x \in Nat /\ poller[t].intervals \in Nat /\ poller[t].starts \in Nat
      /\ s.intervals \in Nat /\ poller[t].intervals + x <= poller[t].starts
  BY <1>2, <1>3, FS_CardinalityType DEF ServiceInv, Steady, Poller
<1>5. ServiceInv(t, s, poll)
  BY <1>2, <1>3, <1>4 DEF ServiceInv, Steady
<1>6. \A u \in PollTypes : ServiceInv(u, poller'[u], poll')
  BY <1>1, <1>5 DEF PollsInv
<1>. QED
  BY <1>1, <1>6 DEF PollsInv

LEMMA NoneIsNoTool == "none" \notin Tools
<1>1. \A t \in Types : "none" \notin ConnectorTools[t]
  BY DEF Types, ConnectorTools
<1>. QED
  BY <1>1 DEF Tools

\* What holds around a step of a service or of a poll.
LEMMA PollAround ==
  ASSUME ConnectorInv, UNCHANGED trackingVars, CallsUnchanged, Fails \/ UNCHANGED failures
  PROVE  /\ WorldInv' /\ ActivityInv(activity', audit')
         /\ UNCHANGED <<tries, effects, audit, reports, handler>>
<1>1. /\ UNCHANGED <<doc, changes, revoked, disabled, tries, effects, audit, reports, modelCalls>>
      /\ UNCHANGED <<handler, delivered, activity>>
  BY DEF CallsUnchanged, trackingVars
<1>2. WorldInv'
  BY <1>1, FailsKeeps DEF ConnectorInv, WorldInv
<1>3. ActivityInv(activity', audit')
  BY <1>1 DEF ConnectorInv, ActorsInv
<1>. QED
  BY <1>1, <1>2, <1>3

\* A poll under way.
LEMMA PollIs ==
  ASSUME PollsInv, NEW p \in Polls, poll[p].at # "idle"
  PROVE  /\ poll[p] # NoPoll /\ poll[p] \in Poll
         /\ poll[p].type = ServiceOf[p] /\ poll[p].type \in PollTypes
         /\ poll[p].at = "starting" => poll[p].starting
         /\ NoPoll.at = "idle"
<1>1. NoPoll.at = "idle"
  BY DEF NoPoll
<1>2. poll[p] # NoPoll
  BY <1>1
<1>. QED
  BY <1>1, <1>2 DEF PollsInv, Poll

LEMMA ServiceIs ==
  ASSUME PollsInv, NEW t \in PollTypes
  PROVE  /\ Steady(poller[t]) /\ poller[t].starts <= MaxStarts
         /\ poller[t].intervals \in Nat /\ poller[t].starts \in Nat
  BY DEF PollsInv, ServiceInv, Steady, Poller

LEMMA ServiceKeeps ==
  ASSUME ConnectorInv, UNCHANGED trackingVars, NEW t \in PollTypes,
         Service(t) \/ \E p \in Polls : Tick(p, t)
  PROVE  ConnectorInv'
<1>1. CallsUnchanged /\ UNCHANGED <<call, failures>>
  BY DEF Service, Start, Stop, Tick
<1>2. /\ WorldInv' /\ ActivityInv(activity', audit')
      /\ UNCHANGED <<tries, effects, audit, reports, handler>>
  BY <1>1, PollAround
<1>3. ActorsInv'
  <2>1. UNCHANGED <<call, tries, effects, audit, reports, handler>>
    BY <1>1, <1>2
  <2>. QED
    BY <1>2, <2>1, ActorsStay
<1>4. PollsInv
  BY DEF ConnectorInv
<1>5. PICK z : z = poller[t]
  OBVIOUS
<1>6. /\ Steady(z) /\ z.starts <= MaxStarts /\ z \in Poller
      /\ z.intervals \in Nat /\ z.starts \in Nat
  BY <1>4, <1>5, ServiceIs DEF Steady
<1>7. ASSUME NEW p \in Polls, Start(p, t) PROVE PollsInv'
  <2>1. PICK n, s, q : /\ n = z.starts + 1 /\ s = [z EXCEPT !.starts = n]
                       /\ q = [type |-> t, starting |-> TRUE, at |-> "starting"]
    OBVIOUS
  <2>2. /\ z.starts < MaxStarts /\ ServiceOf[p] = t /\ poll[p] = NoPoll
        /\ poller' = [poller EXCEPT ![t].starts = @ + 1]
        /\ poll' = [poll EXCEPT ![p] = q]
    BY <1>5, <1>7, <2>1 DEF Start
  <2>3. poller' = [poller EXCEPT ![t] = s]
    BY <1>4, <1>5, <2>1, <2>2 DEF PollsInv
  <2>4. n \in Nat /\ n <= MaxStarts
    BY <1>6, <2>1, <2>2, Bounds
  <2>5. Steady(s) /\ s.starts = n /\ s.intervals = z.intervals
    BY <1>6, <2>1, <2>4 DEF Steady, Poller
  <2>6. q \in Poll /\ q.type = t /\ q.starting
    BY <2>1 DEF Poll
  <2>7. Weight(q) \in 0 .. 1 /\ Weight(poll[p]) = 0
    BY <2>2, WeightIs DEF Weight
  <2>8. s.intervals + Weight(q) + poller[t].starts
          <= poller[t].intervals + Weight(poll[p]) + s.starts
    <3>1. PICK i, j, w : i = z.intervals /\ j = z.starts /\ w = Weight(q)
      OBVIOUS
    <3>2. i + w + j <= i + 0 + (j + 1)
      BY <1>6, <2>7, <3>1
    <3>. QED
      BY <1>5, <2>1, <2>5, <2>7, <3>1, <3>2
  <2>9. q # NoPoll => q \in Poll /\ q.type = t /\ (q.at = "starting" => q.starting)
    BY <2>6
  <2>10. s.starts <= MaxStarts /\ t = ServiceOf[p]
    BY <2>2, <2>4, <2>5
  <2>. QED
    BY <1>4, <2>2, <2>3, <2>5, <2>8, <2>9, <2>10, PollMoves
<1>8. ASSUME NEW p \in Polls, Tick(p, t) PROVE PollsInv'
  <2>1. PICK q : q = [type |-> t, starting |-> FALSE, at |-> "refresh"]
    OBVIOUS
  <2>2. /\ ServiceOf[p] = t /\ poll[p] = NoPoll /\ poller' = poller
        /\ poll' = [poll EXCEPT ![p] = q]
    BY <1>8, <2>1 DEF Tick
  <2>3. poller' = [poller EXCEPT ![t] = z]
    BY <1>4, <1>5, <2>2 DEF PollsInv
  <2>4. q \in Poll /\ q.type = t /\ q.at = "refresh" /\ ~q.starting
    BY <2>1 DEF Poll
  <2>5. Weight(q) = 0 /\ Weight(poll[p]) = 0
    BY <2>2, <2>4 DEF Weight
  <2>6. z.intervals + Weight(q) + poller[t].starts
          <= poller[t].intervals + Weight(poll[p]) + z.starts
    BY <1>5, <1>6, <2>5
  <2>7. q # NoPoll => q \in Poll /\ q.type = t /\ (q.at = "starting" => q.starting)
    BY <2>4
  <2>. QED
    BY <1>4, <1>6, <2>2, <2>3, <2>6, <2>7, PollMoves
<1>9. ASSUME Stop(t) PROVE PollsInv'
  <2>1. PICK s : s = Stopped(z)
    OBVIOUS
  <2>2. poller' = [poller EXCEPT ![t] = s] /\ poll' = poll
    BY <1>5, <1>9, <2>1 DEF Stop
  <2>3. Steady(s) /\ s.starts = poller[t].starts /\ s.intervals <= poller[t].intervals
    BY <1>5, <1>6, <2>1, StoppedIs
  <2>. QED
    BY <1>4, <2>2, <2>3, ServiceMoves
<1>10. PollsInv'
  BY <1>7, <1>8, <1>9 DEF Service
<1>. QED
  BY <1>2, <1>3, <1>10 DEF ConnectorInv

\* A step of a poll changes the services and polls as it may.
LEMMA PollStepPolls ==
  ASSUME ConnectorInv, NEW p \in Polls, PollStep(p)
  PROVE  PollsInv'
<1>1. PollsInv
  BY DEF ConnectorInv
<1>2. poll[p].at # "idle"
  BY DEF PollStep, StartRefreshed, StartFails, PollRefreshed, RefreshFails, ReadDone
<1>3. PICK t, z, w : t = poll[p].type /\ z = poller[t] /\ w = poll[p]
  OBVIOUS
<1>4. /\ w # NoPoll /\ w \in Poll /\ t = ServiceOf[p] /\ t \in PollTypes
      /\ w.type = t /\ (w.at = "starting" => w.starting)
  BY <1>1, <1>2, <1>3, PollIs
<1>5. /\ Steady(z) /\ z.starts <= MaxStarts /\ z.intervals \in Nat /\ z.starts \in Nat
  BY <1>1, <1>3, <1>4, ServiceIs
<1>6. Weight(w) \in 0 .. 1 /\ Weight(NoPoll) = 0
  BY WeightIs DEF Weight
\* The poll ends, and the interval may be set.
<1>7. ASSUME NEW s, Steady(s), s.starts = z.starts, s.intervals <= z.intervals + Weight(w),
             poller' = [poller EXCEPT ![t] = s], poll' = [poll EXCEPT ![p] = NoPoll]
      PROVE  PollsInv'
  <2>1. PICK q : q = NoPoll
    OBVIOUS
  <2>2. q # NoPoll => q \in Poll /\ q.type = t /\ (q.at = "starting" => q.starting)
    BY <2>1
  <2>3. s.intervals \in Nat /\ s.starts <= MaxStarts
    BY <1>5, <1>7 DEF Steady, Poller
  <2>4. s.intervals + Weight(q) + poller[t].starts
          <= poller[t].intervals + Weight(poll[p]) + s.starts
    <3>1. PICK i, j, k, m : /\ i = s.intervals /\ j = z.starts /\ k = z.intervals
                            /\ m = Weight(w)
      OBVIOUS
    <3>2. i + 0 + j <= k + m + j
      BY <1>5, <1>6, <1>7, <2>3, <3>1
    <3>. QED
      BY <1>3, <1>6, <1>7, <2>1, <3>1, <3>2
  <2>5. poll' = [poll EXCEPT ![p] = q]
    BY <1>7, <2>1
  <2>. QED
    BY <1>1, <1>4, <1>7, <2>2, <2>3, <2>4, <2>5, PollMoves
\* The poll goes on.
<1>8. ASSUME NEW s, Steady(s), s.starts = z.starts, s.intervals <= z.intervals,
             poller' = [poller EXCEPT ![t] = s],
             NEW at \in {"refresh", "read"}, poll' = [poll EXCEPT ![p].at = at]
      PROVE  PollsInv'
  <2>1. PICK q : q = [w EXCEPT !.at = at]
    OBVIOUS
  <2>2. poll' = [poll EXCEPT ![p] = q]
    BY <1>1, <1>3, <1>8, <2>1 DEF PollsInv
  <2>3. q \in Poll /\ q.type = t /\ q.at = at /\ q.starting = w.starting /\ q # NoPoll
    BY <1>4, <1>8, <2>1 DEF Poll, NoPoll
  <2>4. Weight(q) = Weight(w)
    BY <1>4, <2>3 DEF Weight
  <2>5. s.intervals \in Nat /\ s.starts <= MaxStarts
    BY <1>5, <1>8 DEF Steady, Poller
  <2>6. s.intervals + Weight(q) + poller[t].starts
          <= poller[t].intervals + Weight(poll[p]) + s.starts
    <3>1. PICK i, j, k, m : /\ i = s.intervals /\ j = z.starts /\ k = z.intervals
                            /\ m = Weight(w)
      OBVIOUS
    <3>2. i + m + j <= k + m + j
      BY <1>5, <1>6, <1>8, <2>5, <3>1
    <3>. QED
      BY <1>3, <1>8, <2>4, <3>1, <3>2
  <2>7. q # NoPoll => q \in Poll /\ q.type = t /\ (q.at = "starting" => q.starting)
    BY <1>8, <2>3
  <2>. QED
    BY <1>1, <1>4, <1>8, <2>2, <2>5, <2>6, <2>7, PollMoves
<1>9. PICK r : r = Refreshed(z, t)
  OBVIOUS
<1>10. Steady(r) /\ r.starts = z.starts /\ r.intervals <= z.intervals /\ r.intervals \in Nat
  BY <1>5, <1>9, RefreshedIs DEF Steady, Poller
<1>11. \A s : Steady(s) /\ s.starts = z.starts /\ s.intervals <= z.intervals =>
         /\ Steady(Ended(s, p)) /\ Ended(s, p).starts = z.starts
         /\ Ended(s, p).intervals <= z.intervals + Weight(w)
  <2>. SUFFICES ASSUME NEW s, Steady(s), s.starts = z.starts, s.intervals <= z.intervals
                PROVE  /\ Steady(Ended(s, p)) /\ Ended(s, p).starts = z.starts
                       /\ Ended(s, p).intervals <= z.intervals + Weight(w)
    OBVIOUS
  <2>1. poll[p] \in Poll /\ poll[p] # NoPoll /\ w = poll[p]
    BY <1>3, <1>4
  <2>2. PICK e : e = Ended(s, p)
    OBVIOUS
  <2>3. Steady(e) /\ e.starts = s.starts /\ e.intervals <= s.intervals + Weight(w)
    BY <2>1, <2>2, EndedIs
  <2>4. e.intervals \in Nat /\ s.intervals \in Nat
    BY <2>3 DEF Steady, Poller
  <2>. QED
    BY <1>5, <1>6, <2>2, <2>3, <2>4
<1>12. ASSUME NEW s, Steady(s), s.starts = z.starts, s.intervals <= z.intervals,
              poller' = [poller EXCEPT ![t] = Ended(s, p)], poll' = [poll EXCEPT ![p] = NoPoll]
       PROVE  PollsInv'
  <2>1. PICK e : e = Ended(s, p)
    OBVIOUS
  <2>2. Steady(e) /\ e.starts = z.starts /\ e.intervals <= z.intervals + Weight(w)
    BY <1>11, <1>12, <2>1
  <2>3. poller' = [poller EXCEPT ![t] = e]
    BY <1>12, <2>1
  <2>. QED
    BY <1>7, <1>12, <2>2, <2>3
<1>13. \A error \in BOOLEAN : \A s : Steady(s) =>
         /\ Steady([s EXCEPT !.lastError = error])
         /\ [s EXCEPT !.lastError = error].starts = s.starts
         /\ [s EXCEPT !.lastError = error].intervals = s.intervals
  BY NotedIs
<1>14. CASE StartRefreshed(p)
  <2>1. CASE r.disabled
    <3>1. poller' = [poller EXCEPT ![t] = Ended(r, p)] /\ poll' = [poll EXCEPT ![p] = NoPoll]
      BY <1>3, <1>9, <1>14, <2>1 DEF StartRefreshed
    <3>. QED
      BY <1>10, <1>12, <3>1
  <2>2. CASE ~r.disabled
    <3>1. poller' = [poller EXCEPT ![t] = r] /\ poll' = [poll EXCEPT ![p].at = "refresh"]
      BY <1>3, <1>9, <1>14, <2>2 DEF StartRefreshed
    <3>. QED
      BY <1>8, <1>10, <3>1
  <2>. QED
    BY <2>1, <2>2
<1>15. CASE StartFails(p)
  <2>1. poller' = [poller EXCEPT ![t] = z] /\ poll' = [poll EXCEPT ![p] = NoPoll]
    BY <1>1, <1>3, <1>15 DEF StartFails, PollsInv
  <2>2. z.intervals <= z.intervals + Weight(w)
    BY <1>5, <1>6
  <2>. QED
    BY <1>5, <1>7, <2>1, <2>2
<1>16. CASE PollRefreshed(p)
  <2>1. CASE r.token
    <3>1. poller' = [poller EXCEPT ![t] = r] /\ poll' = [poll EXCEPT ![p].at = "read"]
      BY <1>3, <1>9, <1>16, <2>1 DEF PollRefreshed
    <3>. QED
      BY <1>8, <1>10, <3>1
  <2>2. CASE ~r.token
    <3>1. PICK s : s = [r EXCEPT !.lastError = TRUE]
      OBVIOUS
    <3>2. poller' = [poller EXCEPT ![t] = Ended(s, p)] /\ poll' = [poll EXCEPT ![p] = NoPoll]
      BY <1>3, <1>9, <1>16, <2>2, <3>1 DEF PollRefreshed
    <3>3. Steady(s) /\ s.starts = z.starts /\ s.intervals <= z.intervals
      BY <1>10, <1>13, <3>1
    <3>. QED
      BY <1>12, <3>2, <3>3
  <2>. QED
    BY <2>1, <2>2
<1>17. CASE RefreshFails(p)
  <2>1. PICK s : s = [z EXCEPT !.lastError = TRUE]
    OBVIOUS
  <2>2. poller' = [poller EXCEPT ![t] = Ended(s, p)] /\ poll' = [poll EXCEPT ![p] = NoPoll]
    BY <1>1, <1>3, <1>4, <1>17, <2>1 DEF RefreshFails, PollsInv
  <2>3. Steady(s) /\ s.starts = z.starts /\ s.intervals = z.intervals
    BY <1>5, <1>13, <2>1, Zenon
  <2>4. s.intervals <= z.intervals
    BY <1>5, <2>3
  <2>. QED
    BY <1>12, <2>2, <2>3, <2>4
<1>18. CASE ReadDone(p)
  <2>1. PICK s, error : /\ error = (call[p].outcome # "success")
                        /\ s = [z EXCEPT !.lastError = error]
    OBVIOUS
  <2>2. error \in BOOLEAN
    BY <2>1
  <2>3. poller' = [poller EXCEPT ![t] = Ended(s, p)] /\ poll' = [poll EXCEPT ![p] = NoPoll]
    BY <1>1, <1>3, <1>4, <1>18, <2>1 DEF ReadDone, PollsInv
  <2>4. Steady(s) /\ s.starts = z.starts /\ s.intervals = z.intervals
    BY <1>5, <1>13, <2>1, <2>2, Zenon
  <2>5. s.intervals <= z.intervals
    BY <1>5, <2>4
  <2>. QED
    BY <1>12, <2>3, <2>4, <2>5
<1>. QED
  BY <1>14, <1>15, <1>16, <1>17, <1>18 DEF PollStep

\* A poll makes its call, or takes the answer.
LEMMA PollCalls ==
  ASSUME ConnectorInv, UNCHANGED <<tries, effects, audit, reports, handler>>,
         ActivityInv(activity', audit'), NEW p \in Polls,
         NEW d, call' = [call EXCEPT ![p] = d],
         d = NoCall \/ (/\ d \in Call /\ d.tool \in ReadTools /\ d.items = {}
                        /\ d.at = "policy" \/ (d.at = "done" /\ d.outcome = "disabled"))
  PROVE  ActorsInv'
<1>1. p \in Actors /\ p \notin Agents /\ p \notin Handlers
  BY ActorsApart DEF Actors
<1>2. PICK c, n, E, A, R :
        /\ c = call[p] /\ n = TryOf(p)
        /\ E = Of(effects, p) /\ A = Of(audit, p) /\ R = Of(reports, p)
  OBVIOUS
<1>3. n \in Nat /\ n <= n
  BY <1>2, TryOfIs
<1>4. ActorInv(p, c, n, E, A, R)
  BY <1>1, <1>2 DEF ConnectorInv, ActorsInv
<1>5. E = {} /\ R = {}
  BY <1>4 DEF ActorInv
<1>6. ActorInv(p, d, n, E, A, R)
  <2>1. CASE d = NoCall
    <3>1. /\ d = [tool |-> "none", ticket |-> NoTicket, at |-> "idle", decision |-> "none",
                  todo |-> {}, items |-> {}, outcome |-> "none"]
      BY <2>1 DEF NoCall
    <3>2. d \in Call
      BY <3>1 DEF Call
    <3>3. CallInv(d, n, E, A, R)
      BY <3>1, <3>2 DEF CallInv, Running, Made
    <3>4. d.tool \notin Tools
      BY <3>1, NoneIsNoTool
    <3>. QED
      BY <1>1, <1>4, <3>3, <3>4 DEF ActorInv
  <2>2. CASE d # NoCall
    <3>1. d \in Call /\ d.tool \in Tools /\ d.items = {} /\ d.tool \in ReadTools
      BY <2>2, ToolFacts
    <3>2. /\ \A r \in E \cup R : ~Is(r, n, d)
          /\ \/ d.at = "policy"
             \/ d.at = "hook" /\ d.ticket = NoTicket
             \/ d.at = "done" /\ d.outcome \notin {"success", "denied"}
          /\ p \in Agents => ~Made(c)
          /\ p \in Polls => d.tool \in ReadTools
      BY <1>1, <1>5, <2>2
    <3>. QED
      BY <1>3, <1>4, <3>1, <3>2, CallBegins
  <2>. QED
    BY <2>1, <2>2
<1>7. call' \in [Actors -> Call] /\ call'[p] = d /\ \A b \in Actors \ {p} : call'[b] = call[b]
  BY <1>1, <1>6 DEF ConnectorInv, ActorsInv, ActorInv, CallInv
<1>8. \A a : TryOf(a)' = TryOf(a)
  BY DEF TryOf
<1>9. ASSUME NEW a \in Actors
      PROVE  ActorInv(a, call'[a], TryOf(a)', Of(effects', a), Of(audit', a), Of(reports', a))
  <2>1. CASE a = p
    BY <1>2, <1>6, <1>7, <1>8, <2>1
  <2>2. CASE a # p
    <3>1. ActorInv(a, call[a], TryOf(a), Of(effects, a), Of(audit, a), Of(reports, a))
      BY DEF ConnectorInv, ActorsInv
    <3>. QED
      BY <1>7, <1>8, <2>2, <3>1
  <2>. QED
    BY <2>1, <2>2
<1>10. ASSUME NEW h \in Handlers
       PROVE  HandlerInv(handler'[h], call'[h], Of(effects', h), Of(audit', h), Of(reports', h))
  <2>1. HandlerInv(handler[h], call[h], Of(effects, h), Of(audit, h), Of(reports, h))
    BY DEF ConnectorInv, ActorsInv
  <2>2. call'[h] = call[h]
    BY <1>1, <1>7 DEF Actors
  <2>. QED
    BY <2>1, <2>2
<1>11. DOMAIN handler' = Handlers
  BY DEF ConnectorInv, ActorsInv
<1>. QED
  BY <1>7, <1>9, <1>10, <1>11 DEF ActorsInv

LEMMA PollStepKeeps ==
  ASSUME ConnectorInv, UNCHANGED trackingVars, NEW p \in Polls, PollStep(p)
  PROVE  ConnectorInv'
<1>1. CallsUnchanged /\ (Fails \/ UNCHANGED failures)
  BY DEF PollStep, StartRefreshed, StartFails, PollRefreshed, RefreshFails, ReadDone
<1>2. /\ WorldInv' /\ ActivityInv(activity', audit')
      /\ UNCHANGED <<tries, effects, audit, reports, handler>>
  BY <1>1, PollAround
<1>3. PollsInv'
  BY PollStepPolls
<1>4. CASE call' = call
  <2>1. UNCHANGED <<call, tries, effects, audit, reports, handler>>
    BY <1>2, <1>4
  <2>2. ActorsInv'
    BY <1>2, <2>1, ActorsStay
  <2>. QED
    BY <1>2, <1>3, <2>2 DEF ConnectorInv
<1>5. ASSUME NEW d, call' = [call EXCEPT ![p] = d],
             d = NoCall \/ (/\ d \in Call /\ d.tool \in ReadTools /\ d.items = {}
                            /\ d.at = "policy" \/ (d.at = "done" /\ d.outcome = "disabled"))
      PROVE  ConnectorInv'
  <2>1. ActorsInv'
    BY <1>2, <1>5, PollCalls
  <2>. QED
    BY <1>2, <1>3, <2>1 DEF ConnectorInv
<1>6. CASE PollRefreshed(p) /\ call' # call
  <2>1. PollsInv /\ poll[p].at # "idle"
    BY <1>6 DEF ConnectorInv, PollRefreshed
  <2>2. poll[p].type \in PollTypes
    BY <2>1, PollIs
  <2>3. PICK d, tool : tool = PollTool(poll[p].type) /\ d = Entered(p, tool, NoTicket)
    OBVIOUS
  <2>4. call' = [call EXCEPT ![p] = d]
    BY <1>6, <2>3 DEF PollRefreshed
  <2>5. tool \in Tools /\ tool \in ReadTools
    BY <2>2, <2>3, ToolFacts
  <2>6. /\ d \in Call /\ d.tool = tool /\ d.items = {}
        /\ d.at = "policy" \/ (d.at = "done" /\ d.outcome = "disabled")
    BY <2>3, <2>5, EnteredIs
  <2>. QED
    BY <1>5, <2>4, <2>5, <2>6
<1>7. CASE ReadDone(p)
  <2>1. call' = [call EXCEPT ![p] = NoCall]
    BY <1>7 DEF ReadDone
  <2>. QED
    BY <1>5, <2>1
<1>8. CASE StartRefreshed(p) \/ StartFails(p) \/ RefreshFails(p)
  <2>1. call' = call
    BY <1>8 DEF StartRefreshed, StartFails, RefreshFails
  <2>. QED
    BY <1>4, <2>1
<1>. QED
  BY <1>4, <1>6, <1>7, <1>8 DEF PollStep
-----------------------------------------------------------------------------
(* The invariant of the system, and what follows from it.                  *)

LEMMA InitInv == ASSUME Init PROVE ConnectorInv
<1>1. /\ doc \in Documents /\ changes = 0 /\ revoked = {} /\ failures = 0 /\ disabled = {}
      /\ call = [a \in Actors |-> NoCall] /\ tries = [a \in Agents |-> 0]
      /\ effects = {} /\ audit = {} /\ reports = {} /\ modelCalls = {}
      /\ handler = [h \in Handlers |-> Idle] /\ delivered = [d \in Deliveries |-> 0]
      /\ activity = {}
      /\ poll = [p \in Polls |-> NoPoll]
  BY DEF Init, ConnectorInit, TrackingInit, PollerInit
<1>2. WorldInv
  BY <1>1, Bounds DEF WorldInv
<1>3. \A a : Of(effects, a) = {} /\ Of(audit, a) = {} /\ Of(reports, a) = {}
  BY <1>1 DEF Of
<1>4. \A a : TryOf(a) \in 0 .. 0
  BY <1>1 DEF TryOf
<1>5. PICK c : c = NoCall
  OBVIOUS
<1>6. c = [tool |-> "none", ticket |-> NoTicket, at |-> "idle", decision |-> "none",
           todo |-> {}, items |-> {}, outcome |-> "none"]
  BY <1>5 DEF NoCall
<1>7. c \in Call /\ c.tool \notin Tools /\ ~Made(c)
  BY <1>6, NoneIsNoTool DEF Call, Made
<1>8. ASSUME NEW a \in Actors, NEW n PROVE ActorInv(a, c, n, {}, {}, {})
  <2>1. CallInv(c, n, {}, {}, {})
    BY <1>6, <1>7 DEF CallInv, Running
  <2>2. TruthInv({}, {}, {})
    BY DEF TruthInv
  <2>3. CountInv(c, n, {}, {})
    <3>1. News({}) = {} /\ Errors({}) = {}
      BY DEF News, Errors
    <3>2. IsFiniteSet(News({})) /\ IsFiniteSet(Errors({}))
          /\ Cardinality(News({})) = 0 /\ Cardinality(Errors({})) = 0
      BY <3>1, FS_EmptySet
    <3>. QED
      BY <1>7, <3>2 DEF CountInv
  <2>. QED
    BY <1>7, <2>1, <2>2, <2>3 DEF ActorInv
<1>9. HandlerInv(Idle, c, {}, {}, {})
  BY <1>6 DEF HandlerInv
<1>10. ActivityInv(activity, audit)
  BY <1>1 DEF ActivityInv
<1>11. ActorsInv
  <2>1. \A a \in Actors : call[a] = c
    BY <1>1, <1>5
  <2>2. \A h \in Handlers : handler[h] = Idle /\ h \in Actors
    BY <1>1 DEF Actors
  <2>3. call \in [Actors -> Call] /\ DOMAIN handler = Handlers
    BY <1>1, <1>5, <1>7
  <2>. QED
    BY <1>3, <1>8, <1>9, <1>10, <2>1, <2>2, <2>3 DEF ActorsInv
<1>12. PollsInv
  <2>1. PICK s : s = [disabled |-> FALSE, token |-> FALSE, lastError |-> FALSE,
                      timer |-> FALSE, intervals |-> 0, starts |-> 0]
    OBVIOUS
  <2>2. poller = [t \in PollTypes |-> s]
    BY <2>1 DEF Init, PollerInit
  <2>3. s \in Poller /\ s.starts = 0 /\ s.intervals = 0 /\ s.timer = FALSE
    BY <2>1 DEF Poller
  <2>4. \A t : Starting(poll, t) = {}
    BY <1>1 DEF Starting
  <2>5. IsFiniteSet({}) /\ Cardinality({}) = 0
    BY FS_EmptySet
  <2>6. \A t \in PollTypes : ServiceInv(t, poller[t], poll)
    BY <2>2, <2>3, <2>4, <2>5, Bounds DEF ServiceInv
  <2>. QED
    BY <1>1, <2>2, <2>3, <2>6 DEF PollsInv
<1>. QED
  BY <1>2, <1>11, <1>12 DEF ConnectorInv

LEMMA StutterInv == ASSUME ConnectorInv, UNCHANGED vars PROVE ConnectorInv'
<1>1. /\ UNCHANGED <<doc, changes, revoked, failures, disabled, call, tries, effects, audit,
                     reports, modelCalls>>
      /\ UNCHANGED <<handler, delivered, activity, poller, poll>>
      /\ UNCHANGED pollerVars
  BY DEF vars, connectorVars, trackingVars, pollerVars
<1>2. WorldInv' /\ PollsInv'
  BY <1>1 DEF ConnectorInv, WorldInv, PollsInv, ServiceInv, Starting
<1>3. ActivityInv(activity', audit')
  BY <1>1 DEF ConnectorInv, ActorsInv
<1>4. UNCHANGED <<call, tries, effects, audit, reports, handler>>
  BY <1>1
<1>5. ActorsInv'
  BY <1>3, <1>4, ActorsStay
<1>. QED
  BY <1>2, <1>5 DEF ConnectorInv

LEMMA StepInv == ASSUME ConnectorInv, Next PROVE ConnectorInv'
<1>1. CASE ConnectorNext
  <2>1. Elsewhere
    BY <1>1 DEF ConnectorNext, Elsewhere
  <2>2. CASE World
    BY <2>1, <2>2, WorldKeeps
  <2>3. CASE AgentStep
    BY <2>1, <2>3, InvokeInv, CallModelInv DEF AgentStep
  <2>4. CASE \E a \in Actors : CallStep(a)
    BY <2>1, <2>4, CallStepKeeps
  <2>. QED
    BY <1>1, <2>2, <2>3, <2>4 DEF ConnectorNext
<1>2. CASE TrackingNext
  <2>1. UNCHANGED pollerVars
    BY <1>2 DEF TrackingNext
  <2>2. CASE Webhook
    BY <2>1, <2>2, RefuseInv, AcceptInv DEF Webhook
  <2>3. CASE \E h \in Handlers : HandlerStep(h)
    BY <2>1, <2>3, HandlerStepKeeps
  <2>. QED
    BY <1>2, <2>2, <2>3 DEF TrackingNext
<1>3. CASE PollerNext
  <2>1. UNCHANGED trackingVars
    BY <1>3 DEF PollerNext
  <2>2. CASE \E t \in PollTypes : Service(t) \/ \E p \in Polls : Tick(p, t)
    BY <2>1, <2>2, ServiceKeeps
  <2>3. CASE \E p \in Polls : PollStep(p)
    BY <2>1, <2>3, PollStepKeeps
  <2>. QED
    BY <1>3, <2>2, <2>3 DEF PollerNext
<1>. QED
  BY <1>1, <1>2, <1>3 DEF Next

\* What is known of every actor, handler, poll and service holds in every reachable
\* state, whatever the tools, the policy documents and the failures.
THEOREM ConnectorInvariance == Spec => []ConnectorInv
<1>1. Init => ConnectorInv
  BY InitInv
<1>2. ConnectorInv /\ [Next]_vars => ConnectorInv'
  BY StepInv, StutterInv
<1>. QED
  BY <1>1, <1>2, PTL DEF Spec

\* Every variable has its type; a service has no more intervals than starts.
THEOREM TypeCorrect == Spec => []TypeOK
<1>1. ASSUME ConnectorInv PROVE TypeOK
  <2>1. ASSUME NEW a \in Actors PROVE call[a] \in Call
    BY <1>1 DEF ConnectorInv, ActorsInv, ActorInv, CallInv
  <2>2. \A h \in Handlers : handler[h] = Idle \/ handler[h].of \in Deliveries
    BY <1>1 DEF ConnectorInv, ActorsInv, HandlerInv, Handler
  <2>3. \A e \in activity : e.type \in ActivityTypes
    BY <1>1 DEF ConnectorInv, ActorsInv, ActivityInv
  <2>4. ASSUME NEW t \in PollTypes
        PROVE  poller[t] \in Poller /\ poller[t].intervals <= MaxStarts
    <3>1. ServiceInv(t, poller[t], poll)
      BY <1>1 DEF ConnectorInv, PollsInv
    <3>2. PICK i, s, x : /\ i = poller[t].intervals /\ s = poller[t].starts
                         /\ x = Cardinality(Starting(poll, t))
      OBVIOUS
    <3>3. i \in Nat /\ s \in Nat /\ x \in Nat /\ i + x <= s /\ s <= MaxStarts
      BY <3>1, <3>2, FS_CardinalityType DEF ServiceInv, Poller
    <3>. QED
      BY <3>1, <3>2, <3>3, Bounds DEF ServiceInv
  <2>5. \A p \in Polls : poll[p] = NoPoll \/ poll[p] \in Poll
    BY <1>1 DEF ConnectorInv, PollsInv
  <2>. QED
    BY <1>1, <2>1, <2>2, <2>3, <2>4, <2>5 DEF TypeOK, ConnectorInv, WorldInv, ActorsInv
<1>. QED
  BY <1>1, ConnectorInvariance, PTL

\* What every caller was told is the truth, and so an agent's intent is carried out
\* more than once only after an attempt that ended in an error: executeRead and
\* executeWrite keep it, whatever fails between the policy, the provider and the log.
THEOREM ReportsTrue == Spec => []ReportIsTrue
<1>1. ASSUME ConnectorInv PROVE ReportIsTrue
  <2>1. \A a \in Actors :
          ActorInv(a, call[a], TryOf(a), Of(effects, a), Of(audit, a), Of(reports, a))
    BY <1>1 DEF ConnectorInv, ActorsInv
  <2>2. ASSUME NEW r \in reports
        PROVE  /\ r.outcome = "success" =>
                    /\ \E e \in audit :
                         /\ SameCall(e, r) /\ e.items = r.items /\ e.outcome = "success"
                         /\ \A i \in r.items : i.level <= e.level
                    /\ r.tool \notin ReadTools => \E e \in effects : SameCall(e, r)
               /\ r.outcome \notin {"success", "error"} => ~\E e \in effects : SameCall(e, r)
    <3>1. PICK a \in Actors : a = r.actor
      BY <1>1 DEF ConnectorInv, WorldInv, Record
    <3>2. TruthInv(Of(effects, a), Of(audit, a), Of(reports, a)) /\ r \in Of(reports, a)
      BY <2>1, <3>1 DEF ActorInv, Of
    <3>3. \A e \in effects : SameCall(e, r) => e \in Of(effects, a)
      BY <3>1 DEF SameCall, Of
    <3>4. Of(effects, a) \subseteq effects /\ Of(audit, a) \subseteq audit
      BY DEF Of
    <3>. QED
      BY <3>2, <3>3, <3>4 DEF TruthInv
  <2>3. ASSUME NEW a \in Agents
        PROVE  Cardinality({e \in effects : e.actor = a /\ e.new})
                 <= 1 + Cardinality({r \in reports : r.actor = a /\ r.outcome = "error"})
    <3>1. a \in Actors
      BY DEF Actors
    <3>2. CountInv(call[a], TryOf(a), Of(effects, a), Of(reports, a))
      BY <2>1, <3>1 DEF ActorInv
    <3>3. PICK x, y : x = Cardinality(News(Of(effects, a))) /\ y = Cardinality(Errors(Of(reports, a)))
      OBVIOUS
    <3>4. x \in Nat /\ y \in Nat /\ x <= y + 1
      BY <3>2, <3>3, Counts
    <3>5. {e \in effects : e.actor = a /\ e.new} = News(Of(effects, a))
      BY DEF News, Of
    <3>6. {r \in reports : r.actor = a /\ r.outcome = "error"} = Errors(Of(reports, a))
      BY DEF Errors, Of
    <3>7. x <= 1 + y
      BY <3>4
    <3>. QED
      BY <3>3, <3>5, <3>6, <3>7
  <2>. QED
    BY <2>2, <2>3 DEF ReportIsTrue
<1>. QED
  BY <1>1, ConnectorInvariance, PTL

\* A logged merge has every ticket of its pull request commented or the comment denied,
\* and a ticket is moved on only after its handler's comment was made and audited:
\* updateTicketsForMerge keeps it with many handlers side by side and one shared writer.
THEOREM MergesTrue == Spec => []MergeActivityIsTrue
<1>1. ASSUME ConnectorInv PROVE MergeActivityIsTrue
  <2>1. ASSUME NEW e \in activity, e.type = "pr_merged", NEW i \in DOMAIN e.keys
        PROVE  \E r \in audit : r.actor = e.by /\ r.tool = "jira_comment" /\ r.ticket = e.keys[i]
    BY <1>1, <2>1 DEF ConnectorInv, ActorsInv, ActivityInv, Commented, Of
  <2>2. ASSUME NEW e \in effects, e.tool = "jira_transition", e.actor \in Handlers
        PROVE  \E r \in audit : /\ r.actor = e.actor /\ r.tool = "jira_comment"
                                /\ r.ticket = e.ticket /\ r.outcome = "success"
    <3>1. PICK h \in Handlers : h = e.actor
      BY <2>2
    <3>2. HandlerInv(handler[h], call[h], Of(effects, h), Of(audit, h), Of(reports, h))
      BY <1>1 DEF ConnectorInv, ActorsInv
    <3>3. e \in Of(effects, h)
      BY <3>1 DEF Of
    <3>4. CommentMade(Of(audit, h), e.ticket)
      BY <2>2, <3>2, <3>3 DEF HandlerInv
    <3>. QED
      BY <3>1, <3>4 DEF CommentMade, Of
  <2>. QED
    BY <2>1, <2>2 DEF MergeActivityIsTrue
<1>. QED
  BY <1>1, ConnectorInvariance, PTL

=============================================================================
