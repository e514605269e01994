--------------------------- MODULE HotReloadProofs ---------------------------
(* Theorems about HotReload, for any policies and bounds.                  *)
EXTENDS HotReload, FiniteSetTheorems, TLAPS

\* What a fetch returns is content of the policies.
LEMMA FetchType ==
  ASSUME TypeOK, NEW since \in Nat
  PROVE  Fetch(since) \subseteq Content
  BY DEF Fetch, Content, TypeOK

\* A load stays a load while its content is pushed.
LEMMA PushedType ==
  ASSUME TypeOK, NEW l \in loads, NEW c \in l.todo
  PROVE  Pushed(l, c) \subseteq Load /\ c \in Content
<1>1. l \in Load
  BY DEF TypeOK
<1>2. c \in Content
  BY <1>1 DEF Load
<1>3. [l EXCEPT !.todo = @ \ {c}] = [id |-> l.id, todo |-> l.todo \ {c}]
  BY <1>1 DEF Load
<1>4. [id |-> l.id, todo |-> l.todo \ {c}] \in Load
  BY <1>1 DEF Load
<1>. QED
  BY <1>2, <1>3, <1>4 DEF Pushed, TypeOK

LEMMA Types == Init => TypeOK
<1>1. 1 \in 1..MaxUpdates /\ \A n \in Nat : 0 \in 0..n
  BY HotReloadAssumption
<1>2. Init => /\ db \in [Policies -> 1..MaxUpdates]
              /\ opa \in [Policies -> 0..MaxUpdates]
  BY <1>1, HotReloadAssumption DEF Init
<1>. QED
  BY <1>1, <1>2, HotReloadAssumption DEF Init, TypeOK

LEMMA TypesPreserved ==
  ASSUME TypeOK, [Next]_vars
  PROVE  TypeOK'
<1>. USE HotReloadAssumption
<1>1. ASSUME NEW p \in Policies, SavePolicy(p)
      PROVE  TypeOK'
  <2>1. now' \in 1..MaxUpdates /\ 1..MaxUpdates \subseteq Nat
    BY <1>1 DEF TypeOK, SavePolicy
  <2>2. db' = [db EXCEPT ![p] = now']
    BY <1>1 DEF SavePolicy
  <2>3. db' \in [Policies -> 1..MaxUpdates]
    BY <2>1, <2>2 DEF TypeOK
  <2>. QED
    BY <1>1, <2>1, <2>3 DEF TypeOK, SavePolicy, watcher
<1>2. CASE Start
  <2>1. Fetch(0) \subseteq Content
    BY FetchType
  <2>2. [id |-> starts + 1, todo |-> Fetch(0)] \in Load
    BY <1>2, <2>1 DEF Load, Start, StartIds, TypeOK
  <2>. QED
    BY <1>2, <2>2 DEF TypeOK, Start, history
<1>3. CASE StartFails
  BY <1>3 DEF TypeOK, StartFails
<1>4. ASSUME NEW i \in PollIds, Tick(i)
      PROVE  TypeOK'
  <2>1. Fetch(lastCheckedAt) \subseteq Content
    BY FetchType DEF TypeOK
  <2>2. [id |-> i, todo |-> Fetch(lastCheckedAt)] \in Load
    BY <2>1 DEF Load
  <2>. QED
    BY <1>4, <2>2 DEF TypeOK, Tick, watcher, history
<1>5. ASSUME NEW l \in loads, NEW c \in l.todo, Push(l, c)
      PROVE  TypeOK'
  BY <1>5, PushedType DEF TypeOK, Push, watcher, history, Content
<1>6. ASSUME NEW l \in loads, NEW c \in l.todo, PushFails(l, c)
      PROVE  TypeOK'
  BY <1>6, PushedType DEF TypeOK, PushFails, watcher, Content
<1>7. ASSUME NEW l \in loads, SetInterval(l)
      PROVE  TypeOK'
  <2>1. l.id \in 0..MaxStarts /\ l.id \in StartIds
    BY <1>7 DEF SetInterval, StartIds
  <2>. QED
    BY <1>7, <2>1 DEF TypeOK, SetInterval, history
<1>8. ASSUME NEW l \in loads, PollDone(l)
      PROVE  TypeOK'
  <2>1. now \in 0..MaxUpdates
    BY DEF TypeOK
  <2>. QED
    BY <1>8, <2>1 DEF TypeOK, PollDone, history
<1>9. CASE Stop
  <2>1. 0 \in 0..MaxStarts
    OBVIOUS
  <2>2. overtaken' \subseteq StartIds
    BY <1>9 DEF TypeOK, Stop, StartingIds, Starting
  <2>. QED
    BY <1>9, <2>1, <2>2 DEF TypeOK, Stop
<1>10. CASE OpaRestarts
  BY <1>10 DEF TypeOK, OpaRestarts, watcher
<1>11. CASE UNCHANGED vars
  BY <1>11 DEF TypeOK, vars, watcher, history
<1>. QED
  BY <1>1, <1>2, <1>3, <1>4, <1>5, <1>6, <1>7, <1>8, <1>9, <1>10, <1>11
  DEF Next, Resume

\* The ids that starts have used are finitely many.
LEMMA StartIdsFinite ==
  ASSUME TypeOK
  PROVE  /\ StartingIds \subseteq StartIds
         /\ IsFiniteSet(StartingIds) /\ IsFiniteSet(timers) /\ IsFiniteSet(overtaken)
         /\ IsFiniteSet(timers \cup StartingIds)
         /\ \A i \in StartingIds \cup timers \cup overtaken : i \in Nat
<1>1. IsFiniteSet(StartIds)
  BY FS_Interval, HotReloadAssumption DEF StartIds
<1>2. StartingIds \subseteq StartIds
  BY DEF StartingIds, Starting
<1>3. timers \subseteq StartIds /\ overtaken \subseteq StartIds
  BY DEF TypeOK
<1>4. \A i \in StartIds : i \in Nat
  BY HotReloadAssumption DEF StartIds
<1>. QED
  BY <1>1, <1>2, <1>3, <1>4, FS_Subset

\* The watcher's variables and the ids of the running starts decide TimerInv.
LEMMA StartingKept ==
  ASSUME TypeOK, StartIdsInv, TimerInv, Starting' = Starting,
         UNCHANGED <<running, interval, timers, starts, failedStart, overtaken>>
  PROVE  StartIdsInv' /\ TimerInv'
<1>1. StartingIds' = StartingIds
  BY DEF StartingIds
<1>. QED
  BY <1>1 DEF StartIdsInv, TimerInv

\* A push changes what is left to do, not which starts are under way.
LEMMA PushedStarting ==
  ASSUME TypeOK, StartIdsInv, TimerInv, NEW l \in loads, NEW c \in l.todo,
         loads' = Pushed(l, c),
         UNCHANGED <<running, interval, timers, starts, failedStart, overtaken>>
  PROVE  StartIdsInv' /\ TimerInv'
<1>. DEFINE n == [l EXCEPT !.todo = @ \ {c}]
<1>1. l \in Load /\ n.id = l.id
  BY DEF TypeOK, Load
<1>2. CASE l.id \notin StartIds
  <2>1. Starting' = Starting
    BY <1>1, <1>2 DEF Starting, Pushed
  <2>. QED
    BY <2>1, StartingKept
<1>3. CASE l.id \in StartIds
  <2>1. l \in Starting /\ Starting' = (Starting \ {l}) \cup {n}
    BY <1>1, <1>3 DEF Starting, Pushed
  <2>. HIDE DEF n
  <2>2. StartingIds' = StartingIds
    BY <1>1, <2>1 DEF StartingIds
  <2>3. \A k, m \in Starting' : k.id = m.id => k = m
    BY <1>1, <2>1 DEF StartIdsInv
  <2>. QED
    BY <2>2, <2>3 DEF StartIdsInv, TimerInv
<1>. QED
  BY <1>2, <1>3

\* start has begun: it is the one start more that running allows.
LEMMA StartTimers ==
  ASSUME TypeOK, StartIdsInv, TimerInv, Start
  PROVE  StartIdsInv' /\ TimerInv'
<1>. DEFINE new == starts + 1
<1>1. PICK n : n.id = new /\ loads' = loads \cup {n}
  BY DEF Start
<1>2. /\ starts \in Nat /\ starts < MaxStarts /\ new \in StartIds /\ starts' = new
      /\ ~running /\ running' /\ UNCHANGED <<timers, interval, failedStart, overtaken>>
  BY HotReloadAssumption DEF Start, TypeOK, StartIds, history
<1>3. Starting' = Starting \cup {n} /\ StartingIds' = StartingIds \cup {new}
  <2>1. Starting' = Starting \cup {n}
    BY <1>1, <1>2 DEF Starting
  <2>. QED
    BY <1>1, <2>1 DEF StartingIds
<1>4. \A i \in StartingIds \cup timers \cup overtaken : i \in Nat /\ i <= starts
  BY StartIdsFinite DEF StartIdsInv
<1>5. new \notin StartingIds \cup timers \cup overtaken
  BY <1>2, <1>4
<1>6. StartIdsInv'
  <2>1. \A k, m \in Starting' : k.id = m.id => k = m
    BY <1>1, <1>3, <1>5 DEF StartIdsInv, StartingIds
  <2>2. \A i \in (StartingIds \cup timers \cup overtaken)' : i <= starts'
    BY <1>2, <1>3, <1>4
  <2>3. (StartingIds \cap timers)' = {}
    BY <1>2, <1>3, <1>5 DEF StartIdsInv
  <2>. QED
    BY <2>1, <2>2, <2>3 DEF StartIdsInv
<1>7. TimerInv'
  <2>1. (timers \cup StartingIds)' = (timers \cup StartingIds) \cup {new}
    BY <1>2, <1>3
  <2>2. /\ Cardinality(timers \cup StartingIds) \in Nat
        /\ Cardinality((timers \cup StartingIds)') = Cardinality(timers \cup StartingIds) + 1
    BY <1>5, <2>1, StartIdsFinite, FS_AddElement, FS_CardinalityType
  <2>3. Cardinality(overtaken) \in Nat
    BY StartIdsFinite, FS_CardinalityType
  <2>4. failedStart = FALSE
    BY <1>2 DEF TimerInv, TypeOK
  <2>5. ~(StartingIds' \subseteq overtaken')
    BY <1>2, <1>3, <1>5
  <2>. QED
    BY <1>2, <2>2, <2>3, <2>4, <2>5 DEF TimerInv
<1>. QED
  BY <1>6, <1>7

\* A start sets its interval: its id moves from the starts to the intervals.
LEMMA SetIntervalTimers ==
  ASSUME TypeOK, StartIdsInv, TimerInv, NEW l \in loads, SetInterval(l)
  PROVE  StartIdsInv' /\ TimerInv'
<1>1. /\ l \in Starting /\ l.id \in StartingIds /\ Starting' = Starting \ {l}
      /\ interval' = l.id /\ timers' = timers \cup {l.id}
      /\ UNCHANGED <<running, starts, failedStart, overtaken>>
  BY DEF SetInterval, Starting, StartingIds, history
<1>2. StartingIds' = StartingIds \ {l.id}
  BY <1>1 DEF StartingIds, StartIdsInv
<1>3. (timers \cup StartingIds)' = timers \cup StartingIds
  BY <1>1, <1>2
<1>4. StartIdsInv'
  BY <1>1, <1>2 DEF StartIdsInv
<1>5. TimerInv'
  BY <1>1, <1>3 DEF TimerInv
<1>. QED
  BY <1>4, <1>5

\* stop takes away the interval it knows of, or falls into a start that nothing
\* had overtaken.
LEMMA StopTimers ==
  ASSUME TypeOK, StartIdsInv, TimerInv, Stop
  PROVE  StartIdsInv' /\ TimerInv'
<1>. DEFINE T == timers \cup StartingIds
<1>1. /\ Starting' = Starting /\ starts' = starts /\ ~running' /\ ~failedStart'
      /\ timers' = timers \ {interval} /\ overtaken' = overtaken \cup StartingIds
  BY DEF Stop, Starting
<1>2. StartingIds' = StartingIds
  BY <1>1 DEF StartingIds
<1>3. StartIdsInv'
  BY <1>1, <1>2 DEF StartIdsInv
<1>4. (timers \cup StartingIds)' \subseteq T /\ overtaken \subseteq overtaken'
  BY <1>1, <1>2
<1>5. IsFiniteSet(T) /\ IsFiniteSet(overtaken) /\ IsFiniteSet(overtaken')
  BY <1>1, StartIdsFinite, FS_Union
<1>6. /\ Cardinality(T) \in Nat /\ Cardinality((timers \cup StartingIds)') \in Nat
      /\ Cardinality(overtaken) \in Nat /\ Cardinality(overtaken') \in Nat
      /\ Cardinality((timers \cup StartingIds)') <= Cardinality(T)
      /\ Cardinality(overtaken) <= Cardinality(overtaken')
  BY <1>4, <1>5, FS_Subset, FS_CardinalityType
<1>7. Cardinality((timers \cup StartingIds)') <= Cardinality(overtaken')
  <2>1. CASE ~(running /\ ~failedStart)
    BY <1>6, <2>1 DEF TimerInv
  <2>2. CASE ~(StartingIds \subseteq overtaken)
    <3>1. overtaken # overtaken'
      BY <1>1, <2>2
    <3>2. Cardinality(overtaken) < Cardinality(overtaken')
      BY <1>4, <1>5, <1>6, <3>1, FS_Subset
    <3>. QED
      BY <1>6, <3>2 DEF TimerInv
  <2>3. CASE running /\ ~failedStart /\ interval \in timers
    <3>1. (timers \cup StartingIds)' = T \ {interval} /\ interval \in T
      BY <1>1, <1>2, <2>3 DEF StartIdsInv
    <3>2. Cardinality((timers \cup StartingIds)') = Cardinality(T) - 1
      BY <1>5, <3>1, FS_RemoveElement
    <3>. QED
      BY <1>6, <3>2 DEF TimerInv
  <2>. QED
    BY <2>1, <2>2, <2>3 DEF TimerInv
<1>8. TimerInv'
  BY <1>1, <1>6, <1>7 DEF TimerInv
<1>. QED
  BY <1>3, <1>8

LEMMA TimersPreserved ==
  ASSUME TypeOK, StartIdsInv, TimerInv, [Next]_vars
  PROVE  StartIdsInv' /\ TimerInv'
<1>. USE HotReloadAssumption
<1>1. ASSUME NEW p \in Policies, SavePolicy(p)
      PROVE  StartIdsInv' /\ TimerInv'
  BY <1>1, StartingKept DEF SavePolicy, watcher, Starting
<1>2. CASE Start
  BY <1>2, StartTimers
<1>3. CASE StartFails
  <2>1. /\ Starting' = Starting /\ ~running /\ running' /\ failedStart'
        /\ starts' = starts + 1 /\ UNCHANGED <<timers, interval, overtaken>>
    BY <1>3 DEF StartFails, Starting
  <2>2. StartingIds' = StartingIds
    BY <2>1 DEF StartingIds
  <2>3. StartIdsInv'
    <3>1. starts \in Nat /\ \A i \in StartingIds \cup timers \cup overtaken : i \in Nat
      BY StartIdsFinite DEF TypeOK
    <3>. QED
      BY <2>1, <2>2, <3>1 DEF StartIdsInv
  <2>. QED
    BY <2>1, <2>2, <2>3 DEF TimerInv
<1>4. ASSUME NEW i \in PollIds, Tick(i)
      PROVE  StartIdsInv' /\ TimerInv'
  <2>1. PICK n : n.id = i /\ loads' = loads \cup {n}
    BY <1>4 DEF Tick
  <2>2. Starting' = Starting
    BY <2>1 DEF Starting, StartIds, PollIds
  <2>. QED
    BY <1>4, <2>2, StartingKept DEF Tick, watcher, history
<1>5. ASSUME NEW l \in loads, NEW c \in l.todo, Push(l, c) \/ PushFails(l, c)
      PROVE  StartIdsInv' /\ TimerInv'
  BY <1>5, PushedStarting DEF Push, PushFails, watcher, history
<1>6. ASSUME NEW l \in loads, SetInterval(l)
      PROVE  StartIdsInv' /\ TimerInv'
  BY <1>6, SetIntervalTimers
<1>7. ASSUME NEW l \in loads, PollDone(l)
      PROVE  StartIdsInv' /\ TimerInv'
  <2>1. Starting' = Starting
    BY <1>7 DEF PollDone, Starting, StartIds, PollIds
  <2>. QED
    BY <1>7, <2>1, StartingKept DEF PollDone, history
<1>8. CASE Stop
  BY <1>8, StopTimers
<1>9. CASE OpaRestarts
  BY <1>9, StartingKept DEF OpaRestarts, watcher, Starting
<1>10. CASE UNCHANGED vars
  BY <1>10, StartingKept DEF vars, watcher, history, Starting
<1>. QED
  BY <1>1, <1>2, <1>3, <1>4, <1>5, <1>6, <1>7, <1>8, <1>9, <1>10
  DEF Next, Resume

\* The invariant bounds the intervals that nobody clears by the stops that fell
\* into a start.
LEMMA TimersBounded ==
  ASSUME TypeOK, StartIdsInv, TimerInv
  PROVE  TimersAccountedFor
<1>. DEFINE T == timers \cup StartingIds
<1>1. IsFiniteSet(T) /\ IsFiniteSet(timers) /\ IsFiniteSet(overtaken)
  BY StartIdsFinite
<1>2. /\ Cardinality(T) \in Nat /\ Cardinality(timers) \in Nat
      /\ Cardinality(overtaken) \in Nat /\ Cardinality(timers \ {interval}) \in Nat
      /\ Cardinality(timers) <= Cardinality(T)
      /\ Cardinality(timers \ {interval}) <= Cardinality(timers)
  BY <1>1, FS_Subset, FS_CardinalityType
<1>3. Cardinality(timers \ {interval}) <= Cardinality(overtaken)
  <2>1. CASE ~(running /\ ~failedStart)
    BY <1>2, <2>1 DEF TimerInv
  <2>2. CASE running /\ ~failedStart /\ interval \in timers
    <3>1. Cardinality(timers \ {interval}) = Cardinality(timers) - 1
      BY <1>1, <2>2, FS_RemoveElement
    <3>. QED
      BY <1>2, <2>2, <3>1 DEF TimerInv
  <2>3. CASE running /\ ~failedStart /\ interval \notin timers
    <3>1. PICK i : i \in StartingIds \ overtaken
      BY <2>3 DEF TimerInv
    <3>2. timers \subseteq T /\ timers # T
      BY <3>1 DEF StartIdsInv
    <3>3. Cardinality(timers) < Cardinality(T)
      BY <1>1, <1>2, <3>2, FS_Subset
    <3>. QED
      BY <1>2, <2>3, <3>3 DEF TimerInv
  <2>. QED
    BY <2>1, <2>2, <2>3
<1>4. ~running => Cardinality(timers) <= Cardinality(overtaken)
  BY <1>2 DEF TimerInv
<1>5. running /\ Starting = {} /\ ~failedStart => interval \in timers
  BY DEF TimerInv, StartingIds
<1>. QED
  BY <1>3, <1>4, <1>5 DEF TimersAccountedFor

\* A push takes one content from one load, and a policy whose content it is not is as
\* up to date as before, if OPA still has of it what it had.
LEMMA PushedUpToDate ==
  ASSUME TypeOK, NEW p \in Policies, UpToDate(p), NEW l \in loads, NEW c \in l.todo,
         loads' = Pushed(l, c), db' = db, lastCheckedAt' = lastCheckedAt,
         \/ c.policy # p /\ opa'[p] = opa[p]
         \/ opa'[p] = db[p]
  PROVE  UpToDate(p)'
<1>. DEFINE n == [l EXCEPT !.todo = @ \ {c}]
<1>1. n.todo = l.todo \ {c}
  BY DEF TypeOK, Load
<1>2. loads' = (loads \ {l}) \cup {n}
  BY DEF Pushed
<1>. HIDE DEF n
<1>3. \A k \in loads' : \A d \in k.todo : d.policy = p => d.version = db[p]
  BY <1>1, <1>2 DEF UpToDate
<1>4. \/ opa'[p] = db[p]
      \/ \E k \in loads' : [policy |-> p, version |-> db[p]] \in k.todo
  <2>1. CASE opa'[p] = db[p]
    BY <2>1
  <2>2. CASE c.policy # p /\ opa'[p] = opa[p] /\ opa[p] # db[p]
    <3>. DEFINE d == [policy |-> p, version |-> db[p]]
    <3>1. PICK k \in loads : d \in k.todo
      BY <2>2 DEF UpToDate
    <3>2. d # c
      BY <2>2
    <3>. QED
      BY <1>1, <1>2, <3>1, <3>2
  <2>. QED
    BY <2>1, <2>2
<1>. QED
  BY <1>3, <1>4 DEF UpToDate

\* A load that has pushed all it had ends: what OPA lacks is with the others.
LEMMA EndedUpToDate ==
  ASSUME NEW p \in Policies, UpToDate(p), NEW l \in loads, l.todo = {},
         loads' = loads \ {l}, db' = db, opa' = opa
  PROVE  UpToDate(p)'
  BY DEF UpToDate

\* What a load fetches of a policy is what was last saved of it.
LEMMA FetchedUpToDate ==
  ASSUME TypeOK, NEW p \in Policies, UpToDate(p), NEW i, NEW since \in Nat,
         since <= lastCheckedAt,
         loads' = loads \cup {[id |-> i, todo |-> Fetch(since)]},
         db' = db, opa' = opa
  PROVE  UpToDate(p)'
<1>. DEFINE n == [id |-> i, todo |-> Fetch(since)]
<1>. DEFINE d == [policy |-> p, version |-> db[p]]
<1>1. n.todo = Fetch(since) /\ loads' = loads \cup {n}
  OBVIOUS
<1>. HIDE DEF n
<1>2. \A c \in Fetch(since) : c.policy = p => c.version = db[p]
  BY DEF Fetch
<1>3. db[p] > since => d \in Fetch(since)
  BY DEF Fetch
<1>4. ~(db[p] > since) => db[p] <= lastCheckedAt
  BY DEF TypeOK
<1>5. opa[p] = db[p] \/ \E k \in loads' : d \in k.todo
  BY <1>1, <1>3, <1>4 DEF UpToDate
<1>. QED
  BY <1>1, <1>2, <1>5 DEF UpToDate

LEMMA FreshPreserved ==
  ASSUME TypeOK, FreshInv, [Next]_vars
  PROVE  FreshInv'
<1>. USE HotReloadAssumption
<1>. DEFINE Excused == dropped \cup raced
<1>1. ASSUME NEW q \in Policies, SavePolicy(q)
      PROVE  FreshInv'
  <2>1. /\ now' = now + 1 /\ now \in Nat /\ lastCheckedAt \in Nat /\ lastCheckedAt <= now
        /\ UNCHANGED <<opa, loads, lastCheckedAt>>
    BY <1>1 DEF SavePolicy, watcher, TypeOK, FreshInv
  <2>2. db'[q] = now + 1 /\ \A p \in Policies \ {q} : db'[p] = db[p]
    BY <1>1 DEF SavePolicy, TypeOK
  <2>3. ASSUME NEW p \in Policies \ (dropped \cup raced)'
        PROVE  UpToDate(p)'
    <3>1. CASE p = q
      <4>1. loads = {}
        BY <1>1, <2>3, <3>1 DEF SavePolicy
      <4>2. ~(db'[p] <= lastCheckedAt')
        BY <2>1, <2>2, <3>1
      <4>. QED
        BY <2>1, <4>1, <4>2 DEF UpToDate
    <3>2. CASE p # q
      <4>1. p \notin Excused
        BY <1>1, <2>3, <3>2 DEF SavePolicy
      <4>. QED
        BY <2>1, <2>2, <3>2, <4>1 DEF UpToDate, FreshInv
    <3>. QED
      BY <3>1, <3>2
  <2>. QED
    BY <2>1, <2>3 DEF FreshInv
<1>2. CASE Start
  <2>1. /\ lastCheckedAt' = now /\ now' = now /\ now \in Nat
        /\ UNCHANGED <<dropped, raced, db, opa>>
        /\ loads' = loads \cup {[id |-> starts + 1, todo |-> Fetch(0)]}
    BY <1>2 DEF Start, history, TypeOK
  <2>2. ASSUME NEW p \in Policies \ Excused
        PROVE  UpToDate(p)'
    <3>1. 0 \in Nat /\ 0 <= lastCheckedAt /\ UpToDate(p)
      BY DEF TypeOK, FreshInv
    <3>. QED
      BY <2>1, <3>1, FetchedUpToDate
  <2>. QED
    BY <2>1, <2>2 DEF FreshInv
<1>3. CASE StartFails \/ OpaRestarts
  <2>1. dropped' = Policies /\ lastCheckedAt' <= now'
    BY <1>3 DEF StartFails, OpaRestarts, watcher, TypeOK, FreshInv
  <2>. QED
    BY <2>1 DEF FreshInv
<1>4. ASSUME NEW i \in PollIds, Tick(i)
      PROVE  FreshInv'
  <2>1. /\ UNCHANGED <<now, lastCheckedAt, dropped, raced, db, opa>>
        /\ loads' = loads \cup {[id |-> i, todo |-> Fetch(lastCheckedAt)]}
    BY <1>4 DEF Tick, watcher, history
  <2>2. lastCheckedAt \in Nat /\ lastCheckedAt <= lastCheckedAt
    BY DEF TypeOK
  <2>3. ASSUME NEW p \in Policies \ Excused
        PROVE  UpToDate(p)'
    BY <2>1, <2>2, FetchedUpToDate DEF FreshInv
  <2>. QED
    BY <2>1, <2>3 DEF FreshInv
<1>5. ASSUME NEW l \in loads, NEW c \in l.todo, Push(l, c)
      PROVE  FreshInv'
  <2>1. /\ UNCHANGED <<now, lastCheckedAt, dropped, raced, db>>
        /\ loads' = Pushed(l, c)
    BY <1>5 DEF Push, watcher, history
  <2>2. ASSUME NEW p \in Policies \ Excused
        PROVE  UpToDate(p)'
    <3>1. UpToDate(p) /\ (c.policy = p => c.version = db[p])
      BY DEF FreshInv, UpToDate
    <3>2. c \in Content
      BY PushedType
    <3>3. opa'[p] = IF c.policy = p THEN c.version ELSE opa[p]
      BY <1>5, <3>2 DEF Push, TypeOK, Content
    <3>. QED
      BY <2>1, <3>1, <3>3, PushedUpToDate
  <2>. QED
    BY <2>1, <2>2 DEF FreshInv
<1>6. ASSUME NEW l \in loads, NEW c \in l.todo, PushFails(l, c)
      PROVE  FreshInv'
  <2>1. /\ UNCHANGED <<now, lastCheckedAt, raced, db, opa>>
        /\ loads' = Pushed(l, c) /\ dropped' = dropped \cup {c.policy}
    BY <1>6 DEF PushFails, watcher
  <2>2. ASSUME NEW p \in Policies \ (dropped \cup raced)'
        PROVE  UpToDate(p)'
    <3>1. p \notin Excused /\ c.policy # p /\ opa'[p] = opa[p]
      BY <2>1, <2>2
    <3>. QED
      BY <2>1, <3>1, PushedUpToDate DEF FreshInv
  <2>. QED
    BY <2>1, <2>2 DEF FreshInv
<1>7. ASSUME NEW l \in loads, SetInterval(l) \/ PollDone(l)
      PROVE  FreshInv'
  <2>1. /\ UNCHANGED <<now, dropped, raced, db, opa>>
        /\ loads' = loads \ {l} /\ l.todo = {}
        /\ lastCheckedAt' \in {lastCheckedAt, now} /\ now \in Nat
    BY <1>7 DEF SetInterval, PollDone, history, TypeOK
  <2>2. ASSUME NEW p \in Policies \ Excused
        PROVE  UpToDate(p)'
    BY <2>1, EndedUpToDate DEF FreshInv
  <2>. QED
    BY <2>1, <2>2 DEF FreshInv
<1>8. CASE Stop \/ UNCHANGED vars
  <2>1. UNCHANGED <<now, lastCheckedAt, dropped, raced, db, opa, loads>>
    BY <1>8 DEF Stop, vars, watcher, history
  <2>. QED
    BY <2>1 DEF FreshInv, UpToDate
<1>. QED
  BY <1>1, <1>2, <1>3, <1>4, <1>5, <1>6, <1>7, <1>8 DEF Next, Resume

\* Every reachable state is well typed, has the intervals that start and stop account
\* for, and every policy neither raced nor dropped is with OPA or on its way.
THEOREM WatcherInvariance == Spec => [](TypeOK /\ StartIdsInv /\ TimerInv /\ FreshInv)
<1>1. Init => TypeOK /\ StartIdsInv /\ TimerInv /\ FreshInv
  <2>1. Init => StartingIds = {} /\ Starting = {}
    BY DEF Init, Starting, StartingIds
  <2>2. Init => FreshInv
    BY DEF Init, FreshInv, UpToDate
  <2>. QED
    BY <2>1, <2>2, Types, FS_EmptySet DEF Init, StartIdsInv, TimerInv
<1>2. TypeOK /\ StartIdsInv /\ TimerInv /\ FreshInv /\ [Next]_vars
        => (TypeOK /\ StartIdsInv /\ TimerInv /\ FreshInv)'
  BY TypesPreserved, TimersPreserved, FreshPreserved
<1>. QED
  BY <1>1, <1>2, PTL DEF Spec

\* Every variable of the watcher has its type, for any policies and bounds.
THEOREM WatcherTypeCorrect == Spec => []TypeOK
  BY WatcherInvariance, PTL

\* start, failed starts and stop of the watcher, overlapping in any way: each stop
\* that falls into a start leaves at most one interval that nobody clears, nothing
\* else leaves one, and a running watcher whose initial load has not failed polls.
THEOREM TimersCorrect == Spec => []TimersAccountedFor
<1>1. TypeOK /\ StartIdsInv /\ TimerInv => TimersAccountedFor
  BY TimersBounded
<1>. QED
  BY <1>1, WatcherInvariance, PTL

\* Overlapping polls, pushes in any order, starts, stops and failures: when no load is
\* under way, OPA has what was last saved of every policy up to the last check, but for
\* those saved during a load or kept from OPA by a failure.
THEOREM StaleCorrect == Spec => []StaleOnlyByOverlap
<1>1. FreshInv => StaleOnlyByOverlap
  BY DEF FreshInv, UpToDate, StaleOnlyByOverlap
<1>. QED
  BY <1>1, WatcherInvariance, PTL
=============================================================================
