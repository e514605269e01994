----------------------------- MODULE HotReload -----------------------------
(***************************************************************************)
(* PolicyHotReloadWatcher of plugins/policy-engine: it loads all policies  *)
(* into the OPA sidecar when it starts, then polls PostgreSQL for policies *)
(* changed since the last poll and pushes those.                           *)
(*                                                                         *)
(* start and checkForUpdates are async functions, and the interval does    *)
(* not wait for them: an update, a tick or a stop may come at every await. *)
(* Each running one is a record in loads; every action is the code between *)
(* two awaits.  PostgreSQL and OPA are external: a fetch reads the whole   *)
(* table in one step, a push replaces one policy, and each may fail.       *)
(***************************************************************************)
EXTENDS Naturals, FiniteSets

CONSTANTS
  Policies,     \* policies, each with an OPA path of its own
  MaxUpdates,   \* bound: the last time at which a policy is saved
  MaxStarts,    \* bound: calls of start that find the watcher stopped
  MaxPolls,     \* bound: overlapping calls of checkForUpdates
  MaxFailures   \* bound: failed pushes, failed initial loads, OPA restarts

ASSUME HotReloadAssumption ==
  /\ MaxUpdates \in Nat \ {0}
  /\ MaxStarts \in Nat
  /\ MaxPolls \in Nat
  /\ MaxFailures \in Nat

VARIABLES
  now,            \* the clock: the time of the last save
  db,             \* db[p]: when policy p was last saved; stands for its content
  opa,            \* opa[p]: the content OPA has of p, 0 if none
  running,        \* PolicyHotReloadWatcher.running
  interval,       \* PolicyHotReloadWatcher.interval, 0 for null
  timers,         \* the intervals that have been set and not cleared
  lastCheckedAt,  \* PolicyHotReloadWatcher.lastCheckedAt
  loads,          \* the calls of start and checkForUpdates that wait
  starts,         \* how often start has begun; numbers its intervals
  failures,       \* what has failed so far
  failedStart,    \* history: running was set by a start whose initial load failed
  overtaken,      \* history: the starts that a stop has fallen into
  dropped,        \* history: policies a failure kept from OPA or removed from it
  raced           \* history: policies saved while a load was under way
                  \* (both since the policy was last saved with none under way)

watcher == <<running, interval, timers, lastCheckedAt>>
history == <<failures, failedStart, overtaken, dropped, raced>>
vars == <<now, db, opa, watcher, loads, starts, history>>

StartIds == 1..MaxStarts
PollIds == (MaxStarts + 1)..(MaxStarts + MaxPolls)
Content == [policy : Policies, version : 1..MaxUpdates]

\* A load still has to push todo.
Load == [id : StartIds \cup PollIds, todo : SUBSET Content]

Starting == {l \in loads : l.id \in StartIds}
StartingIds == {l.id : l \in Starting}
Polling == {l \in loads : l.id \in PollIds}
-----------------------------------------------------------------------------
\* Every policy is saved once before the watcher first starts.
Init ==
  /\ now = 1
  /\ db = [p \in Policies |-> 1]
  /\ opa = [p \in Policies |-> 0]
  /\ running = FALSE
  /\ interval = 0
  /\ timers = {}
  /\ lastCheckedAt = 0
  /\ loads = {}
  /\ starts = 0
  /\ failures = 0
  /\ failedStart = FALSE
  /\ overtaken = {}
  /\ dropped = {}
  /\ raced = {}

\* An administrator saves a policy.
SavePolicy(p) ==
  /\ now < MaxUpdates
  /\ now' = now + 1
  /\ db' = [db EXCEPT ![p] = now + 1]
  /\ raced' = IF loads = {} THEN raced \ {p} ELSE raced \cup {p}
  /\ dropped' = IF loads = {} THEN dropped \ {p} ELSE dropped
  /\ UNCHANGED <<opa, watcher, loads, starts, failures, failedStart, overtaken>>

\* fetchUpdatedPolicies(since)
Fetch(since) ==
  {[policy |-> p, version |-> db[p]] : p \in {q \in Policies : db[q] > since}}

\* Mutant: start does not look at running.
StartAgain ==
  /\ starts < MaxStarts
  /\ starts' = starts + 1
  /\ running' = TRUE
  /\ lastCheckedAt' = now
  /\ loads' = loads \cup {[id |-> starts + 1, todo |-> Fetch(0)]}
  /\ UNCHANGED <<now, db, opa, interval, timers, history>>

\* Mutant: start fetches what changes from now on.
StartFromNow ==
  /\ ~running
  /\ starts < MaxStarts
  /\ starts' = starts + 1
  /\ running' = TRUE
  /\ lastCheckedAt' = now
  /\ loads' = loads \cup {[id |-> starts + 1, todo |-> Fetch(now)]}
  /\ UNCHANGED <<now, db, opa, interval, timers, history>>

\* start: all policies are fetched; when it is running already, nothing is done.
Start ==
  /\ ~running
  /\ starts < MaxStarts
  /\ starts' = starts + 1
  /\ running' = TRUE
  /\ lastCheckedAt' = now
  /\ loads' = loads \cup {[id |-> starts + 1, todo |-> Fetch(0)]}
  /\ UNCHANGED <<now, db, opa, interval, timers, history>>

\* start: the fetch rejects and so does start, with running left on.
StartFails ==
  /\ ~running
  /\ starts < MaxStarts
  /\ failures < MaxFailures
  /\ starts' = starts + 1
  /\ failures' = failures + 1
  /\ running' = TRUE
  /\ lastCheckedAt' = now
  /\ failedStart' = TRUE
  /\ dropped' = Policies
  /\ UNCHANGED <<now, db, opa, interval, timers, loads, overtaken, raced>>

Pushed(l, c) == (loads \ {l}) \cup {[l EXCEPT !.todo = @ \ {c}]}

\* pushToOpa: OPA has taken the policy.
Push(l, c) ==
  /\ loads' = Pushed(l, c)
  /\ opa' = [opa EXCEPT ![c.policy] = c.version]
  /\ UNCHANGED <<now, db, watcher, starts, history>>

\* pushToOpa: OPA refuses or the request times out; that is logged, no more.
PushFails(l, c) ==
  /\ failures < MaxFailures
  /\ failures' = failures + 1
  /\ loads' = Pushed(l, c)
  /\ dropped' = dropped \cup {c.policy}
  /\ UNCHANGED <<now, db, opa, watcher, starts, failedStart, overtaken, raced>>

\* The initial load is done: start sets the interval, whatever stop has done.
SetInterval(l) ==
  /\ l.id \in StartIds
  /\ l.todo = {}
  /\ loads' = loads \ {l}
  /\ interval' = l.id
  /\ timers' = timers \cup {l.id}
  /\ UNCHANGED <<now, db, opa, running, lastCheckedAt, starts, history>>

\* Mutant: the poll notes its time before it fetches.
TickAdvancing(i) ==
  /\ timers # {}
  /\ i \notin {l.id : l \in loads}
  /\ lastCheckedAt' = now
  /\ loads' = loads \cup {[id |-> i, todo |-> Fetch(now)]}
  /\ UNCHANGED <<now, db, opa, running, interval, timers, starts, history>>

\* An interval fires: checkForUpdates fetches what has changed.  When the fetch
\* rejects, the poll ends and has changed nothing.
Tick(i) ==
  /\ timers # {}
  /\ i \notin {l.id : l \in loads}
  /\ loads' = loads \cup {[id |-> i, todo |-> Fetch(lastCheckedAt)]}
  /\ UNCHANGED <<now, db, opa, watcher, starts, history>>

\* Mutant: the poll notes a time that has not come yet.
PollDoneAhead(l) ==
  /\ l.id \in PollIds
  /\ l.todo = {}
  /\ loads' = loads \ {l}
  /\ lastCheckedAt' = now + 1
  /\ UNCHANGED <<now, db, opa, running, interval, timers, starts, history>>

\* checkForUpdates has pushed everything, and notes the time.
PollDone(l) ==
  /\ l.id \in PollIds
  /\ l.todo = {}
  /\ loads' = loads \ {l}
  /\ lastCheckedAt' = now
  /\ UNCHANGED <<now, db, opa, running, interval, timers, starts, history>>

\* stop clears the interval it knows of; a start that is under way goes on.
Stop ==
  /\ running' = FALSE
  /\ interval' = 0
  /\ timers' = timers \ {interval}
  /\ failedStart' = FALSE
  /\ overtaken' = overtaken \cup StartingIds
  /\ UNCHANGED <<now, db, opa, lastCheckedAt, loads, starts, failures, dropped, raced>>

\* The sidecar restarts: OPA keeps its policies in memory.
OpaRestarts ==
  /\ failures < MaxFailures
  /\ failures' = failures + 1
  /\ opa' = [p \in Policies |-> 0]
  /\ dropped' = Policies
  /\ UNCHANGED <<now, db, watcher, loads, starts, failedStart, overtaken, raced>>

Resume(l) ==
  \/ \E c \in l.todo : Push(l, c) \/ PushFails(l, c)
  \/ SetInterval(l)
  \/ PollDone(l)

Next ==
  \/ \E p \in Policies : SavePolicy(p)
  \/ Start
  \/ StartFails
  \/ \E i \in PollIds : Tick(i)
  \/ \E l \in loads : Resume(l)
  \/ Stop
  \/ OpaRestarts

Spec == Init /\ [][Next]_vars

\* The runtime fires a set interval again and again, PostgreSQL answers some
\* poll, and a push ends: loadPolicy carries a timeout.  Nobody has to save,
\* start or stop anything.
Fairness ==
  /\ WF_vars(\E i \in PollIds : Tick(i))
  /\ \A i \in StartIds \cup PollIds : WF_vars(\E l \in loads : l.id = i /\ Resume(l))

FairSpec == Spec /\ Fairness
-----------------------------------------------------------------------------
(* What the code keeps.                                                    *)

\* Every variable has its type.
TypeOK ==
  /\ now \in 1..MaxUpdates
  /\ db \in [Policies -> 1..MaxUpdates]
  /\ opa \in [Policies -> 0..MaxUpdates]
  /\ running \in BOOLEAN
  /\ interval \in 0..MaxStarts
  /\ timers \subseteq StartIds
  /\ lastCheckedAt \in 0..MaxUpdates
  /\ loads \subseteq Load
  /\ starts \in 0..MaxStarts
  /\ failures \in 0..MaxFailures
  /\ failedStart \in BOOLEAN
  /\ overtaken \subseteq StartIds
  /\ dropped \subseteq Policies
  /\ raced \subseteq Policies

\* start and stop, in any order and overlapping: there are never more intervals
\* that stop does not know of than there have been starts a stop fell into, and a
\* stopped watcher has no more than that; a running one that has finished starting
\* has an interval stop can clear, unless its initial load failed.
TimersAccountedFor ==
  /\ Cardinality(timers \ {interval}) <= Cardinality(overtaken)
  /\ ~running => Cardinality(timers) <= Cardinality(overtaken)
  /\ running /\ Starting = {} /\ ~failedStart => interval \in timers

\* When no start and no poll is under way, OPA has what was last saved of every policy
\* up to the last check, but for those saved while one was under way and those that
\* a failure kept from OPA.  Polls that overlap, pushes in any order, stops and new
\* starts leave no other policy stale.
StaleOnlyByOverlap ==
  loads = {} =>
    \A p \in Policies : db[p] <= lastCheckedAt => opa[p] = db[p] \/ p \in dropped \cup raced

\* A policy saved after the last check, at a moment when no poll is under way,
\* reaches OPA, unless the watcher is stopped or a failure keeps it from OPA:
\* neither polls that overlap from then on nor a new start can lose it.
SavedBetweenPollsTakesEffect ==
  \A p \in Policies, v \in 1..MaxUpdates :
    db[p] = v /\ lastCheckedAt < v /\ Polling = {} /\ timers # {}
      ~> opa[p] >= v \/ timers = {} \/ p \in dropped
-----------------------------------------------------------------------------
(* The inductive invariant.  Every interval and every start under way is one *)
(* a stop has fallen into, but for one when running was set by a start that  *)
(* did not fail; that one has its interval or is still to set it.            *)

StartIdsInv ==
  /\ \A l, m \in Starting : l.id = m.id => l = m
  /\ \A i \in StartingIds \cup timers \cup overtaken : i <= starts
  /\ StartingIds \cap timers = {}

TimerInv ==
  /\ Cardinality(timers \cup StartingIds)
       <= Cardinality(overtaken) + (IF running /\ ~failedStart THEN 1 ELSE 0)
  /\ failedStart => running
  /\ running /\ ~failedStart => interval \in timers \/ ~(StartingIds \subseteq overtaken)

\* Of a policy that was not raced and not dropped, every push still to come is of what
\* was last saved, and while anything is under way or once it was checked, OPA has
\* that or is about to.
UpToDate(p) ==
  /\ \A l \in loads : \A c \in l.todo : c.policy = p => c.version = db[p]
  /\ loads # {} \/ db[p] <= lastCheckedAt =>
       \/ opa[p] = db[p]
       \/ \E l \in loads : [policy |-> p, version |-> db[p]] \in l.todo

FreshInv ==
  /\ lastCheckedAt <= now
  /\ \A p \in Policies \ (dropped \cup raced) : UpToDate(p)
=============================================================================
