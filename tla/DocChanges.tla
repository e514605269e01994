----------------------------- MODULE DocChanges -----------------------------
(***************************************************************************)
(* From a change of a document to the notice its user gets: the poller of  *)
(* the Drive connector emits an event, and whoever the host routes it to   *)
(* asks DocumentChangeDetector what changed since the version in its cache *)
(* and NotificationService to tell the user.  Detections are not serialised*)
(* with each other.                                                        *)
(***************************************************************************)
EXTENDS GDrivePoller, FiniteSets

CONSTANT Monitors  \* bound: the events that are handled at once

VARIABLES
  inbox,     \* the events, by file, that no subscriber has taken yet
  docCache,  \* the version of each document in the cache, 0 for none
  monitor,   \* the handling of an event
  told,      \* the newest version of each file its user has been told, 0 for none
  pending    \* the notices in the pending queue

monitorVars == <<docCache, monitor, told, pending>>
vars == <<driveVars, pollerVars, failures, lost, inbox, monitorVars>>

Monitor ==
  [at : {"read", "get", "set", "evaluate", "deliver"}, file : Files,
   current : 0 .. MaxChanges, class : Classes]

Idle == [at |-> "idle"]

Init ==
  /\ PollerInit
  /\ inbox = [f \in Files |-> 0]
  /\ docCache = [f \in Files |-> 0]
  /\ monitor = [m \in Monitors |-> Idle]
  /\ told = [f \in Files |-> 0]
  /\ pending = 0

PollerUnchanged == UNCHANGED <<driveVars, pollerVars>>

\* The version of a file its connector reads, 0 when it has been removed.
CurrentVersion(f) ==
  LET newest == Max({0} \cup {i \in DOMAIN log : log[i].file = f})
  IN  IF newest = 0 THEN 0 ELSE IF log[newest].removed THEN 0 ELSE newest
-----------------------------------------------------------------------------
\* The host hands an event to its subscriber, which begins a detection.
Take(m, f) ==
  /\ monitor[m] = Idle
  /\ inbox[f] > 0
  /\ inbox' = [inbox EXCEPT ![f] = @ - 1]
  /\ monitor' = [monitor EXCEPT ![m] =
       [at |-> "read", file |-> f, current |-> 0, class |-> "minor"]]
  /\ UNCHANGED <<docCache, told, pending, failures, lost>>
  /\ PollerUnchanged

\* Mutant: a document that is gone is compared all the same.
ReadAnything(m) ==
  /\ monitor[m].at = "read"
  /\ monitor' = [monitor EXCEPT ![m] =
       [@ EXCEPT !.at = "get", !.current = CurrentVersion(monitor[m].file)]]
  /\ UNCHANGED <<docCache, told, pending, inbox, failures, lost>>
  /\ PollerUnchanged

\* detect: a document that cannot be found or accessed is not reported.
ReadDocument(m) ==
  LET current == CurrentVersion(monitor[m].file)
  IN  /\ monitor[m].at = "read"
      /\ monitor' = [monitor EXCEPT ![m] =
           IF revoked \/ current = 0 THEN Idle
           ELSE [@ EXCEPT !.at = "get", !.current = current]]
      /\ UNCHANGED <<docCache, told, pending, inbox, failures, lost>>
      /\ PollerUnchanged

\* Mutant: a document not in the cache yet is cached and not reported.
CompareKnownOnly(m) ==
  /\ monitor[m].at = "get"
  /\ \E class \in Classes :
       monitor' = [monitor EXCEPT ![m] =
         IF docCache[@.file] \in {0, @.current} THEN Idle
         ELSE [@ EXCEPT !.at = "set", !.class = class]]
  /\ docCache' = [docCache EXCEPT ![monitor[m].file] = IF @ = 0 THEN monitor[m].current ELSE @]
  /\ UNCHANGED <<told, pending, inbox, failures, lost>>
  /\ PollerUnchanged

\* The cached version is there: the same version is no change, one that was not
\* cached is minor for want of a difference, any other is classified by how much
\* of it differs.
Compare(m) ==
  /\ monitor[m].at = "get"
  /\ LET cached == docCache[monitor[m].file]
     IN  \E class \in IF cached = 0 THEN {"minor"} ELSE Classes :
           monitor' = [monitor EXCEPT ![m] =
             IF cached = @.current THEN Idle
             ELSE [@ EXCEPT !.at = "set", !.class = class]]
  /\ UNCHANGED <<docCache, told, pending, inbox, failures, lost>>
  /\ PollerUnchanged

\* The cache takes the version that was read, be it older than the one it has.
CacheSet(m) ==
  /\ monitor[m].at = "set"
  /\ docCache' = [docCache EXCEPT ![monitor[m].file] = monitor[m].current]
  /\ monitor' = [monitor EXCEPT ![m].at = "evaluate"]
  /\ UNCHANGED <<told, pending, inbox, failures, lost>>
  /\ PollerUnchanged

\* notifyDocumentChange: the policy suppresses the notice of a cosmetic change.
EvaluateNotice(m) ==
  /\ monitor[m].at = "evaluate"
  /\ IF monitor[m].class = "cosmetic"
     THEN /\ told' = [told EXCEPT ![monitor[m].file] = Max({@, monitor[m].current})]
          /\ monitor' = [monitor EXCEPT ![m] = Idle]
     ELSE /\ monitor' = [monitor EXCEPT ![m].at = "deliver"]
          /\ UNCHANGED told
  /\ UNCHANGED <<docCache, pending, inbox, failures, lost>>
  /\ PollerUnchanged

\* deliver: a notice its target does not take is queued, for good.
Deliver(m) ==
  /\ monitor[m].at = "deliver"
  /\ \/ /\ told' = [told EXCEPT ![monitor[m].file] = Max({@, monitor[m].current})]
        /\ UNCHANGED <<failures, pending>>
     \/ /\ Fails
        /\ pending' = pending + 1
        /\ UNCHANGED told
  /\ monitor' = [monitor EXCEPT ![m] = Idle]
  /\ UNCHANGED <<docCache, inbox, lost>>
  /\ PollerUnchanged

\* The connector, the cache, the policy or the target rejects: neither the
\* detector nor the service catches it.
MonitorFails(m) ==
  /\ monitor[m] # Idle
  /\ Fails
  /\ monitor' = [monitor EXCEPT ![m] = Idle]
  /\ lost' = TRUE
  /\ UNCHANGED <<docCache, told, pending, inbox>>
  /\ PollerUnchanged

MonitorStep(m) ==
  \/ ReadDocument(m) \/ Compare(m) \/ CacheSet(m)
  \/ EvaluateNotice(m) \/ Deliver(m) \/ MonitorFails(m)
-----------------------------------------------------------------------------
\* What the poller emits, the host routes to its subscribers.
Emitted(p) ==
  /\ Emit(p)
  /\ inbox' = [inbox EXCEPT ![log[Head(poll[p].todo)].file] = @ + 1]
  /\ UNCHANGED monitorVars

Unrouted == UNCHANGED <<inbox, monitorVars>>

Next ==
  \/ (Drive \/ Start \/ Stop \/ StartStep) /\ Unrouted
  \/ \E p \in Polls : Emitted(p) \/ ((Tick(p) \/ QuietStep(p)) /\ Unrouted)
  \/ \E m \in Monitors : MonitorStep(m) \/ \E f \in Files : Take(m, f)

Spec == Init /\ [][Next]_vars

\* Every call is answered or fails, an interval fires as long as it is set, and
\* the host hands every event on.
Fairness ==
  /\ WF_vars(StartStep /\ Unrouted)
  /\ WF_vars(\E p \in Polls : Tick(p) /\ Unrouted)
  /\ \A p \in Polls : WF_vars(Emitted(p) \/ (QuietStep(p) /\ Unrouted))
  /\ \A f \in Files : WF_vars(\E m \in Monitors : Take(m, f))
  /\ \A m \in Monitors : WF_vars(MonitorStep(m))

FairSpec == Spec /\ Fairness
-----------------------------------------------------------------------------
\* Types; a detection past its reading has a version that was made.
TypeOK ==
  /\ PollerTypeOK
  /\ inbox \in [Files -> Nat]
  /\ monitor \in [Monitors -> Monitor \cup {Idle}]
  /\ \A m \in Monitors :
       monitor[m].at \in {"get", "set", "evaluate", "deliver"} =>
         /\ monitor[m].current \in DOMAIN log
         /\ log[monitor[m].current].file = monitor[m].file
  /\ docCache \in [Files -> 0 .. MaxChanges]
  /\ told \in [Files -> 0 .. MaxChanges]
  /\ pending \in 0 .. MaxFailures

\* Change i is told: the user has been told of its version or of a later one, or
\* the policy has suppressed the notice.
Told(i) == i \in DOMAIN log /\ told[log[i].file] >= i

\* A change made while the poller runs is told to the user, whatever polls and
\* detections overlap and however often listing fails, unless the poller is
\* stopped, a later start skips it, it is on a page nobody reads, the document
\* goes, the target does not take the notice or a failure that nothing retries
\* loses it.
EveryChangeIsTold ==
  \A i \in Versions :
    (poller.running /\ i \in DOMAIN log /\ i > poller.since)
      ~> ( \/ Told(i) \/ ~poller.running \/ i <= poller.since \/ i \in unread
           \/ lost \/ pending > 0
           \/ \E j \in i .. Len(log) : log[j].file = log[i].file /\ log[j].removed )
=============================================================================
