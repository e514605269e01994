---------------------------- MODULE GDrivePoller ----------------------------
(***************************************************************************)
(* GDriveDocumentPoller: on an interval it lists the changes of the user's *)
(* drive since the page token it holds, classifies each, emits an event    *)
(* and then keeps the token from which later changes are listed.  It reads *)
(* one page of the list.  The interval waits for no poll, and stop and     *)
(* start wait for none either.  A version of a file is the number of the   *)
(* change that made it.                                                    *)
(***************************************************************************)
EXTENDS Integers, Sequences, SequencesExt

CONSTANTS
  Files,
  Polls,        \* bound: the polls that can be under way together
  MaxChanges,   \* bound: changes made to the drive
  MaxStarts,    \* bound: calls of start
  MaxFailures   \* bound: calls that fail, other than by the revocation

VARIABLES
  log,        \* the changes of the drive, in order
  revoked,    \* the user has revoked the access
  poller,     \* the service
  poll,       \* the calls of poll under way
  emitted,    \* the changes whose event has been emitted
  unread,     \* history: the changes on a later page of a list, which nobody reads
  failures,   \* calls that have failed
  lost        \* an event, or what was to be made of it, is lost by a failure

driveVars == <<log, revoked>>
pollerVars == <<poller, poll, emitted, unread>>
driverVars == <<driveVars, pollerVars, failures, lost>>

ASSUME PollerAssumption ==
  /\ MaxChanges \in Nat /\ MaxStarts \in Nat /\ MaxFailures \in Nat

Classes == {"cosmetic", "minor", "substantive", "critical"}

Change == [file : Files, removed : BOOLEAN]

Versions == 1 .. MaxChanges

\* intervals counts the intervals set and not cleared, timer says that the service
\* knows one of them, and revisions is its revision cache, 0 for a file it does not
\* hold.  since, which the code does not keep, is the token start obtained last.
Poller ==
  [running : BOOLEAN, token : 0 .. MaxChanges, since : 0 .. MaxChanges,
   timer : BOOLEAN, intervals : Nat, starts : Nat, starting : Nat,
   revisions : [Files -> 0 .. MaxChanges]]

\* A poll with the changes it has still to process and the token it will keep.
Poll ==
  [at : {"list", "process", "classify"},
   todo : Seq(Versions), next : 0 .. MaxChanges]

NoPoll == [at |-> "idle"]

PollerInit ==
  /\ log = << >>
  /\ revoked = FALSE
  /\ poller = [running |-> FALSE, token |-> 0, since |-> 0, timer |-> FALSE,
               intervals |-> 0, starts |-> 0, starting |-> 0,
               revisions |-> [f \in Files |-> 0]]
  /\ poll = [p \in Polls |-> NoPoll]
  /\ emitted = {}
  /\ unread = {}
  /\ failures = 0
  /\ lost = FALSE
-----------------------------------------------------------------------------
(* The drive and its user. *)

Edit(f, removed) ==
  /\ Len(log) < MaxChanges
  /\ log' = Append(log, [file |-> f, removed |-> removed])
  /\ UNCHANGED <<revoked, pollerVars, failures, lost>>

Revoke ==
  /\ ~revoked
  /\ revoked' = TRUE
  /\ UNCHANGED <<log, pollerVars, failures, lost>>

Fails == failures < MaxFailures /\ failures' = failures + 1
-----------------------------------------------------------------------------
(* start and stop. *)

\* start asks for a page token, unless the service is running.
Start ==
  /\ ~poller.running
  /\ poller.starts < MaxStarts
  /\ poller' = [poller EXCEPT !.starts = @ + 1, !.starting = @ + 1]
  /\ UNCHANGED <<driveVars, poll, emitted, unread, failures, lost>>

\* The token is there, be it that the access was revoked while it was on its way:
\* the service is running from now on, whatever has been called since, and sets an
\* interval.
Started ==
  /\ poller.starting > 0
  /\ poller' = [poller EXCEPT
       !.starting = @ - 1, !.running = TRUE, !.timer = TRUE, !.intervals = @ + 1,
       !.token = Len(log), !.since = Len(log)]
  /\ UNCHANGED <<driveVars, poll, emitted, unread, failures, lost>>

\* handleStartupError: a revocation stops the service, but not its interval.
StartRevoked ==
  /\ poller.starting > 0 /\ revoked
  /\ poller' = [poller EXCEPT !.starting = @ - 1, !.running = FALSE]
  /\ UNCHANGED <<driveVars, poll, emitted, unread, failures, lost>>

StartFails ==
  /\ poller.starting > 0
  /\ Fails
  /\ poller' = [poller EXCEPT !.starting = @ - 1]
  /\ UNCHANGED <<driveVars, poll, emitted, unread, lost>>

\* The interval the service knows of is cleared.
Stopped(s) ==
  [s EXCEPT !.running = FALSE, !.timer = FALSE,
            !.intervals = IF s.timer THEN @ - 1 ELSE @]

\* stop also forgets the revisions; the page token stays, and so does a start that
\* is under way.
Stop ==
  /\ poller' = [Stopped(poller) EXCEPT !.revisions = [f \in Files |-> 0]]
  /\ UNCHANGED <<driveVars, poll, emitted, unread, failures, lost>>
-----------------------------------------------------------------------------
(* poll. *)

\* An interval fires; the poll of a service that is not running ends at once.
Tick(p) ==
  /\ poller.intervals > 0 /\ poller.running
  /\ poll[p] = NoPoll
  /\ poll' = [poll EXCEPT ![p] = [at |-> "list", todo |-> << >>, next |-> poller.token]]
  /\ UNCHANGED <<driveVars, poller, emitted, unread, failures, lost>>

\* The first page of the list holds the first n changes after the token, one at
\* least when there are any; what is on the later pages nobody asks for.
Page(p, n) ==
  /\ poll[p].at = "list" /\ ~revoked
  /\ n <= Len(log) - poll[p].next
  /\ n = 0 => poll[p].next = Len(log)
  /\ poll' = [poll EXCEPT ![p] =
       [at |-> "process", todo |-> [k \in 1 .. n |-> @.next + k], next |-> Len(log)]]
  /\ unread' = unread \cup (poll[p].next + n + 1 .. Len(log))
  /\ UNCHANGED <<driveVars, emitted, failures, lost>>

\* Mutant: the token is kept before the changes are processed.
ListedAndKept(p) ==
  /\ \E n \in 0 .. MaxChanges : Page(p, n)
  /\ poller' = [poller EXCEPT !.token = Len(log)]

\* listChanges answers with a page of the changes since the token the poll began
\* with and with the newStartPageToken, that of the end of the list.
Listed(p) ==
  /\ \E n \in 0 .. MaxChanges : Page(p, n)
  /\ UNCHANGED poller

\* Mutant: a revocation is taken for a failure that passes.
ListRevokedIsTransient(p) ==
  /\ poll[p].at = "list" /\ revoked
  /\ poll' = [poll EXCEPT ![p] = NoPoll]
  /\ UNCHANGED <<driveVars, poller, emitted, unread, failures, lost>>

\* handlePollError: a revocation stops the service, any other failure is left to
\* the next poll.
ListRevoked(p) ==
  /\ poll[p].at = "list" /\ revoked
  /\ poller' = Stopped(poller)
  /\ poll' = [poll EXCEPT ![p] = NoPoll]
  /\ UNCHANGED <<driveVars, emitted, unread, failures, lost>>

ListFails(p) ==
  /\ poll[p].at = "list"
  /\ Fails
  /\ poll' = [poll EXCEPT ![p] = NoPoll]
  /\ UNCHANGED <<driveVars, poller, emitted, unread, lost>>

\* Change i is of a file the revision cache holds: its contents are to be compared.
Known(i) == ~log[i].removed /\ poller.revisions[log[i].file] # 0

\* processChange of the next change: a known file's contents are fetched first.
Classify(p) ==
  /\ poll[p].at = "process" /\ poll[p].todo # << >>
  /\ Known(Head(poll[p].todo))
  /\ poll' = [poll EXCEPT ![p].at = "classify"]
  /\ UNCHANGED <<driveVars, poller, emitted, unread, failures, lost>>

\* The event of the next change is due: the contents are there, or cannot be
\* fetched, which makes the change minor; a removal and a new file need none.
EventDue(p) ==
  \/ poll[p].at = "classify"
  \/ /\ poll[p].at = "process" /\ poll[p].todo # << >>
     /\ ~Known(Head(poll[p].todo))

\* The rest of processChange, the revision cache following the change.
Processed(p) ==
  LET i == Head(poll[p].todo)
  IN  /\ poller' = [poller EXCEPT
           !.revisions[log[i].file] = IF log[i].removed THEN 0 ELSE i]
      /\ poll' = [poll EXCEPT ![p].at = "process", ![p].todo = Tail(@)]

\* emitEvent: the listener hands the event to the host, and there is nothing to
\* wait for.
Emit(p) ==
  /\ EventDue(p)
  /\ emitted' = emitted \cup {Head(poll[p].todo)}
  /\ Processed(p)
  /\ UNCHANGED <<driveVars, unread, failures, lost>>

\* What the listener throws is swallowed.
EmitFails(p) ==
  /\ EventDue(p)
  /\ Fails
  /\ lost' = TRUE
  /\ Processed(p)
  /\ UNCHANGED <<driveVars, emitted, unread>>

\* Every change is processed: the token of the answer replaces the one at hand,
\* be it a later one.
Polled(p) ==
  /\ poll[p].at = "process" /\ poll[p].todo = << >>
  /\ poller' = [poller EXCEPT !.token = poll[p].next]
  /\ poll' = [poll EXCEPT ![p] = NoPoll]
  /\ UNCHANGED <<driveVars, emitted, unread, failures, lost>>

\* The steps of a poll other than the emission of an event.
QuietStep(p) ==
  \/ Listed(p) \/ ListRevoked(p) \/ ListFails(p)
  \/ Classify(p) \/ EmitFails(p) \/ Polled(p)

PollStep(p) == Emit(p) \/ QuietStep(p)

StartStep == Started \/ StartRevoked \/ StartFails

Drive == Revoke \/ \E f \in Files, removed \in BOOLEAN : Edit(f, removed)

PollerNext ==
  \/ Drive \/ Start \/ Stop \/ StartStep
  \/ \E p \in Polls : Tick(p) \/ PollStep(p)

PollerSpec == PollerInit /\ [][PollerNext]_driverVars

\* Every call is answered or fails, and an interval fires as long as it is set.
PollerFairness ==
  /\ WF_driverVars(StartStep)
  /\ WF_driverVars(\E p \in Polls : Tick(p))
  /\ \A p \in Polls : WF_driverVars(PollStep(p))

FairPollerSpec == PollerSpec /\ PollerFairness
-----------------------------------------------------------------------------
\* Types, and a running poller has an interval, which the service knows of or not.
PollerTypeOK ==
  /\ log \in Seq(Change)
  /\ poller \in Poller
  /\ poller.running => poller.intervals > 0
  /\ poll \in [Polls -> Poll \cup {NoPoll}]

\* Overlapping polls, stops and restarts never move the page token past a change
\* made since the last start whose event was not emitted, but for the changes on a
\* page that was not read and for an event lost with what its listener threw.
SkippedOnlyByPaging ==
  lost \/ \A i \in poller.since + 1 .. poller.token : i \in emitted \cup unread

\* Once the user has revoked the access, the poller stops, and no start or answer
\* that was under way makes it run again.
RevocationStopsWatching == revoked ~> [](~poller.running)
=============================================================================
