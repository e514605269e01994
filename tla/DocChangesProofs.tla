-------------------------- MODULE DocChangesProofs --------------------------
(* Theorems about GDrivePoller and DocChanges, for any files, monitors and *)
(* bounds.                                                                 *)
EXTENDS DocChanges, FiniteSetTheorems, SequenceTheorems, WellFoundedInduction, TLAPS

(***************************************************************************)
(* The poller: types.                                                      *)
(***************************************************************************)

\* What is under way in a poll, and what it may still process.
PollOf(p) == poll[p] # NoPoll

\* A token, and what a poll works on, is no further than the drive's log; a running
\* service knows its interval.
PollerInv ==
  /\ PollerTypeOK
  /\ Len(log) <= MaxChanges
  /\ poller.running => poller.timer
  /\ poller.timer => poller.intervals > 0
  /\ poller.token <= Len(log) /\ poller.since <= Len(log)
  /\ \A p \in Polls : PollOf(p) =>
       /\ poll[p].next <= Len(log)
       /\ \A k \in DOMAIN poll[p].todo : poll[p].todo[k] <= Len(log)
       /\ poll[p].at = "classify" => poll[p].todo # << >>

LEMMA PollTyped ==
  ASSUME PollerInv, NEW p \in Polls, poll[p].at # "idle"
  PROVE  poll[p] \in Poll /\ PollOf(p)
  BY DEF PollerInv, PollerTypeOK, NoPoll, Poll, PollOf

\* The change a poll processes next is one of the log.
LEMMA NextChange ==
  ASSUME PollerInv, NEW p \in Polls, EventDue(p)
  PROVE  /\ poll[p] \in Poll /\ poll[p].todo # << >>
         /\ Head(poll[p].todo) \in Versions
         /\ Head(poll[p].todo) \in DOMAIN log
         /\ log[Head(poll[p].todo)] \in Change
<1>1. poll[p] \in Poll /\ PollOf(p)
  BY PollTyped DEF EventDue
<1>2. poll[p].todo # << >>
  BY <1>1 DEF EventDue, PollerInv
<1>3. poll[p].todo \in Seq(Versions) /\ log \in Seq(Change)
  BY <1>1 DEF Poll, PollerInv, PollerTypeOK
<1>4. 1 \in DOMAIN poll[p].todo /\ Head(poll[p].todo) = poll[p].todo[1]
  BY <1>2, <1>3
<1>5. Head(poll[p].todo) \in Versions /\ Head(poll[p].todo) <= Len(log)
  BY <1>1, <1>3, <1>4 DEF PollerInv
<1>6. Head(poll[p].todo) \in 1 .. Len(log)
  BY <1>3, <1>5 DEF Versions
<1>. QED
  BY <1>1, <1>2, <1>3, <1>5, <1>6

LEMMA StoppedType ==
  ASSUME PollerInv
  PROVE  /\ Stopped(poller) \in Poller
         /\ ~Stopped(poller).running /\ ~Stopped(poller).timer
         /\ Stopped(poller).token = poller.token /\ Stopped(poller).since = poller.since
<1>1. /\ poller \in Poller /\ poller.intervals \in Nat
      /\ poller.timer => poller.intervals > 0
  BY DEF PollerInv, PollerTypeOK, Poller
<1>2. PICK n \in Nat : n = IF poller.timer THEN poller.intervals - 1 ELSE poller.intervals
  BY <1>1
<1>3. Stopped(poller) =
        [poller EXCEPT !.running = FALSE, !.timer = FALSE, !.intervals = n]
  BY <1>2 DEF Stopped
<1>. QED
  BY <1>1, <1>3 DEF Poller

LEMMA PollerInvInit == PollerInit => PollerInv
  BY PollerAssumption
  DEF PollerInit, PollerInv, PollerTypeOK, Poller, PollOf, NoPoll

LEMMA DriveInv ==
  ASSUME PollerInv, Drive
  PROVE  PollerInv'
<1>1. CASE Revoke
  BY <1>1 DEF Revoke, PollerInv, PollerTypeOK, PollOf, pollerVars
<1>2. ASSUME NEW f \in Files, NEW removed \in BOOLEAN, Edit(f, removed)
      PROVE  PollerInv'
  <2>1. /\ log' = Append(log, [file |-> f, removed |-> removed])
        /\ Len(log) < MaxChanges /\ UNCHANGED <<poller, poll>>
    BY <1>2 DEF Edit, pollerVars
  <2>2. log' \in Seq(Change) /\ Len(log') = Len(log) + 1 /\ Len(log) \in Nat
    BY <2>1 DEF PollerInv, PollerTypeOK, Change
  <2>3. \A p \in Polls : PollOf(p)' =>
          /\ poll'[p].next <= Len(log')
          /\ \A k \in DOMAIN poll'[p].todo : poll'[p].todo[k] <= Len(log')
          /\ poll'[p].at = "classify" => poll'[p].todo # << >>
    <3>. SUFFICES ASSUME NEW p \in Polls, PollOf(p)'
                  PROVE  /\ poll[p].next <= Len(log')
                         /\ \A k \in DOMAIN poll[p].todo : poll[p].todo[k] <= Len(log')
                         /\ poll[p].at = "classify" => poll[p].todo # << >>
      BY <2>1
    <3>1. poll[p] \in Poll /\ PollOf(p)
      BY <2>1 DEF PollOf, PollerInv, PollerTypeOK
    <3>2. poll[p].next \in Nat /\ poll[p].todo \in Seq(Versions)
      BY <3>1, PollerAssumption DEF Poll
    <3>3. \A k \in DOMAIN poll[p].todo : poll[p].todo[k] \in Nat
      BY <3>2, PollerAssumption DEF Versions
    <3>. QED
      BY <2>2, <3>1, <3>2, <3>3 DEF PollerInv
  <2>. QED
    BY <2>1, <2>2, <2>3, PollerAssumption DEF PollerInv, PollerTypeOK, Poller
<1>. QED
  BY <1>1, <1>2 DEF Drive

\* A step of the service alone keeps what is said of the polls.
LEMMA ServiceStep ==
  ASSUME PollerInv, UNCHANGED <<log, poll>>, poller' \in Poller,
         poller'.running => poller'.timer,
         poller'.timer => poller'.intervals > 0,
         poller'.token <= Len(log), poller'.since <= Len(log)
  PROVE  PollerInv'
  BY DEF PollerInv, PollerTypeOK, PollOf, Poller

LEMMA StartStopInv ==
  ASSUME PollerInv, Start \/ Stop \/ StartStep
  PROVE  PollerInv'
<1>. USE DEF driveVars
<1>0. poller \in Poller /\ Len(log) \in 0 .. MaxChanges
  BY PollerAssumption DEF PollerInv, PollerTypeOK
<1>1. CASE Start \/ StartRevoked \/ StartFails
  <2>1. PICK n \in Nat, k \in Nat :
          n = poller.starts + 1 /\ k = poller.starting + 1
    BY <1>0 DEF Poller
  <2>2. /\ poller' \in Poller /\ (poller'.running => poller.running)
        /\ poller'.timer = poller.timer /\ poller'.intervals = poller.intervals
        /\ poller'.token = poller.token /\ poller'.since = poller.since
    <3>1. CASE Start
      <4>1. poller' = [poller EXCEPT !.starts = n, !.starting = k]
        BY <2>1, <3>1 DEF Start
      <4>. QED
        BY <1>0, <4>1 DEF Poller
    <3>2. CASE StartRevoked \/ StartFails
      <4>1. PICK j \in Nat : j = poller.starting - 1
        BY <1>0, <3>2 DEF StartRevoked, StartFails, Poller
      <4>2. \/ poller' = [poller EXCEPT !.starting = j, !.running = FALSE]
            \/ poller' = [poller EXCEPT !.starting = j]
        BY <3>2, <4>1 DEF StartRevoked, StartFails
      <4>. QED
        BY <1>0, <4>2 DEF Poller
    <3>. QED
      BY <1>1, <3>1, <3>2
  <2>3. UNCHANGED <<log, poll>>
    BY <1>1 DEF Start, StartRevoked, StartFails
  <2>. QED
    BY <2>2, <2>3, ServiceStep DEF PollerInv
<1>2. CASE Started
  <2>1. PICK n \in Nat, k \in Nat :
          n = poller.intervals + 1 /\ n > 0 /\ k = poller.starting - 1
    BY <1>0, <1>2 DEF Started, Poller
  <2>3. poller' = [poller EXCEPT !.starting = k, !.running = TRUE, !.timer = TRUE,
                                 !.intervals = n, !.token = Len(log), !.since = Len(log)]
    BY <1>2, <2>1 DEF Started
  <2>2. /\ poller' \in Poller /\ poller'.timer /\ poller'.intervals > 0
        /\ poller'.token = Len(log) /\ poller'.since = Len(log)
    BY <1>0, <2>1, <2>3 DEF Poller
  <2>. QED
    BY <1>0, <1>2, <2>2, ServiceStep DEF Started
<1>3. CASE Stop
  <2>1. PICK s \in Poller : /\ s = Stopped(poller) /\ ~s.running /\ ~s.timer
                            /\ s.token = poller.token /\ s.since = poller.since
    BY StoppedType
  <2>2. poller' = [s EXCEPT !.revisions = [f \in Files |-> 0]]
    BY <1>3, <2>1 DEF Stop
  <2>3. /\ poller' \in Poller /\ ~poller'.running /\ ~poller'.timer
        /\ poller'.token = poller.token /\ poller'.since = poller.since
    BY <2>1, <2>2, PollerAssumption DEF Poller
  <2>. QED
    BY <1>3, <2>3, ServiceStep DEF Stop, PollerInv
<1>. QED
  BY <1>1, <1>2, <1>3 DEF StartStep

\* A poll that moves leaves the others and, but for its token and the revisions,
\* the service as they are.
LEMMA OnePollStep ==
  ASSUME PollerInv, NEW p \in Polls, NEW q \in Poll \cup {NoPoll},
         poll' = [poll EXCEPT ![p] = q], log' = log,
         poller' \in Poller, poller'.running => poller'.timer,
         poller'.timer => poller'.intervals > 0,
         poller'.token <= Len(log), poller'.since <= Len(log),
         q # NoPoll =>
           /\ q.next <= Len(log)
           /\ \A k \in DOMAIN q.todo : q.todo[k] <= Len(log)
           /\ q.at = "classify" => q.todo # << >>
  PROVE  PollerInv'
<1>1. /\ poll' \in [Polls -> Poll \cup {NoPoll}]
      /\ \A r \in Polls : poll'[r] = IF r = p THEN q ELSE poll[r]
  BY DEF PollerInv, PollerTypeOK
<1>2. \A r \in Polls : PollOf(r)' =>
        /\ poll'[r].next <= Len(log)
        /\ \A k \in DOMAIN poll'[r].todo : poll'[r].todo[k] <= Len(log)
        /\ poll'[r].at = "classify" => poll'[r].todo # << >>
  BY <1>1 DEF PollerInv, PollOf
<1>. QED
  BY <1>1, <1>2 DEF PollerInv, PollerTypeOK, Poller

LEMMA PollTypes ==
  ASSUME PollerInv
  PROVE  /\ Len(log) \in 0 .. MaxChanges /\ log \in Seq(Change)
         /\ DOMAIN log = 1 .. Len(log) /\ poller \in Poller
         /\ poller.token \in Nat /\ poller.since \in Nat
         /\ \A p \in Polls : PollOf(p) =>
              /\ poll[p] \in Poll /\ poll[p].next \in Nat
              /\ poll[p].todo \in Seq(Versions)
  BY PollerAssumption DEF PollerInv, PollerTypeOK, Poller, PollOf, Poll

LEMMA TickInv ==
  ASSUME PollerInv, NEW p \in Polls, Tick(p)
  PROVE  PollerInv'
<1>1. PICK q : q = [at |-> "list", todo |-> << >>, next |-> poller.token]
  OBVIOUS
<1>2. q \in Poll /\ q.next = poller.token /\ q.todo = << >> /\ q.at = "list"
  BY <1>1, PollTypes DEF Poll, Poller
<1>3. poll' = [poll EXCEPT ![p] = q] /\ UNCHANGED <<log, poller>>
  BY <1>1 DEF Tick, driveVars
<1>4. \A k \in DOMAIN q.todo : q.todo[k] <= Len(log)
  BY <1>2
<1>5. poller \in Poller
  BY PollTypes
<1>. QED
  BY <1>2, <1>3, <1>4, <1>5, OnePollStep DEF PollerInv

\* listChanges: what a poll has to process are the first of the changes after its
\* token, and what comes after them is left unread.
LEMMA ListedPoll ==
  ASSUME PollerInv, NEW p \in Polls, Listed(p)
  PROVE  \E q \in Poll, n \in Nat :
           /\ poll' = [poll EXCEPT ![p] = q] /\ UNCHANGED <<log, poller>>
           /\ n <= Len(log) - poll[p].next
           /\ q.at = "process" /\ q.next = Len(log)
           /\ DOMAIN q.todo = 1 .. n
           /\ \A k \in DOMAIN q.todo : q.todo[k] = poll[p].next + k
           /\ unread' = unread \cup (poll[p].next + n + 1 .. Len(log))
<1>1. poll[p] \in Poll /\ PollOf(p) /\ poll[p].next \in Nat /\ poll[p].next <= Len(log)
  BY PollTyped, PollTypes DEF Listed, Page, PollerInv
<1>2. PICK from \in Nat : from = poll[p].next
  BY <1>1
<1>3. PICK len \in Nat : len = Len(log) /\ len <= MaxChanges /\ from <= len
  <2>1. Len(log) \in Nat /\ Len(log) <= MaxChanges
    BY PollTypes, PollerAssumption
  <2>. QED
    BY <1>1, <1>2, <2>1
<1>4. PICK n \in Nat : n <= len - from /\ Page(p, n)
  <2>1. PICK n \in 0 .. MaxChanges : Page(p, n)
    BY DEF Listed
  <2>2. n \in Nat /\ n <= Len(log) - poll[p].next
    BY <2>1, PollerAssumption DEF Page
  <2>. QED
    BY <1>2, <1>3, <2>1, <2>2
<1>5. PICK todo : todo = [k \in 1 .. n |-> from + k]
  OBVIOUS
<1>6. todo \in Seq(Versions)
  BY <1>3, <1>4, <1>5, PollerAssumption DEF Versions
<1>7. PICK q : q = [at |-> "process", todo |-> todo, next |-> len]
  OBVIOUS
<1>8. q \in Poll
  BY <1>3, <1>6, <1>7, PollerAssumption DEF Poll
<1>9. poll' = [poll EXCEPT ![p] = q] /\ UNCHANGED <<log, poller>>
  BY <1>2, <1>3, <1>4, <1>5, <1>7 DEF Listed, Page, driveVars
<1>10. unread' = unread \cup (poll[p].next + n + 1 .. Len(log))
  BY <1>4 DEF Page
<1>. QED
  BY <1>2, <1>3, <1>4, <1>5, <1>7, <1>8, <1>9, <1>10

LEMMA ListedInv ==
  ASSUME PollerInv, NEW p \in Polls, Listed(p)
  PROVE  PollerInv'
<1>1. poll[p] \in Poll /\ PollOf(p) /\ poll[p].next \in Nat
  BY PollTyped, PollTypes DEF Listed, Page
<1>2. PICK q \in Poll, n \in Nat :
        /\ poll' = [poll EXCEPT ![p] = q] /\ UNCHANGED <<log, poller>>
        /\ n <= Len(log) - poll[p].next
        /\ q.at = "process" /\ q.next = Len(log)
        /\ DOMAIN q.todo = 1 .. n
        /\ \A k \in DOMAIN q.todo : q.todo[k] = poll[p].next + k
  BY ListedPoll
<1>3. \A k \in DOMAIN q.todo : q.todo[k] <= Len(log)
  <2>1. PICK from \in Nat, len \in Nat : from = poll[p].next /\ len = Len(log)
    <3>1. Len(log) \in Nat
      BY PollTypes, PollerAssumption
    <3>. QED
      BY <1>1, <3>1
  <2>2. n <= len - from /\ DOMAIN q.todo = 1 .. n
        /\ \A k \in DOMAIN q.todo : q.todo[k] = from + k
    BY <1>2, <2>1
  <2>3. \A k \in 1 .. n : from + k <= len
    BY <2>2
  <2>. QED
    BY <2>1, <2>2, <2>3
<1>4. poller \in Poller /\ Len(log) <= Len(log)
  BY PollTypes
<1>. QED
  BY <1>2, <1>3, <1>4, OnePollStep DEF PollerInv

LEMMA PollEndsInv ==
  ASSUME PollerInv, NEW p \in Polls, ListRevoked(p) \/ ListFails(p) \/ Polled(p)
  PROVE  PollerInv'
<1>1. poll' = [poll EXCEPT ![p] = NoPoll] /\ log' = log
  BY DEF ListRevoked, ListFails, Polled, driveVars
<1>2. CASE ListRevoked(p)
  <2>1. poller' = Stopped(poller)
    BY <1>2 DEF ListRevoked
  <2>. QED
    BY <1>1, <2>1, StoppedType, OnePollStep DEF PollerInv
<1>3. CASE ListFails(p)
  <2>1. poller' = poller
    BY <1>3 DEF ListFails
  <2>. QED
    BY <1>1, <2>1, PollTypes, OnePollStep DEF PollerInv
<1>4. CASE Polled(p)
  <2>1. PICK n \in 0 .. MaxChanges : n = poll[p].next /\ n <= Len(log)
    BY <1>4, PollTyped DEF Polled, Poll, PollerInv
  <2>2. poller' = [poller EXCEPT !.token = n]
    BY <1>4, <2>1 DEF Polled
  <2>3. /\ poller' \in Poller /\ poller'.token = n /\ poller'.since = poller.since
        /\ poller'.running = poller.running /\ poller'.timer = poller.timer
        /\ poller'.intervals = poller.intervals
    BY <2>2, PollTypes DEF Poller
  <2>. QED
    BY <1>1, <2>1, <2>3, OnePollStep DEF PollerInv
<1>. QED
  BY <1>2, <1>3, <1>4

LEMMA ClassifyInv ==
  ASSUME PollerInv, NEW p \in Polls, Classify(p)
  PROVE  PollerInv'
<1>1. poll[p] \in Poll /\ PollOf(p)
  BY PollTyped DEF Classify
<1>2. PICK q : q = [poll[p] EXCEPT !.at = "classify"]
  OBVIOUS
<1>3. q \in Poll /\ q.next = poll[p].next /\ q.todo = poll[p].todo
  BY <1>1, <1>2 DEF Poll
<1>4. poll' = [poll EXCEPT ![p] = q] /\ UNCHANGED <<log, poller>> /\ poll[p].todo # << >>
  BY <1>2 DEF Classify, driveVars
<1>. QED
  BY <1>1, <1>3, <1>4, PollTypes, OnePollStep DEF PollerInv

\* processChange takes the next change off and keeps the page tokens.
LEMMA ProcessedPoll ==
  ASSUME PollerInv, NEW p \in Polls, EventDue(p), Processed(p)
  PROVE  /\ poller' \in Poller
         /\ poller'.running = poller.running /\ poller'.timer = poller.timer
         /\ poller'.intervals = poller.intervals
         /\ poller'.token = poller.token /\ poller'.since = poller.since
         /\ \E q \in Poll :
              /\ poll' = [poll EXCEPT ![p] = q] /\ q.at = "process"
              /\ q.next = poll[p].next /\ q.todo = Tail(poll[p].todo)
<1>1. PICK i \in Versions : i = Head(poll[p].todo)
  BY NextChange
<1>2. PICK f \in Files : f = log[i].file
  BY <1>1, NextChange DEF Change
<1>3. PICK v \in 0 .. MaxChanges : v = IF log[i].removed THEN 0 ELSE i
  BY <1>1, PollerAssumption DEF Versions
<1>4. poller' = [poller EXCEPT !.revisions[f] = v]
  BY <1>1, <1>2, <1>3 DEF Processed
<1>5. PICK r : r = [poller.revisions EXCEPT ![f] = v]
  OBVIOUS
<1>6. r \in [Files -> 0 .. MaxChanges] /\ poller' = [poller EXCEPT !.revisions = r]
  BY <1>4, <1>5, PollTypes DEF Poller
<1>7. PICK q : q = [poll[p] EXCEPT !.at = "process", !.todo = Tail(poll[p].todo)]
  OBVIOUS
<1>8. Tail(poll[p].todo) \in Seq(Versions)
  BY NextChange, HeadTailProperties DEF Poll
<1>9. q \in Poll /\ q.at = "process" /\ q.next = poll[p].next
      /\ q.todo = Tail(poll[p].todo)
  BY <1>7, <1>8, NextChange DEF Poll
<1>10. poll' = [poll EXCEPT ![p] = q]
  BY <1>7 DEF Processed
<1>. QED
  BY <1>6, <1>9, <1>10, PollTypes DEF Poller

LEMMA ProcessedInv ==
  ASSUME PollerInv, NEW p \in Polls, Emit(p) \/ EmitFails(p)
  PROVE  PollerInv'
<1>1. EventDue(p) /\ Processed(p) /\ log' = log
  BY DEF Emit, EmitFails, driveVars
<1>2. PICK q \in Poll :
        /\ poll' = [poll EXCEPT ![p] = q] /\ q.at = "process"
        /\ q.next = poll[p].next /\ q.todo = Tail(poll[p].todo)
  BY <1>1, ProcessedPoll
<1>3. PollOf(p) /\ poll[p] \in Poll /\ poll[p].todo # << >>
  BY <1>1, NextChange, PollTyped DEF EventDue
<1>4. \A k \in DOMAIN q.todo : q.todo[k] <= Len(log)
  <2>1. poll[p].todo \in Seq(Versions)
    BY <1>3 DEF Poll
  <2>2. \A k \in DOMAIN q.todo : k + 1 \in DOMAIN poll[p].todo
                                  /\ q.todo[k] = poll[p].todo[k + 1]
    BY <1>2, <1>3, <2>1
  <2>. QED
    BY <1>3, <2>2 DEF PollerInv
<1>. QED
  BY <1>1, <1>2, <1>3, <1>4, ProcessedPoll, OnePollStep DEF PollerInv

LEMMA PollerInvStep == PollerInv /\ [PollerNext]_driverVars => PollerInv'
<1>. SUFFICES ASSUME PollerInv, [PollerNext]_driverVars PROVE PollerInv'
  OBVIOUS
<1>1. CASE UNCHANGED driverVars
  BY <1>1 DEF driverVars, driveVars, pollerVars, PollerInv, PollerTypeOK, PollOf
<1>. QED
  BY <1>1, DriveInv, StartStopInv, TickInv, ListedInv, PollEndsInv, ClassifyInv,
     ProcessedInv DEF PollerNext, PollStep, QuietStep

\* Every variable of the poller keeps its type and a running service has an interval,
\* whatever the user, the host and the drive do.
THEOREM PollerTypeCorrect == PollerSpec => []PollerTypeOK
<1>1. PollerInv => PollerTypeOK
  BY DEF PollerInv
<1>. QED
  BY <1>1, PollerInvInit, PollerInvStep, PTL DEF PollerSpec

(***************************************************************************)
(* The poller: no change is skipped, but for those on pages nobody reads.  *)
(***************************************************************************)

\* The changes that need no event any more: they have it or are left unread.
Accounted == emitted \cup unread

\* Change i is accounted for, or poll p is still to emit it.
EmittedOrDue(p, i) ==
  \/ i \in Accounted
  \/ poll[p].at # "list" /\ \E k \in DOMAIN poll[p].todo : poll[p].todo[k] = i

\* Up to the page token every change is accounted for; up to the token a poll will
\* keep, every change is or the poll has still to process it.
SkipInv ==
  lost \/ /\ SkippedOnlyByPaging
          /\ \A p \in Polls : PollOf(p) =>
               \A i \in poller.since + 1 .. poll[p].next : EmittedOrDue(p, i)

\* A step that emits nothing, takes no token back and works on one poll only.
LEMMA SkipStep ==
  ASSUME PollerInv, PollerInv', SkipInv, lost => lost', Accounted \subseteq Accounted',
         poller'.since = poller.since, poller'.token = poller.token,
         NEW p \in Polls, \A r \in Polls : r # p => poll'[r] = poll[r],
         lost' \/ (PollOf(p)' =>
           \A i \in poller'.since + 1 .. poll'[p].next : EmittedOrDue(p, i)')
  PROVE  SkipInv'
<1>1. CASE lost'
  BY <1>1 DEF SkipInv
<1>2. CASE ~lost'
  <2>1. SkippedOnlyByPaging'
    BY <1>2 DEF SkipInv, SkippedOnlyByPaging, Accounted
  <2>2. ASSUME NEW r \in Polls, PollOf(r)'
        PROVE  \A i \in poller'.since + 1 .. poll'[r].next : EmittedOrDue(r, i)'
    <3>1. CASE r = p
      BY <1>2, <2>2, <3>1
    <3>2. CASE r # p
      BY <1>2, <2>2, <3>2 DEF SkipInv, PollOf, EmittedOrDue, Accounted
    <3>. QED
      BY <3>1, <3>2
  <2>. QED
    BY <2>1, <2>2 DEF SkipInv
<1>. QED
  BY <1>1, <1>2

\* What changes no poll, no token and no event changes nothing here.
LEMMA SkipKept ==
  ASSUME SkipInv, UNCHANGED <<poll, emitted, unread>>, lost => lost',
         poller'.since = poller.since, poller'.token = poller.token
  PROVE  SkipInv'
  BY DEF SkipInv, SkippedOnlyByPaging, PollOf, EmittedOrDue, Accounted

LEMMA StartedSkip ==
  ASSUME PollerInv, SkipInv, Started
  PROVE  SkipInv'
<1>1. /\ poller'.since = Len(log) /\ poller'.token = Len(log)
      /\ UNCHANGED <<poll, emitted, unread, lost>>
  BY PollTypes DEF Started, Poller
<1>2. Len(log) \in Nat
  BY PollTypes
<1>3. SkippedOnlyByPaging'
  BY <1>1, <1>2 DEF SkippedOnlyByPaging
<1>4. ASSUME NEW p \in Polls, PollOf(p)', NEW i \in poller'.since + 1 .. poll'[p].next
      PROVE  FALSE
  <2>1. PollOf(p)
    BY <1>1, <1>4 DEF PollOf
  <2>2. poll[p].next \in Nat /\ poll[p].next <= Len(log)
    BY <2>1, PollTypes DEF PollerInv
  <2>. QED
    BY <1>1, <1>2, <1>4, <2>2
<1>. QED
  BY <1>3, <1>4 DEF SkipInv

LEMMA ServiceSkip ==
  ASSUME PollerInv, SkipInv, Drive \/ Start \/ Stop \/ StartStep
  PROVE  SkipInv'
<1>1. CASE Drive
  <2>1. UNCHANGED <<poller, poll, emitted, unread, lost>>
    BY <1>1 DEF Drive, Revoke, Edit, pollerVars
  <2>. QED
    BY <2>1, SkipKept
<1>2. CASE Start \/ StartRevoked \/ StartFails
  <2>1. poller'.since = poller.since /\ poller'.token = poller.token
    BY <1>2, PollTypes DEF Start, StartRevoked, StartFails, Poller
  <2>. QED
    BY <1>2, <2>1, SkipKept DEF Start, StartRevoked, StartFails
<1>3. CASE Stop
  <2>1. PICK s \in Poller : /\ s = Stopped(poller) /\ s.token = poller.token
                            /\ s.since = poller.since
    BY StoppedType
  <2>2. poller' = [s EXCEPT !.revisions = [f \in Files |-> 0]]
    BY <1>3, <2>1 DEF Stop
  <2>3. poller'.since = poller.since /\ poller'.token = poller.token
    BY <2>1, <2>2 DEF Poller
  <2>. QED
    BY <1>3, <2>3, SkipKept DEF Stop
<1>. QED
  BY <1>1, <1>2, <1>3, StartedSkip DEF StartStep

LEMMA TickSkip ==
  ASSUME PollerInv, PollerInv', SkipInv, NEW p \in Polls, Tick(p)
  PROVE  SkipInv'
<1>1. /\ \A r \in Polls : r # p => poll'[r] = poll[r]
      /\ poll'[p].next = poller.token
      /\ UNCHANGED <<poller, emitted, unread, lost>>
  BY DEF Tick, PollerInv, PollerTypeOK
<1>2. lost' \/ \A i \in poller'.since + 1 .. poll'[p].next : EmittedOrDue(p, i)'
  BY <1>1 DEF SkipInv, SkippedOnlyByPaging, EmittedOrDue, Accounted
<1>. QED
  BY <1>1, <1>2, SkipStep DEF Accounted

LEMMA ListedSkip ==
  ASSUME PollerInv, PollerInv', SkipInv, NEW p \in Polls, Listed(p)
  PROVE  SkipInv'
<1>1. PICK q \in Poll, n \in Nat :
        /\ poll' = [poll EXCEPT ![p] = q] /\ UNCHANGED <<log, poller>>
        /\ n <= Len(log) - poll[p].next
        /\ q.at = "process" /\ q.next = Len(log)
        /\ DOMAIN q.todo = 1 .. n
        /\ \A k \in DOMAIN q.todo : q.todo[k] = poll[p].next + k
        /\ unread' = unread \cup (poll[p].next + n + 1 .. Len(log))
  BY ListedPoll
<1>2. poll'[p] = q /\ \A r \in Polls : r # p => poll'[r] = poll[r]
  BY <1>1 DEF PollerInv, PollerTypeOK
<1>3. UNCHANGED <<emitted, lost>> /\ poll[p].at = "list" /\ PollOf(p)
  BY PollTyped DEF Listed, Page
<1>4. lost' \/ \A i \in poller'.since + 1 .. poll'[p].next : EmittedOrDue(p, i)'
  <2>. SUFFICES ASSUME ~lost, NEW i \in poller.since + 1 .. Len(log)
                PROVE  \/ i \in Accounted'
                       \/ \E k \in DOMAIN q.todo : q.todo[k] = i
    <3>1. /\ poller'.since = poller.since /\ poll'[p].next = Len(log)
          /\ poll'[p].at # "list" /\ lost' = lost
      BY <1>1, <1>2, <1>3
    <3>. QED
      BY <1>2, <3>1 DEF EmittedOrDue, Accounted
  <2>1. /\ poll[p].next \in Nat /\ poller.since \in Nat /\ Len(log) \in Nat
        /\ i \in Nat
    BY <1>3, PollTypes
  <2>2. CASE i <= poll[p].next
    <3>1. i \in poller.since + 1 .. poll[p].next
      BY <2>1, <2>2
    <3>. QED
      BY <1>1, <1>3, <3>1 DEF SkipInv, EmittedOrDue, Accounted
  <2>3. CASE i > poll[p].next /\ i <= poll[p].next + n
    <3>1. PICK from \in Nat : from = poll[p].next
      BY <2>1
    <3>2. i - from \in 1 .. n /\ from + (i - from) = i
      BY <2>1, <2>3, <3>1
    <3>3. i - from \in DOMAIN q.todo /\ q.todo[i - from] = i
      BY <1>1, <3>1, <3>2
    <3>. QED
      BY <3>3
  <2>4. CASE i > poll[p].next + n
    <3>1. i \in poll[p].next + n + 1 .. Len(log)
      BY <2>1, <2>4
    <3>. QED
      BY <1>1, <3>1 DEF Accounted
  <2>. QED
    BY <2>1, <2>2, <2>3, <2>4
<1>. QED
  BY <1>1, <1>2, <1>3, <1>4, SkipStep DEF Accounted

LEMMA PollEndsSkip ==
  ASSUME PollerInv, PollerInv', SkipInv, NEW p \in Polls,
         ListRevoked(p) \/ ListFails(p) \/ Polled(p)
  PROVE  SkipInv'
<1>1. /\ poll' = [poll EXCEPT ![p] = NoPoll] /\ UNCHANGED <<emitted, unread, lost>>
  BY DEF ListRevoked, ListFails, Polled
<1>2. ~PollOf(p)' /\ \A r \in Polls : r # p => poll'[r] = poll[r]
  BY <1>1 DEF PollerInv, PollerTypeOK, PollOf
<1>3. CASE ListRevoked(p) \/ ListFails(p)
  <2>1. poller'.since = poller.since /\ poller'.token = poller.token
    BY <1>3, StoppedType DEF ListRevoked, ListFails
  <2>. QED
    BY <1>1, <1>2, <2>1, SkipStep DEF Accounted
<1>4. CASE Polled(p)
  <2>1. /\ poll[p].at = "process" /\ poll[p].todo = << >> /\ PollOf(p)
        /\ poller' = [poller EXCEPT !.token = poll[p].next]
    BY <1>4, PollTyped DEF Polled
  <2>2. poller'.since = poller.since /\ poller'.token = poll[p].next
    BY <2>1, PollTypes DEF Poller
  <2>3. lost \/ \A i \in poller.since + 1 .. poll[p].next : i \in emitted \cup unread
    BY <2>1 DEF SkipInv, EmittedOrDue, Accounted
  <2>4. SkippedOnlyByPaging'
    BY <1>1, <2>2, <2>3 DEF SkippedOnlyByPaging
  <2>5. lost' \/ \A r \in Polls : PollOf(r)' =>
          \A i \in poller'.since + 1 .. poll'[r].next : EmittedOrDue(r, i)'
    BY <1>1, <1>2, <2>2 DEF SkipInv, PollOf, EmittedOrDue, Accounted
  <2>. QED
    BY <2>4, <2>5 DEF SkipInv
<1>. QED
  BY <1>3, <1>4

LEMMA ClassifySkip ==
  ASSUME PollerInv, PollerInv', SkipInv, NEW p \in Polls, Classify(p)
  PROVE  SkipInv'
<1>1. poll[p] \in Poll /\ PollOf(p) /\ poll[p].at = "process"
  BY PollTyped DEF Classify
<1>2. /\ poll'[p].at = "classify" /\ poll'[p].next = poll[p].next
      /\ poll'[p].todo = poll[p].todo
      /\ \A r \in Polls : r # p => poll'[r] = poll[r]
      /\ UNCHANGED <<poller, emitted, unread, lost>>
  BY <1>1 DEF Classify, PollerInv, PollerTypeOK, Poll
<1>3. lost' \/ \A i \in poller'.since + 1 .. poll'[p].next : EmittedOrDue(p, i)'
  BY <1>1, <1>2 DEF SkipInv, EmittedOrDue, Accounted
<1>. QED
  BY <1>2, <1>3, SkipStep DEF Accounted

LEMMA ProcessedSkip ==
  ASSUME PollerInv, PollerInv', SkipInv, NEW p \in Polls, Emit(p) \/ EmitFails(p)
  PROVE  SkipInv'
<1>1. EventDue(p) /\ Processed(p) /\ Accounted \subseteq Accounted' /\ (lost => lost')
  BY DEF Emit, EmitFails, Accounted
<1>2. PICK q \in Poll :
        /\ poll' = [poll EXCEPT ![p] = q] /\ q.at = "process"
        /\ q.next = poll[p].next /\ q.todo = Tail(poll[p].todo)
  BY <1>1, ProcessedPoll
<1>3. PollOf(p) /\ poll[p] \in Poll /\ poll[p].todo # << >>
  BY <1>1, NextChange, PollTyped DEF EventDue
<1>4. poller'.since = poller.since /\ poller'.token = poller.token
  BY <1>1, ProcessedPoll
<1>5. poll'[p] = q /\ \A r \in Polls : r # p => poll'[r] = poll[r]
  BY <1>2 DEF PollerInv, PollerTypeOK
<1>6. lost' \/ \A i \in poller'.since + 1 .. poll'[p].next : EmittedOrDue(p, i)'
  <2>1. CASE EmitFails(p)
    BY <2>1 DEF EmitFails
  <2>2. CASE Emit(p)
    <3>. SUFFICES ASSUME ~lost, NEW i \in poller.since + 1 .. poll[p].next
                  PROVE  \/ i \in Accounted'
                         \/ \E k \in DOMAIN q.todo : q.todo[k] = i
      <4>1. /\ poll'[p].next = poll[p].next /\ poll'[p].at # "list"
            /\ poll'[p].todo = q.todo /\ lost' = lost
        BY <1>2, <1>5, <2>2 DEF Emit
      <4>. QED
        BY <1>4, <4>1 DEF EmittedOrDue, Accounted
    <3>1. /\ poll[p].todo \in Seq(Versions)
          /\ Accounted' = Accounted \cup {Head(poll[p].todo)}
      BY <1>3, <2>2 DEF Poll, Emit, Accounted
    <3>2. \/ i \in Accounted
          \/ \E k \in DOMAIN poll[p].todo : poll[p].todo[k] = i
      BY <1>3 DEF SkipInv, EmittedOrDue, Accounted
    <3>3. ASSUME NEW k \in DOMAIN poll[p].todo, poll[p].todo[k] = i
          PROVE  i = Head(poll[p].todo) \/ \E j \in DOMAIN q.todo : q.todo[j] = i
      <4>1. CASE k = 1
        BY <3>1, <3>3, <4>1
      <4>2. CASE k # 1
        <5>1. k - 1 \in DOMAIN Tail(poll[p].todo)
              /\ Tail(poll[p].todo)[k - 1] = poll[p].todo[k]
          BY <1>3, <3>1, <4>2
        <5>. QED
          BY <1>2, <3>3, <5>1
      <4>. QED
        BY <4>1, <4>2
    <3>. QED
      BY <3>1, <3>2, <3>3
  <2>. QED
    BY <2>1, <2>2
<1>. QED
  BY <1>1, <1>4, <1>5, <1>6, SkipStep

LEMMA SkipInvStep ==
  ASSUME PollerInv, PollerInv', SkipInv, [PollerNext]_driverVars
  PROVE  SkipInv'
<1>1. CASE UNCHANGED driverVars
  BY <1>1, SkipKept DEF driverVars, pollerVars
<1>. QED
  BY <1>1, ServiceSkip, TickSkip, ListedSkip, PollEndsSkip, ClassifySkip, ProcessedSkip
  DEF PollerNext, PollStep, QuietStep

\* Overlapping polls, stops and starts of the Drive poller never move the page token
\* past a change whose event was not emitted, but for changes on a page not read.
THEOREM SkippedByPagingOnly == PollerSpec => []SkippedOnlyByPaging
<1>1. PollerInit => SkipInv
  BY DEF PollerInit, SkipInv, SkippedOnlyByPaging, PollOf
<1>2. SkipInv => SkippedOnlyByPaging
  BY DEF SkipInv, SkippedOnlyByPaging
<1>3. PollerInv /\ PollerInv' /\ SkipInv /\ [PollerNext]_driverVars => SkipInv'
  BY SkipInvStep
<1>. QED
  BY <1>1, <1>2, <1>3, PollerInvInit, PollerInvStep, PTL DEF PollerSpec

(***************************************************************************)
(* From the change to the notice: types.                                   *)
(***************************************************************************)

\* A bounded set of numbers that has a member has a greatest one: of the intervals
\* 0 .. k that hold it take one that is least by inclusion.
LEMMA GreatestExists ==
  ASSUME NEW n \in Nat, NEW S \in SUBSET (0 .. n), S # {}
  PROVE  \E x \in S : \A y \in S : x >= y
<1>. DEFINE U == {I \in SUBSET (0 .. n) : \E k \in 0 .. n : I = 0 .. k /\ S \subseteq I}
            R == StrictSubsetOrdering(0 .. n)
<1>1. IsFiniteSet(0 .. n)
  BY FS_Interval
<1>2. IsWellFoundedOn(R, SUBSET (0 .. n))
  BY <1>1, FS_StrictSubsetOrderingWellFounded, FS_FiniteSubsetsOfFinite
<1>3. U # {} /\ U \subseteq SUBSET (0 .. n)
  <2>1. 0 .. n \in U
    OBVIOUS
  <2>. QED
    BY <2>1
<1>4. PICK I \in U : \A J \in U : ~(<<J, I>> \in R)
  <2>. HIDE DEF U, R
  <2>. QED
    BY <1>2, <1>3, WFMin
<1>5. PICK k \in 0 .. n : I = 0 .. k /\ S \subseteq I
  OBVIOUS
<1>6. k \in S
  <2>. SUFFICES ASSUME k \notin S PROVE FALSE
    OBVIOUS
  <2>1. \A y \in S : y \in Nat /\ y <= k /\ y # k
    BY <1>5
  <2>2. PICK y \in S : TRUE
    OBVIOUS
  <2>3. k - 1 \in 0 .. n
    BY <2>1, <2>2
  <2>4. S \subseteq 0 .. (k - 1)
    BY <2>1, <2>3
  <2>5. 0 .. (k - 1) \in SUBSET (0 .. n)
    BY <2>3
  <2>6. 0 .. (k - 1) \in U
    BY <2>3, <2>4, <2>5
  <2>7. 0 .. (k - 1) \subseteq I /\ 0 .. (k - 1) # I
    <3>1. k \in 0 .. k /\ k \notin 0 .. (k - 1)
      BY <2>3
    <3>. QED
      BY <1>5, <2>3, <3>1
  <2>8. <<0 .. (k - 1), I>> \in R
    BY <2>5, <2>7, <1>5 DEF StrictSubsetOrdering
  <2>. QED
    BY <1>4, <2>6, <2>8
<1>7. \A y \in S : k >= y
  BY <1>5
<1>. QED
  BY <1>6, <1>7

LEMMA MaxOfBounded ==
  ASSUME NEW n \in Nat, NEW S \in SUBSET (0 .. n), S # {}
  PROVE  Max(S) \in S /\ \A y \in S : Max(S) >= y
  BY GreatestExists DEF Max

LEMMA MaxOfTwo ==
  ASSUME NEW n \in Nat, NEW a \in 0 .. n, NEW b \in 0 .. n
  PROVE  Max({a, b}) \in 0 .. n
<1>1. {a, b} \in SUBSET (0 .. n) /\ {a, b} # {}
  OBVIOUS
<1>2. Max({a, b}) \in {a, b}
  BY <1>1, MaxOfBounded
<1>. QED
  BY <1>2

\* What a connector reads is the newest version of the file, if there is one.
LEMMA CurrentVersionType ==
  ASSUME PollerInv, NEW f \in Files
  PROVE  /\ CurrentVersion(f) \in 0 .. MaxChanges
         /\ CurrentVersion(f) # 0 =>
              CurrentVersion(f) \in DOMAIN log /\ log[CurrentVersion(f)].file = f
<1>1. PICK S : S = {0} \cup {i \in DOMAIN log : log[i].file = f}
  OBVIOUS
<1>2. Len(log) \in 0 .. MaxChanges /\ DOMAIN log = 1 .. Len(log)
  BY PollTypes
<1>3. S \in SUBSET (0 .. MaxChanges) /\ S # {}
  BY <1>1, <1>2, PollerAssumption
<1>4. Max(S) \in S
  BY <1>3, MaxOfBounded, PollerAssumption
<1>5. CurrentVersion(f) = 0 \/ CurrentVersion(f) = Max(S)
  BY <1>1 DEF CurrentVersion
<1>. QED
  BY <1>1, <1>3, <1>4, <1>5, PollerAssumption

\* A detection past its reading has a version of its own file.
ReadVersion(q) ==
  q.at \in {"get", "set", "evaluate", "deliver"} =>
    q.current \in DOMAIN log /\ log[q.current].file = q.file

DocInv ==
  /\ PollerInv
  /\ inbox \in [Files -> Nat]
  /\ monitor \in [Monitors -> Monitor \cup {Idle}]
  /\ \A m \in Monitors : ReadVersion(monitor[m])
  /\ docCache \in [Files -> 0 .. MaxChanges]
  /\ told \in [Files -> 0 .. MaxChanges]
  /\ failures \in 0 .. MaxFailures
  /\ pending \in 0 .. failures

LEMMA DocInvTypes == DocInv => TypeOK
  BY PollerAssumption DEF DocInv, TypeOK, PollerInv, ReadVersion

\* The detections, the cache and the notices when the drive and the poller move.
LEMMA PollerMoves ==
  ASSUME DocInv, PollerInv', log' = log \/ \E c : log' = Append(log, c),
         UNCHANGED monitorVars, inbox' \in [Files -> Nat],
         failures' \in 0 .. MaxFailures, failures <= failures'
  PROVE  DocInv'
<1>1. \A i \in DOMAIN log : i \in DOMAIN log' /\ log'[i] = log[i]
  <2>1. log \in Seq(Change)
    BY DEF DocInv, PollerInv, PollerTypeOK
  <2>2. ASSUME NEW c, log' = Append(log, c)
        PROVE  \A i \in DOMAIN log : i \in DOMAIN log' /\ log'[i] = log[i]
    <3>1. log \in Seq(Change \cup {c}) /\ c \in Change \cup {c}
      BY <2>1
    <3>2. /\ Len(log) \in Nat /\ DOMAIN log = 1 .. Len(log)
          /\ \A i \in 1 .. Len(log) : log'[i] = log[i]
          /\ Len(log') = Len(log) + 1 /\ log' \in Seq(Change \cup {c})
      BY <2>2, <3>1, AppendProperties, LenProperties
    <3>3. DOMAIN log' = 1 .. Len(log) + 1
      BY <3>2, LenProperties
    <3>. QED
      BY <3>2, <3>3
  <2>. QED
    BY <2>2
<1>2. \A m \in Monitors : ReadVersion(monitor[m])'
  BY <1>1 DEF DocInv, ReadVersion, monitorVars
<1>3. pending' \in 0 .. failures'
  BY PollerAssumption DEF DocInv, monitorVars
<1>. QED
  BY <1>2, <1>3 DEF DocInv, monitorVars

LEMMA PollerUnmoved ==
  ASSUME PollerInv, PollerUnchanged
  PROVE  PollerInv' /\ log' = log
  BY DEF PollerUnchanged, driveVars, pollerVars, PollerInv, PollerTypeOK, PollOf

\* One detection moves, the poller does not.
LEMMA OneMonitorStep ==
  ASSUME DocInv, PollerUnchanged, NEW m \in Monitors, NEW q \in Monitor \cup {Idle},
         monitor' = [monitor EXCEPT ![m] = q], ReadVersion(q),
         inbox' \in [Files -> Nat], docCache' \in [Files -> 0 .. MaxChanges],
         told' \in [Files -> 0 .. MaxChanges],
         failures' \in 0 .. MaxFailures, pending' \in 0 .. failures'
  PROVE  DocInv'
<1>1. PollerInv' /\ log' = log
  BY PollerUnmoved DEF DocInv
<1>2. /\ monitor' \in [Monitors -> Monitor \cup {Idle}]
      /\ \A n \in Monitors : monitor'[n] = IF n = m THEN q ELSE monitor[n]
  BY DEF DocInv
<1>3. \A n \in Monitors : ReadVersion(monitor[n])'
  BY <1>1, <1>2 DEF DocInv, ReadVersion
<1>. QED
  BY <1>1, <1>2, <1>3 DEF DocInv

LEMMA IdleReads == ReadVersion(Idle) /\ Idle \in Monitor \cup {Idle}
  BY DEF ReadVersion, Idle

LEMMA MonitorTyped ==
  ASSUME DocInv, NEW m \in Monitors, monitor[m] # Idle
  PROVE  /\ monitor[m] \in Monitor /\ monitor[m].file \in Files
         /\ monitor[m].current \in 0 .. MaxChanges
         /\ ReadVersion(monitor[m])
  BY DEF DocInv, Monitor

LEMMA NotIdle ==
  ASSUME NEW m \in Monitors, monitor[m].at # "idle"
  PROVE  monitor[m] # Idle
  BY DEF Idle

\* A detection that goes on with the version it has read.
LEMMA MonitorGoesOn ==
  ASSUME DocInv, NEW m \in Monitors, monitor[m] # Idle,
         monitor[m].at \in {"get", "set", "evaluate", "deliver"},
         NEW at \in {"set", "evaluate", "deliver"}, NEW class \in Classes
  PROVE  LET q == [monitor[m] EXCEPT !.at = at, !.class = class]
         IN  q \in Monitor \cup {Idle} /\ ReadVersion(q)
<1>1. PICK k \in Monitor : k = monitor[m] /\ ReadVersion(k)
  BY MonitorTyped
<1>2. PICK q : q = [k EXCEPT !.at = at, !.class = class]
  OBVIOUS
<1>3. q \in Monitor /\ q.current = k.current /\ q.file = k.file
  BY <1>1, <1>2 DEF Monitor
<1>4. ReadVersion(q)
  BY <1>1, <1>3 DEF ReadVersion
<1>. QED
  BY <1>1, <1>2, <1>3, <1>4

LEMMA MonitorInv ==
  ASSUME DocInv, NEW m \in Monitors, MonitorStep(m)
  PROVE  DocInv'
<1>0. /\ PollerInv /\ failures \in 0 .. MaxFailures /\ pending \in 0 .. failures
      /\ monitor \in [Monitors -> Monitor \cup {Idle}]
      /\ inbox \in [Files -> Nat] /\ docCache \in [Files -> 0 .. MaxChanges]
      /\ told \in [Files -> 0 .. MaxChanges]
  BY DEF DocInv
<1>1. CASE ReadDocument(m)
  <2>1. monitor[m] # Idle
    BY <1>1, NotIdle DEF ReadDocument
  <2>2. PICK k \in Monitor : k = monitor[m] /\ k.file \in Files
    BY <2>1, MonitorTyped
  <2>3. PICK v \in 0 .. MaxChanges :
          v = CurrentVersion(k.file)
          /\ (v # 0 => v \in DOMAIN log /\ log[v].file = k.file)
    BY <1>0, <2>2, CurrentVersionType
  <2>4. PICK q : q = IF revoked \/ v = 0 THEN Idle
                     ELSE [k EXCEPT !.at = "get", !.current = v]
    OBVIOUS
  <2>5. monitor' = [monitor EXCEPT ![m] = q]
    BY <1>1, <2>2, <2>3, <2>4 DEF ReadDocument
  <2>6. q \in Monitor \cup {Idle} /\ ReadVersion(q)
    <3>1. CASE q = Idle
      BY <3>1, IdleReads
    <3>2. CASE v # 0 /\ q = [k EXCEPT !.at = "get", !.current = v]
      BY <2>3, <3>2 DEF Monitor, ReadVersion
    <3>. QED
      BY <2>4, <3>1, <3>2
  <2>. QED
    BY <1>0, <1>1, <2>5, <2>6, OneMonitorStep DEF ReadDocument
<1>2. CASE Compare(m)
  <2>1. monitor[m] # Idle /\ monitor[m].at = "get"
    BY <1>2, NotIdle DEF Compare
  <2>2. PICK class \in Classes :
          monitor' = [monitor EXCEPT ![m] =
            IF docCache[monitor[m].file] = monitor[m].current THEN Idle
            ELSE [monitor[m] EXCEPT !.at = "set", !.class = class]]
    BY <1>2, Zenon DEF Compare, Classes
  <2>3. PICK q : q = IF docCache[monitor[m].file] = monitor[m].current THEN Idle
                     ELSE [monitor[m] EXCEPT !.at = "set", !.class = class]
    OBVIOUS
  <2>4. q \in Monitor \cup {Idle} /\ ReadVersion(q)
    BY <2>1, <2>3, MonitorGoesOn, IdleReads
  <2>5. monitor' = [monitor EXCEPT ![m] = q]
    BY <2>2, <2>3
  <2>. QED
    BY <1>0, <1>2, <2>4, <2>5, OneMonitorStep DEF Compare
<1>3. CASE CacheSet(m)
  <2>1. monitor[m] # Idle /\ monitor[m].at = "set"
    BY <1>3, NotIdle DEF CacheSet
  <2>2. PICK k \in Monitor : k = monitor[m] /\ k.file \in Files
                             /\ k.current \in 0 .. MaxChanges /\ k.class \in Classes
    BY <2>1, MonitorTyped DEF Monitor
  <2>3. PICK q : q = [k EXCEPT !.at = "evaluate", !.class = k.class]
    OBVIOUS
  <2>4. q \in Monitor \cup {Idle} /\ ReadVersion(q)
    BY <2>1, <2>2, <2>3, MonitorGoesOn
  <2>5. monitor' = [monitor EXCEPT ![m] = q]
    BY <1>3, <2>2, <2>3 DEF CacheSet, Monitor
  <2>6. docCache' \in [Files -> 0 .. MaxChanges]
    BY <1>0, <1>3, <2>2 DEF CacheSet
  <2>. QED
    BY <1>0, <1>3, <2>4, <2>5, <2>6, OneMonitorStep DEF CacheSet
<1>4. CASE EvaluateNotice(m)
  <2>1. monitor[m] # Idle /\ monitor[m].at = "evaluate"
    BY <1>4, NotIdle DEF EvaluateNotice
  <2>2. PICK k \in Monitor : k = monitor[m] /\ k.file \in Files
                             /\ k.current \in 0 .. MaxChanges /\ k.class \in Classes
    BY <2>1, MonitorTyped DEF Monitor
  <2>3. CASE k.class = "cosmetic"
    <3>1. Max({told[k.file], k.current}) \in 0 .. MaxChanges
      BY <1>0, <2>2, MaxOfTwo, PollerAssumption
    <3>2. told' \in [Files -> 0 .. MaxChanges] /\ monitor' = [monitor EXCEPT ![m] = Idle]
      BY <1>0, <1>4, <2>2, <2>3, <3>1 DEF EvaluateNotice
    <3>. QED
      BY <1>0, <1>4, <3>2, IdleReads, OneMonitorStep DEF EvaluateNotice
  <2>4. CASE k.class # "cosmetic"
    <3>1. PICK q : q = [k EXCEPT !.at = "deliver", !.class = k.class]
      OBVIOUS
    <3>2. q \in Monitor \cup {Idle} /\ ReadVersion(q)
      BY <2>1, <2>2, <3>1, MonitorGoesOn
    <3>3. monitor' = [monitor EXCEPT ![m] = q] /\ told' = told
      BY <1>4, <2>2, <2>4, <3>1 DEF EvaluateNotice, Monitor
    <3>. QED
      BY <1>0, <1>4, <3>2, <3>3, OneMonitorStep DEF EvaluateNotice
  <2>. QED
    BY <2>3, <2>4
<1>5. CASE Deliver(m)
  <2>1. monitor[m] # Idle
    BY <1>5, NotIdle DEF Deliver
  <2>2. PICK k \in Monitor : k = monitor[m] /\ k.file \in Files
                             /\ k.current \in 0 .. MaxChanges
    BY <2>1, MonitorTyped
  <2>3. Max({told[k.file], k.current}) \in 0 .. MaxChanges
    BY <1>0, <2>2, MaxOfTwo, PollerAssumption
  <2>4. told' \in [Files -> 0 .. MaxChanges]
    BY <1>0, <1>5, <2>2, <2>3 DEF Deliver
  <2>5. failures' \in 0 .. MaxFailures /\ pending' \in 0 .. failures'
    BY <1>0, <1>5, PollerAssumption DEF Deliver, Fails
  <2>. QED
    BY <1>0, <1>5, <2>4, <2>5, IdleReads, OneMonitorStep DEF Deliver
<1>6. CASE MonitorFails(m)
  <2>1. failures' \in 0 .. MaxFailures /\ pending' \in 0 .. failures'
    BY <1>0, <1>6, PollerAssumption DEF MonitorFails, Fails
  <2>. QED
    BY <1>0, <1>6, <2>1, IdleReads, OneMonitorStep DEF MonitorFails
<1>. QED
  BY <1>1, <1>2, <1>3, <1>4, <1>5, <1>6 DEF MonitorStep

LEMMA TakeInv ==
  ASSUME DocInv, NEW m \in Monitors, NEW f \in Files, Take(m, f)
  PROVE  DocInv'
<1>1. PICK q : q = [at |-> "read", file |-> f, current |-> 0, class |-> "minor"]
  OBVIOUS
<1>2. q \in Monitor \cup {Idle} /\ ReadVersion(q)
  BY <1>1, PollerAssumption DEF Monitor, Classes, ReadVersion
<1>3. monitor' = [monitor EXCEPT ![m] = q] /\ inbox' \in [Files -> Nat]
  BY <1>1 DEF Take, DocInv
<1>. QED
  BY <1>2, <1>3, OneMonitorStep DEF Take, DocInv

LEMMA DocPollerInv ==
  ASSUME DocInv,
         \/ (Drive \/ Start \/ Stop \/ StartStep) /\ Unrouted
         \/ \E p \in Polls : Emitted(p) \/ ((Tick(p) \/ QuietStep(p)) /\ Unrouted)
  PROVE  DocInv'
<1>1. PollerInv'
  <2>1. PollerNext
    BY DEF PollerNext, PollStep, Emitted
  <2>. QED
    BY <2>1, PollerInvStep DEF DocInv
<1>2. log' = log \/ \E c : log' = Append(log, c)
  BY DEF Drive, Revoke, Edit, Start, Stop, StartStep, Started, StartRevoked, StartFails,
     Emitted, Emit, Tick, QuietStep, Listed, ListRevoked, ListFails, Classify, EmitFails,
     Polled, Page, driveVars
<1>3. failures' \in 0 .. MaxFailures /\ failures <= failures'
  <2>1. failures' = failures \/ Fails
    BY DEF Drive, Revoke, Edit, Start, Stop, StartStep, Started, StartRevoked, StartFails,
       Emitted, Emit, Tick, QuietStep, Listed, ListRevoked, ListFails, Classify, EmitFails,
       Polled, Page
  <2>. QED
    BY <2>1, PollerAssumption DEF DocInv, Fails
<1>4. UNCHANGED monitorVars /\ inbox' \in [Files -> Nat]
  <2>1. CASE Unrouted
    BY <2>1 DEF Unrouted, DocInv
  <2>2. ASSUME NEW p \in Polls, Emitted(p) PROVE UNCHANGED monitorVars
                                               /\ inbox' \in [Files -> Nat]
    <3>1. PICK f \in Files : f = log[Head(poll[p].todo)].file
      BY <2>2, NextChange DEF Emitted, Emit, DocInv, Change
    <3>2. inbox' = [inbox EXCEPT ![f] = @ + 1]
      BY <2>2, <3>1 DEF Emitted
    <3>3. UNCHANGED monitorVars
      BY <2>2, Zenon DEF Emitted
    <3>4. inbox' \in [Files -> Nat]
      BY <3>2 DEF DocInv
    <3>. QED
      BY <3>3, <3>4
  <2>. QED
    BY <2>1, <2>2
<1>. QED
  BY <1>1, <1>2, <1>3, <1>4, PollerMoves

LEMMA DocInvStep == DocInv /\ [Next]_vars => DocInv'
<1>. SUFFICES ASSUME DocInv, [Next]_vars PROVE DocInv'
  OBVIOUS
<1>1. CASE UNCHANGED vars
  <2>1. PollerInv' /\ log' = log /\ UNCHANGED <<inbox, monitorVars, failures>>
    BY <1>1, PollerUnmoved DEF vars, PollerUnchanged, DocInv, driveVars
  <2>. QED
    BY <2>1, PollerAssumption, PollerMoves DEF DocInv
<1>. QED
  BY <1>1, DocPollerInv, MonitorInv, TakeInv DEF Next

\* From a change to the notice: what a detection works on is a version of its own
\* file, and every variable has its type.
THEOREM DocTypeCorrect == Spec => []TypeOK
<1>1. Init => DocInv
  BY PollerInvInit, PollerAssumption, IdleReads DEF Init, PollerInit, DocInv
<1>. QED
  BY <1>1, DocInvStep, DocInvTypes, PTL DEF Spec
=============================================================================
