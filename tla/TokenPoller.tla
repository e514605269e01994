---------------------------- MODULE TokenPoller ----------------------------
(***************************************************************************)
(* GmailInboxPoller and GCalSyncService: two services with one structure.  *)
(* Each refreshes its OAuth token and reads its provider through a read    *)
(* tool of its connector, when it starts and then on an interval that does *)
(* not wait for the poll before.  A refresh that finds the access revoked  *)
(* disables the service, and the poll at hand goes on.                     *)
(***************************************************************************)
EXTENDS Connector

CONSTANTS
  ServiceOf,  \* bound: each service has some of Polls, which may overlap
  MaxStarts   \* bound: calls of start of one service

VARIABLES
  poller,   \* the services
  poll      \* the calls of start and poll under way

pollerVars == <<poller, poll>>

PollTypes == {"gmail", "gcal"}

\* intervals counts the intervals that have been set and not cleared; timer says
\* that the service knows one of them.
Poller ==
  [disabled : BOOLEAN, token : BOOLEAN, lastError : BOOLEAN,
   timer : BOOLEAN, intervals : Nat, starts : Nat]

\* A poll belongs to a start, whose first refresh it awaits in "starting", or to
\* an interval.
Poll ==
  [type : PollTypes, starting : BOOLEAN, at : {"starting", "refresh", "read"}]

NoPoll == [at |-> "idle"]

PollTool(type) == IF type = "gmail" THEN "email_search" ELSE "calendar_read"

ASSUME PollerAssumption ==
  /\ ServiceOf \in [Polls -> PollTypes]
  /\ MaxStarts \in Nat

PollerInit ==
  /\ poller = [t \in PollTypes |->
       [disabled |-> FALSE, token |-> FALSE, lastError |-> FALSE,
        timer |-> FALSE, intervals |-> 0, starts |-> 0]]
  /\ poll = [p \in Polls |-> NoPoll]

CallsUnchanged ==
  UNCHANGED <<doc, changes, revoked, disabled, tries, effects, audit, reports, modelCalls>>
-----------------------------------------------------------------------------
\* stop, which disable calls too: the interval the service knows of is cleared.
Stopped(s) ==
  [s EXCEPT !.timer = FALSE, !.intervals = IF s.timer THEN @ - 1 ELSE @]

Disabled(s) == Stopped([s EXCEPT !.disabled = TRUE])

\* start: the token is refreshed first; a disabled service does nothing.
Start(p, t) ==
  /\ ~poller[t].disabled
  /\ poller[t].starts < MaxStarts
  /\ ServiceOf[p] = t /\ poll[p] = NoPoll
  /\ poller' = [poller EXCEPT ![t].starts = @ + 1]
  /\ poll' = [poll EXCEPT ![p] =
       [type |-> t, starting |-> TRUE, at |-> "starting"]]
  /\ UNCHANGED <<call, failures>>
  /\ CallsUnchanged

Stop(t) ==
  /\ poller[t].timer
  /\ poller' = [poller EXCEPT ![t] = Stopped(@)]
  /\ UNCHANGED <<poll, call, failures>>
  /\ CallsUnchanged

\* A poll of service s ends; start then sets the interval, come what may.
Ended(s, p) ==
  IF poll[p].starting
  THEN [s EXCEPT !.timer = TRUE, !.intervals = @ + 1]
  ELSE s

\* Mutant: the interval does not look at disabled.
TickAlways(p, t) ==
  /\ poller[t].intervals > 0
  /\ ServiceOf[p] = t /\ poll[p] = NoPoll
  /\ poll' = [poll EXCEPT ![p] =
       [type |-> t, starting |-> FALSE, at |-> "refresh"]]
  /\ UNCHANGED <<poller, call, failures>>
  /\ CallsUnchanged

\* An interval fires; the poll of a disabled service ends at once.
Tick(p, t) ==
  /\ poller[t].intervals > 0
  /\ ~poller[t].disabled
  /\ ServiceOf[p] = t /\ poll[p] = NoPoll
  /\ poll' = [poll EXCEPT ![p] =
       [type |-> t, starting |-> FALSE, at |-> "refresh"]]
  /\ UNCHANGED <<poller, call, failures>>
  /\ CallsUnchanged

\* The service after refreshAccessToken: a revocation disables it and is not
\* thrown, and the token it had before stays.
Refreshed(s, t) ==
  IF t \in revoked THEN Disabled(s) ELSE [s EXCEPT !.token = TRUE]

\* The first refresh of start is done, and its poll begins with another one,
\* unless the service has been disabled.
StartRefreshed(p) ==
  LET t == poll[p].type
      s == Refreshed(poller[t], t)
  IN  /\ poll[p].at = "starting"
      /\ IF s.disabled
         THEN /\ poller' = [poller EXCEPT ![t] = Ended(s, p)]
              /\ poll' = [poll EXCEPT ![p] = NoPoll]
         ELSE /\ poller' = [poller EXCEPT ![t] = s]
              /\ poll' = [poll EXCEPT ![p].at = "refresh"]
      /\ UNCHANGED <<call, failures>>
      /\ CallsUnchanged

\* The first refresh fails, and start throws: no interval is set.
StartFails(p) ==
  /\ poll[p].at = "starting"
  /\ Fails
  /\ poll' = [poll EXCEPT ![p] = NoPoll]
  /\ UNCHANGED <<poller, call>>
  /\ CallsUnchanged

\* The refresh of a poll is done: with a token, be it the one of before a
\* revocation, the poll reads through a connector object of its own.
PollRefreshed(p) ==
  LET t == poll[p].type
      s == Refreshed(poller[t], t)
  IN  /\ poll[p].at = "refresh"
      /\ IF s.token
         THEN /\ poller' = [poller EXCEPT ![t] = s]
              /\ poll' = [poll EXCEPT ![p].at = "read"]
              /\ call' = [call EXCEPT ![p] = Entered(p, PollTool(t), NoTicket)]
         ELSE /\ poller' = [poller EXCEPT ![t] = Ended([s EXCEPT !.lastError = TRUE], p)]
              /\ poll' = [poll EXCEPT ![p] = NoPoll]
              /\ UNCHANGED call
      /\ UNCHANGED failures
      /\ CallsUnchanged

\* The refresh of a poll fails.
RefreshFails(p) ==
  LET t == poll[p].type
  IN  /\ poll[p].at = "refresh"
      /\ Fails
      /\ poller' = [poller EXCEPT ![t] = Ended([@ EXCEPT !.lastError = TRUE], p)]
      /\ poll' = [poll EXCEPT ![p] = NoPoll]
      /\ UNCHANGED call
      /\ CallsUnchanged

\* The read has returned or thrown.  A revocation that the read met is an
\* OAuthRevocationError, whose message isOAuthRevocation does not know: it is
\* noted like any other error.
ReadDone(p) ==
  LET t == poll[p].type
  IN  /\ poll[p].at = "read"
      /\ call[p].at = "done"
      /\ poller' = [poller EXCEPT ![t] =
           Ended([@ EXCEPT !.lastError = call[p].outcome # "success"], p)]
      /\ poll' = [poll EXCEPT ![p] = NoPoll]
      /\ call' = [call EXCEPT ![p] = NoCall]
      /\ UNCHANGED failures
      /\ CallsUnchanged

Service(t) ==
  \/ \E p \in Polls : Start(p, t)
  \/ Stop(t)

PollStep(p) ==
  \/ StartRefreshed(p)
  \/ StartFails(p)
  \/ PollRefreshed(p)
  \/ RefreshFails(p)
  \/ ReadDone(p)
=============================================================================
