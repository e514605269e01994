-------------------------- MODULE BoundedExchange --------------------------
(***************************************************************************)
(* What the round counter is there for: in one life of an agent, its side  *)
(* of an exchange has one limit, every message it asks to send takes the   *)
(* next round, and only rounds within the limit are ever sent, each once.  *)
(* Audit, filters, envelopes and the transport are not part of it.         *)
(***************************************************************************)
EXTENDS Naturals

CONSTANTS
  Agents, Exchanges,
  Limits,   \* the limits exchanges are opened with
  NoSide    \* the agent does not know the exchange

VARIABLE side

\* waiting are the rounds granted to messages that have not left.
Side ==
  [limit : Limits, counted : Nat, waiting : SUBSET Nat, sent : SUBSET Nat]

NewSide(limit) == [limit |-> limit, counted |-> 0, waiting |-> {}, sent |-> {}]

Init == side = [a \in Agents |-> [x \in Exchanges |-> NoSide]]

\* The side of an exchange to go on from: the one known, or a new one.
Current(a, x) ==
  IF side[a][x] = NoSide THEN {NewSide(l) : l \in Limits} ELSE {side[a][x]}

\* A message asks for a round: beyond the limit the round is taken and refused.
Ask(a, x) ==
  \E s \in Current(a, x) :
    LET round == s.counted + 1
    IN  side' = [side EXCEPT ![a][x] =
          [s EXCEPT !.counted = round,
                    !.waiting = @ \cup ({round} \cap 1 .. s.limit)]]

\* The first message of the other side says how far the exchange is.
Join(a, x) ==
  /\ side[a][x] = NoSide
  /\ \E l \in Limits : \E round \in 1 .. l :
       side' = [side EXCEPT ![a][x] = [NewSide(l) EXCEPT !.counted = round]]

Sent(s, round) == [s EXCEPT !.waiting = @ \ {round}, !.sent = @ \cup {round}]
GivenUp(s, round) == [s EXCEPT !.waiting = @ \ {round}]

\* A granted message leaves, or fails for another reason; its round is used up.
Leave(a, x) ==
  /\ side[a][x] # NoSide
  /\ \E round \in side[a][x].waiting :
       \E s \in {Sent(side[a][x], round), GivenUp(side[a][x], round)} :
         side' = [side EXCEPT ![a][x] = s]

\* The agent's process ends, and another life of it begins.
Crash(a) == side' = [side EXCEPT ![a] = [x \in Exchanges |-> NoSide]]

Next ==
  \E a \in Agents :
    Crash(a) \/ \E x \in Exchanges : Ask(a, x) \/ Join(a, x) \/ Leave(a, x)

Spec == Init /\ [][Next]_side
=============================================================================
