------------------------------- MODULE MCOcip -------------------------------
(* Instances of Ocip for TLC.                                              *)
EXTENDS Ocip

CONSTANTS alice, bob, carol

\* Two tenants, and two org units in the first one.
OneTenant == [a \in Agents |-> "acme"]
TwoTenants == [a \in Agents |-> IF a = carol THEN "globex" ELSE "acme"]
OneOrg == [a \in Agents |-> "eng"]
TwoOrgs == [a \in Agents |-> IF a = alice THEN "eng" ELSE "sales"]
ShareInternal == [a \in Agents |-> 1]

Draft(type, keywords, ceiling, data, canShare, limit) ==
  [exchangeType |-> type, keywords |-> keywords, classification |-> ceiling,
   data |-> data, canShare |-> canShare, maxRounds |-> limit]

\* A query without data, limit left to the default.
Query == Draft("information_query", FALSE, 1, {}, {0, 1}, Unset)
\* A query whose confidential item exceeds the ceiling, and whose internal one
\* the receiver does not accept; it asks for one more round.
MixedQuery == Draft("information_query", FALSE, 1, {0, 1, 2}, {0, 2}, 3)
\* A commitment in the envelope, and one in the words only.
Meeting == Draft("meeting_scheduling", FALSE, 1, {}, {0, 1}, Unset)
Promise == Draft("information_query", TRUE, 1, {}, {0, 1}, 3)

Queries == {Query, MixedQuery}
Commitments == {Query, Meeting, Promise}
=============================================================================
