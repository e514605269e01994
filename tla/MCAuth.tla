------------------------------- MODULE MCAuth -------------------------------
(* Instances of Auth for TLC.                                              *)
EXTENDS Auth, TLC

CONSTANTS u1, c1, c2, k1, k2, t1, t2, none

MCGroups == {{"enterprise-admins", "team-leads"}, {"guests"}}
MCSeeded == {[id |-> 1, tenantId |-> t2, status |-> "active"]}
CallersAndKeys == Permutations(Clients) \cup Permutations(Kids)
=============================================================================
