------------------------- MODULE MCPolicyHierarchy -------------------------
(* Instances of PolicyHierarchy for TLC.                                   *)
EXTENDS PolicyHierarchy, TLC

CONSTANTS acme, sales, models, actions, p1, p2, p3

ListOf(s) == [kind |-> "list", permits |-> s]
LimitOf(n) == [kind |-> "limit", permits |-> 1..n]

At(s, d) ==
  [scope |-> s, unit |-> IF s < 3 THEN acme ELSE sales, domain |-> d]

\* Contents: a list of models and a limit.
Wide == [allowed |-> ListOf({1, 2}), limit |-> LimitOf(2)]
FirstOnly == [allowed |-> ListOf({1}), limit |-> None]
SecondOnly == [allowed |-> ListOf({2}), limit |-> LimitOf(1)]
SomeContents == {SecondOnly}
SomeBodies ==
  {[place |-> At(1, models), content |-> FirstOnly],
   [place |-> At(2, models), content |-> Wide]}

\* The enterprise has a policy when the requests begin.
WideAtFirst ==
  [id \in PolicyIds |->
     IF id = p1 THEN [place |-> At(1, models), content |-> Wide,
                      status |-> "active", checked |-> None]
                ELSE None]
OneChain == {<<acme, acme, None, None>>}

NewIds == Permutations({p2, p3})
=============================================================================
