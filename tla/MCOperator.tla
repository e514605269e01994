----------------------------- MODULE MCOperator -----------------------------
(* Instances of Operator for TLC.                                          *)
EXTENDS Operator

CONSTANTS none

\* One replica whatever the number says, and two.
Single == [deploymentMode |-> "single", replicas |-> 2, gateway |-> ""]
HA == [deploymentMode |-> "ha", replicas |-> 2, gateway |-> "registry"]
MCInstanceSpecs == {Single, HA}

P(scope, name, content) ==
  [scope |-> scope, domain |-> "models", name |-> name, content |-> content]

\* One policy; two whose names become the same file; none, which is not valid.
MCPolicyLists ==
  {<<P("enterprise", "base line", "a")>>,
   <<P("org", "base line", "a"), P("enterprise", "base.line", "c"), P("org", "Base_Line", "b")>>,
   <<>>}
MCSanitizeName == [n \in {"base line", "base.line", "Base_Line"} |-> "base_line"]
MCValidLists == MCPolicyLists \ {<<>>}
=============================================================================
