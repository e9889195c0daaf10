------------------------------ MODULE MCPlugin ------------------------------
EXTENDS PluginClient

CONSTANTS w1, w2

Two == {w1, w2}
Asking(v1, v2) == [w \in Two |-> IF w = w1 THEN v1 ELSE v2]

\* Two calls that overlap, and each kind of call alone.
SomeAssignments ==
  {Asking("create", "import")}
    \cup {Asking(v, "nothing") : v \in {"create", "update", "delete", "discover", "read"}}
=============================================================================
