--------------------------- MODULE ExecutionGraph ---------------------------
(***************************************************************************)
(* internal/planner/execution.go: BuildExecution turns a plan into a graph *)
(* of OpNodes.  The dependents of an address come from the command's index *)
(* of the plan by address (internal/cli/apply.go, dependentsOf).           *)
(***************************************************************************)
EXTENDS Planner

(***************************************************************************)
(* OpNode; its ID is injective on the nodes of one graph, so the record    *)
(* stands for the ID.                                                      *)
(***************************************************************************)
OpNode(op, phase) ==
  [addr |-> op.addr, kind |-> op.kind, phase |-> phase,
   cbd |-> op.kind = "replace" /\ op.cbd]

Phases(op) ==
  CASE op.kind = "noop" -> {}
    [] op.kind = "replace" -> {"destroy", "create"}
    [] op.kind \in {"destroy", "forget", "destroy_deposed"} -> {"destroy"}
    [] op.kind \in {"create", "update"} -> {"create"}

ExecNodes(plan) == UNION {{OpNode(op, ph) : ph \in Phases(op)} : op \in plan}

(***************************************************************************)
(* At most one operation per address, a deposed cleanup counted apart;     *)
(* BuildExecution refuses any other plan.                                  *)
(***************************************************************************)
OneOperationPerAddress(plan) ==
  \A p, q \in plan :
    /\ p.addr = q.addr
    /\ (p.kind = "destroy_deposed") = (q.kind = "destroy_deposed")
    => p = q

(***************************************************************************)
(* Indexing the operations by address keeps the last one at each, and the  *)
(* planner lists deposed cleanups after everything else.                   *)
(***************************************************************************)
LastAt(plan, a) ==
  LET here == {op \in plan : op.addr = a}
      cleanups == {op \in here : op.kind = "destroy_deposed"}
  IN CHOOSE op \in (IF cleanups # {} THEN cleanups ELSE here) : TRUE

IndexedDependents(plan, a) == LastAt(plan, a).dependents

\* has[a][ph]: at most one node, a deposed cleanup never.
Has(plan, a, ph) ==
  {n \in ExecNodes(plan) : n.addr = a /\ n.phase = ph /\ n.kind # "destroy_deposed"}

PhaseEdges(plan) ==
  UNION {LET d == Has(plan, op.addr, "destroy")
             c == Has(plan, op.addr, "create")
         IN IF op.cbd THEN c \X d ELSE d \X c : op \in {p \in plan : p.kind = "replace"}}

\* Mutant: destroys are not ordered against each other.
AddEdgesNoTeardown(plan, t, d, targetCreatesFirst) ==
  LET tc == Has(plan, t, "create")
      td == Has(plan, t, "destroy")
      dc == Has(plan, d, "create")
      dd == Has(plan, d, "destroy")
  IN (tc \X dc) \cup (IF targetCreatesFirst THEN dc \X td ELSE dd \X tc)

(***************************************************************************)
(* addEdges: dependent d depends on target t.                              *)
(***************************************************************************)
AddEdges(plan, t, d, targetCreatesFirst) ==
  LET tc == Has(plan, t, "create")
      td == Has(plan, t, "destroy")
      dc == Has(plan, d, "create")
      dd == Has(plan, d, "destroy")
  IN (tc \X dc) \cup (dd \X td)
     \cup (IF targetCreatesFirst THEN dc \X td ELSE dd \X tc)

ExecEdges(plan) ==
  PhaseEdges(plan) \cup
  UNION {UNION {AddEdges(plan, op.addr, d, op.cbd) : d \in IndexedDependents(plan, op.addr)}
           : op \in {p \in plan : p.kind # "noop"}}
=============================================================================
