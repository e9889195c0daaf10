-------------------------------- MODULE Walk --------------------------------
(***************************************************************************)
(* internal/graph/walk.go: the incremental readiness walk the executor     *)
(* drives.  A node becomes dispatched the instant its own predecessors are *)
(* done; a failure retires everything reachable from the failed node.      *)
(*                                                                         *)
(* A graph is a set of pairs <<from, to>> over Nodes.  Names carry the     *)
(* prefix Walk because the executor's module EXTENDS this one.             *)
(***************************************************************************)
EXTENDS Integers, FiniteSets, DepGraph

CONSTANT Nodes   \* the IDs of the nodes that may appear in a graph

ASSUME NodesAssumption == IsFiniteSet(Nodes)

VARIABLES
  nodes,       \* IDs added to the graph this walk began from
  edges,       \* its edges; neither changes once the walk exists
  remaining,   \* per node: predecessors not yet done (Done's bookkeeping only)
  status,      \* per node: a walkStatus
  left         \* nodes not yet done or skipped

walkVars == <<nodes, edges, remaining, status, left>>

WalkStatus == {"unstarted", "dispatched", "done", "skipped"}

Preds(n) == {m \in nodes : <<m, n>> \in edges}
Succs(n) == {m \in nodes : <<n, m>> \in edges}

(***************************************************************************)
(* Graph.Walk: a walk over g, which rejects a cyclic graph.                *)
(***************************************************************************)
BeginWalk(ns, es) ==
  /\ ~HasCycle(ns, es)
  /\ nodes = ns
  /\ edges = es
  /\ remaining = [n \in ns |-> Cardinality({m \in ns : <<m, n>> \in es})]
  /\ status = [n \in ns |-> "unstarted"]
  /\ left = Cardinality(ns)

(***************************************************************************)
(* Walk.Ready hands out every unstarted node whose count is zero.          *)
(***************************************************************************)
ReadyNodes == {n \in nodes : remaining[n] = 0 /\ status[n] = "unstarted"}

Ready ==
  /\ status' = [n \in nodes |->
                  IF n \in ReadyNodes THEN "dispatched" ELSE status[n]]
  /\ UNCHANGED <<nodes, edges, remaining, left>>

(***************************************************************************)
(* Walk.Done(id): the unstarted successors of id lose one predecessor, and *)
(* those that reach zero are dispatched by the same call (its result).     *)
(* mustBeDispatched is the guard: any other status panics.                 *)
(***************************************************************************)
DecrementedBy(id) == {n \in Succs(id) : status[n] = "unstarted"}

NewlyReady(id) == {n \in DecrementedBy(id) : remaining[n] = 1}

Done(id) ==
  /\ status[id] = "dispatched"
  /\ remaining' = [n \in nodes |->
       IF n \in DecrementedBy(id) THEN remaining[n] - 1 ELSE remaining[n]]
  /\ status' = [n \in nodes |->
       IF n = id THEN "done"
       ELSE IF n \in NewlyReady(id) THEN "dispatched"
       ELSE status[n]]
  /\ left' = left - 1
  /\ UNCHANGED <<nodes, edges>>

(***************************************************************************)
(* Walk.Skip(id): a breadth-first descent that stops at a node already     *)
(* skipped.  What it visits is the least set that holds id and, with each  *)
(* member not skipped before, that member's successors.  Only nodes not    *)
(* yet resolved count against left.                                        *)
(***************************************************************************)
ClosedFrom(id, S) ==
  /\ id \in S
  /\ \A n \in S : status[n] # "skipped" => Succs(n) \subseteq S

\* Mutant: only the direct dependents of a failure are visited.
VisitedDirect(id) == {id} \cup Succs(id)

Visited(id) == {n \in nodes : \A S \in SUBSET nodes : ClosedFrom(id, S) => n \in S}

Unresolved == {n \in nodes : status[n] \in {"unstarted", "dispatched"}}

SkippedWith(id) == {n \in Visited(id) : status[n] # "skipped"} \ {id}

Skip(id) ==
  /\ status[id] = "dispatched"
  /\ status' = [n \in nodes |-> IF n \in Visited(id) THEN "skipped" ELSE status[n]]
  /\ left' = left - Cardinality(Visited(id) \cap Unresolved)
  /\ UNCHANGED <<nodes, edges, remaining>>

-----------------------------------------------------------------------------
(***************************************************************************)
(* A walk by itself: any acyclic graph, any caller that resolves only what *)
(* it was handed.                                                          *)
(***************************************************************************)
WalkInit == \E es \in SUBSET (Nodes \X Nodes) : BeginWalk(Nodes, es)

WalkNext ==
  \/ ReadyNodes # {} /\ Ready
  \/ \E id \in nodes : Done(id) \/ Skip(id)

WalkSpec == WalkInit /\ [][WalkNext]_walkVars

-----------------------------------------------------------------------------
WalkTypeOK ==
  /\ nodes \subseteq Nodes
  /\ edges \subseteq nodes \X nodes
  /\ remaining \in [nodes -> Nat]
  /\ status \in [nodes -> WalkStatus]
  /\ left \in Nat

(***************************************************************************)
(* walk.go:48-51.  A node is dispatched only when every one of its own     *)
(* predecessors has reached done, whatever was skipped elsewhere.          *)
(***************************************************************************)
DispatchedAfterPreds ==
  \A n \in nodes : status[n] \in {"dispatched", "done"} =>
    \A m \in Preds(n) : status[m] = "done"

(***************************************************************************)
(* walk.go:187-191.  Everything downstream of a skipped node is skipped:   *)
(* no dependent of a failure is left waiting for it or is ever run.        *)
(***************************************************************************)
SkippedDownstream ==
  \A n \in nodes : status[n] = "skipped" =>
    \A m \in Succs(n) : status[m] = "skipped"

(***************************************************************************)
(* walk.go:52-54, 204-206, 246-249.  Both counts are exact: Remaining is   *)
(* the number of unresolved nodes, however many failed ancestors reached   *)
(* one of them, and the count of a node that can still run is the number   *)
(* of its predecessors not yet done.                                       *)
(***************************************************************************)
LeftCountsUnresolved == left = Cardinality(Unresolved)

RemainingCountsPreds ==
  \A n \in nodes : status[n] = "unstarted" =>
    remaining[n] = Cardinality({m \in Preds(n) : status[m] # "done"})

CountsAreExact == LeftCountsUnresolved /\ RemainingCountsPreds

(***************************************************************************)
(* walk.go:65-68.  While anything is left, something is dispatched or      *)
(* about to be: the executor never waits on a walk that cannot move.       *)
(***************************************************************************)
NeverStuck ==
  left > 0 => \E n \in nodes : status[n] = "dispatched" \/ n \in ReadyNodes

(***************************************************************************)
(* walk.go:46-56, 111-113.  A node is resolved once: done and skipped are  *)
(* final, and what was handed out is never handed out again.               *)
(***************************************************************************)
StatusOnlyAdvances ==
  [][\A n \in nodes :
       /\ status[n] \in {"done", "skipped"} => status'[n] = status[n]
       /\ status[n] = "dispatched" => status'[n] # "unstarted"]_walkVars

(***************************************************************************)
(* The counters implement the schedule: a walk only ever starts what the   *)
(* dependency order allows, and a failure retires everything downstream of *)
(* it, even when the descent was cut short at nodes skipped earlier.       *)
(***************************************************************************)
Abstract == INSTANCE Schedule

ImplementsSchedule == Abstract!ScheduleSpec
=============================================================================
