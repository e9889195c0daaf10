--------------------------- MODULE ExecutorProofs ---------------------------
(***************************************************************************)
(* First the walk, for every finite acyclic graph: it dispatches in        *)
(* dependency order, retires everything downstream of a failure, counts    *)
(* what is left exactly, never gets stuck, and implements the abstract     *)
(* schedule.                                                               *)
(*                                                                         *)
(* Then the executor, for every set of addresses, every plan and every     *)
(* order of completions, failures, interrupts and crashes: it drives the   *)
(* walk as the walk asks, keeps within its limits, launches nothing once   *)
(* it is to stop, and accounts for every operation.                        *)
(***************************************************************************)
EXTENDS Executor, FiniteSetTheorems, SequenceTheorems, NaturalsInduction, WellFoundedInduction, TLAPS

-----------------------------------------------------------------------------
(* The walk *)

(***************************************************************************)
(* The inductive invariant.  Dispatch order needs the counts (a node is    *)
(* handed out when its count reaches zero), the counts need the statuses,  *)
(* and the cut-short descent of Skip needs SkippedDownstream.              *)
(***************************************************************************)
Acyclic == ~HasCycle(nodes, edges)

WalkInv ==
  /\ WalkTypeOK
  /\ Acyclic
  /\ DispatchedAfterPreds
  /\ SkippedDownstream
  /\ LeftCountsUnresolved
  /\ RemainingCountsPreds

-----------------------------------------------------------------------------
(***************************************************************************)
(* Finiteness: every set of nodes a count is taken of is finite.           *)
(***************************************************************************)
LEMMA NodesFinite ==
  ASSUME nodes \subseteq Nodes, NEW S \in SUBSET nodes
  PROVE  IsFiniteSet(S) /\ Cardinality(S) \in Nat
  <1>1. IsFiniteSet(nodes)
    BY NodesAssumption, FS_Subset
  <1>2. IsFiniteSet(S)
    BY <1>1, FS_Subset
  <1> QED BY <1>2, FS_CardinalityType

(***************************************************************************)
(* The set Skip's descent visits holds the failed node, is closed under    *)
(* the successors of its members not skipped before, and is the least such *)
(* set (walk.go:207-236).                                                  *)
(***************************************************************************)
LEMMA VisitedLeast ==
  ASSUME edges \subseteq nodes \X nodes, NEW id \in nodes
  PROVE  /\ Visited(id) \subseteq nodes
         /\ ClosedFrom(id, Visited(id))
         /\ \A S \in SUBSET nodes : ClosedFrom(id, S) => Visited(id) \subseteq S
  <1>1. Visited(id) \subseteq nodes
    BY DEF Visited
  <1>2. \A S \in SUBSET nodes : ClosedFrom(id, S) => Visited(id) \subseteq S
    BY DEF Visited
  <1>3. id \in Visited(id)
    BY DEF Visited, ClosedFrom
  <1>4. ASSUME NEW n \in Visited(id), status[n] # "skipped", NEW m \in Succs(n)
        PROVE  m \in Visited(id)
    <2>1. m \in nodes
      BY DEF Succs
    <2>2. ASSUME NEW S \in SUBSET nodes, ClosedFrom(id, S)
          PROVE  m \in S
      <3>1. n \in S
        BY <1>2, <2>2
      <3> QED BY <3>1, <1>4, <2>2 DEF ClosedFrom
    <2> QED BY <2>1, <2>2 DEF Visited
  <1> QED BY <1>1, <1>2, <1>3, <1>4 DEF ClosedFrom

(***************************************************************************)
(* A failure never reaches a node that was dispatched or is done: those    *)
(* have only done predecessors, so the descent cannot get to them.         *)
(***************************************************************************)
LEMMA VisitedUnstarted ==
  ASSUME WalkInv, NEW id \in nodes, status[id] = "dispatched"
  PROVE  \A n \in Visited(id) : n # id => status[n] \in {"unstarted", "skipped"}
  <1> DEFINE S == {id} \cup {n \in nodes : status[n] \in {"unstarted", "skipped"}}
  <1>1. S \in SUBSET nodes
    OBVIOUS
  <1>2. ASSUME NEW n \in S, status[n] # "skipped", NEW m \in Succs(n)
        PROVE  m \in S
    <2>1. m \in nodes /\ n \in nodes /\ n \in Preds(m)
      BY <1>1 DEF Succs, Preds
    <2>2. status[n] # "done"
      OBVIOUS
    <2>3. status[m] \notin {"dispatched", "done"}
      BY <2>1, <2>2 DEF WalkInv, DispatchedAfterPreds
    <2> QED BY <2>1, <2>3 DEF WalkInv, WalkTypeOK, WalkStatus
  <1>3. ClosedFrom(id, S)
    BY <1>2 DEF ClosedFrom
  <1> QED BY <1>1, <1>3, VisitedLeast DEF WalkInv, WalkTypeOK

(***************************************************************************)
(* A node that Ready or Done hands out has no unfinished predecessor.      *)
(***************************************************************************)
LEMMA ReadyPredsDone ==
  ASSUME WalkInv, NEW n \in ReadyNodes
  PROVE  \A m \in Preds(n) : status[m] = "done"
  <1> DEFINE U == {m \in Preds(n) : status[m] # "done"}
  <1>1. n \in nodes /\ Cardinality(U) = 0
    BY DEF ReadyNodes, WalkInv, RemainingCountsPreds
  <1>2. U \in SUBSET nodes
    BY DEF Preds
  <1>3. IsFiniteSet(U)
    BY <1>2, NodesFinite DEF WalkInv, WalkTypeOK
  <1>4. U = {}
    BY <1>1, <1>3, FS_EmptySet
  <1> QED BY <1>4

LEMMA NewlyReadyPredsDone ==
  ASSUME WalkInv, NEW id \in nodes, status[id] = "dispatched", NEW n \in NewlyReady(id)
  PROVE  \A m \in Preds(n) : m = id \/ status[m] = "done"
  <1> DEFINE U == {m \in Preds(n) : status[m] # "done"}
  <1>1. n \in nodes /\ Cardinality(U) = 1
    BY DEF NewlyReady, DecrementedBy, Succs, WalkInv, RemainingCountsPreds
  <1>2. U \in SUBSET nodes
    BY DEF Preds
  <1>3. IsFiniteSet(U)
    BY <1>2, NodesFinite DEF WalkInv, WalkTypeOK
  <1>4. PICK x : U = {x}
    BY <1>1, <1>3, FS_Singleton
  <1>5. id \in U
    BY DEF NewlyReady, DecrementedBy, Succs, Preds
  <1> QED BY <1>4, <1>5

-----------------------------------------------------------------------------
LEMMA WalkInvInit == WalkInit => WalkInv
  <1> SUFFICES ASSUME NEW es \in SUBSET (Nodes \X Nodes), BeginWalk(Nodes, es)
               PROVE  WalkInv
    BY DEF WalkInit
  <1>1. nodes = Nodes /\ edges = es /\ edges \subseteq nodes \X nodes
    BY DEF BeginWalk
  <1>2. \A n \in nodes : Preds(n) \in SUBSET nodes
    BY DEF Preds
  <1>3. \A n \in nodes : Cardinality(Preds(n)) \in Nat
    BY <1>1, <1>2, NodesFinite
  <1>4. \A n \in nodes : remaining[n] = Cardinality(Preds(n))
    BY <1>1 DEF BeginWalk, Preds
  <1>5. Unresolved = nodes
    BY <1>1 DEF Unresolved, BeginWalk
  <1>6. Cardinality(nodes) \in Nat
    BY <1>1, NodesFinite
  <1>7. WalkTypeOK
    BY <1>1, <1>3, <1>4, <1>6 DEF WalkTypeOK, BeginWalk, WalkStatus
  <1>8. Acyclic
    BY <1>1 DEF Acyclic, BeginWalk
  <1>9. DispatchedAfterPreds /\ SkippedDownstream
    BY <1>1 DEF DispatchedAfterPreds, SkippedDownstream, BeginWalk
  <1>10. LeftCountsUnresolved
    BY <1>1, <1>5 DEF LeftCountsUnresolved, BeginWalk
  <1>11. RemainingCountsPreds
    <2>1. \A n \in nodes : {m \in Preds(n) : status[m] # "done"} = Preds(n)
      BY <1>1 DEF BeginWalk, Preds
    <2> QED BY <2>1, <1>4 DEF RemainingCountsPreds
  <1> QED BY <1>7, <1>8, <1>9, <1>10, <1>11 DEF WalkInv

LEMMA WalkInvReady ==
  ASSUME WalkInv, Ready
  PROVE  WalkInv'
  <1> USE DEF WalkInv
  <1>1. \A n \in nodes : status'[n] =
          IF n \in ReadyNodes THEN "dispatched" ELSE status[n]
    BY DEF Ready
  <1>2. UNCHANGED <<nodes, edges, remaining, left>>
    BY DEF Ready
  <1>3. WalkTypeOK'
    BY <1>2 DEF Ready, WalkTypeOK, WalkStatus
  <1>4. Acyclic'
    BY <1>2 DEF Acyclic, HasCycle
  <1>5. \A n \in nodes : Preds(n)' = Preds(n) /\ Succs(n)' = Succs(n)
    BY <1>2 DEF Preds, Succs
  <1>6. \A n \in nodes : status[n] = "done" <=> status'[n] = "done"
    BY <1>1 DEF ReadyNodes
  <1>7. DispatchedAfterPreds'
    <2> SUFFICES ASSUME NEW n \in nodes, status'[n] \in {"dispatched", "done"},
                        NEW m \in Preds(n)
                 PROVE  status'[m] = "done"
      BY <1>2, <1>5 DEF DispatchedAfterPreds
    <2>1. m \in nodes
      BY DEF Preds
    <2>2. CASE n \in ReadyNodes
      BY <2>1, <2>2, <1>6, ReadyPredsDone
    <2>3. CASE n \notin ReadyNodes
      BY <2>1, <2>3, <1>1, <1>6 DEF DispatchedAfterPreds
    <2> QED BY <2>2, <2>3
  <1>8. SkippedDownstream'
    <2> SUFFICES ASSUME NEW n \in nodes, status'[n] = "skipped", NEW m \in Succs(n)
                 PROVE  status'[m] = "skipped"
      BY <1>2, <1>5 DEF SkippedDownstream
    <2>1. status[n] = "skipped" /\ m \in nodes
      BY <1>1 DEF Succs
    <2>2. status[m] = "skipped"
      BY <2>1 DEF SkippedDownstream
    <2> QED BY <2>1, <2>2, <1>1 DEF ReadyNodes
  <1>9. LeftCountsUnresolved'
    <2>1. Unresolved' = Unresolved
      BY <1>1, <1>2 DEF Unresolved, ReadyNodes
    <2> QED BY <2>1, <1>2 DEF LeftCountsUnresolved
  <1>10. RemainingCountsPreds'
    <2> SUFFICES ASSUME NEW n \in nodes, status'[n] = "unstarted"
                 PROVE  remaining'[n] = Cardinality({m \in Preds(n) : status'[m] # "done"})
      BY <1>2, <1>5 DEF RemainingCountsPreds
    <2>1. {m \in Preds(n) : status'[m] # "done"} = {m \in Preds(n) : status[m] # "done"}
      BY <1>6 DEF Preds
    <2>2. status[n] = "unstarted"
      BY <1>1
    <2> QED BY <2>1, <2>2, <1>2 DEF RemainingCountsPreds
  <1> QED BY <1>3, <1>4, <1>7, <1>8, <1>9, <1>10

LEMMA WalkInvDone ==
  ASSUME WalkInv, NEW id \in nodes, Done(id)
  PROVE  WalkInv'
  <1> USE DEF WalkInv
  <1>1. status[id] = "dispatched" /\ UNCHANGED <<nodes, edges>> /\ left' = left - 1
    BY DEF Done
  <1>2. \A n \in nodes : status'[n] = IF n = id THEN "done"
                                      ELSE IF n \in NewlyReady(id) THEN "dispatched"
                                      ELSE status[n]
    BY DEF Done
  <1>3. \A n \in nodes : remaining'[n] = IF n \in DecrementedBy(id)
                                         THEN remaining[n] - 1 ELSE remaining[n]
    BY DEF Done
  <1>4. \A n \in nodes : Preds(n)' = Preds(n) /\ Succs(n)' = Succs(n)
    BY <1>1 DEF Preds, Succs
  <1>5. \A n \in nodes : status'[n] = "done" <=> (n = id \/ status[n] = "done")
    BY <1>1, <1>2 DEF NewlyReady, DecrementedBy
  <1>6. Unresolved' = Unresolved \ {id} /\ id \in Unresolved
    BY <1>1, <1>2 DEF Unresolved, NewlyReady, DecrementedBy
  <1>7. IsFiniteSet(Unresolved) /\ Cardinality(Unresolved) \in Nat
    <2>1. Unresolved \in SUBSET nodes
      BY DEF Unresolved
    <2> QED BY <2>1, NodesFinite DEF WalkTypeOK
  <1>8. Cardinality(Unresolved \ {id}) = Cardinality(Unresolved) - 1
    BY <1>6, <1>7, FS_RemoveElement
  <1>9. Cardinality(Unresolved \ {id}) \in Nat
    <2>1. Unresolved \ {id} \in SUBSET nodes
      BY DEF Unresolved
    <2> QED BY <2>1, NodesFinite DEF WalkTypeOK
  <1>10. \A n \in DecrementedBy(id) :
           LET U == {m \in Preds(n) : status[m] # "done"}
           IN /\ id \in U /\ IsFiniteSet(U)
              /\ remaining[n] = Cardinality(U)
              /\ Cardinality(U \ {id}) = Cardinality(U) - 1
              /\ Cardinality(U \ {id}) \in Nat
    <2> TAKE n \in DecrementedBy(id)
    <2> DEFINE U == {m \in Preds(n) : status[m] # "done"}
    <2>1. n \in nodes /\ status[n] = "unstarted" /\ id \in U
      BY <1>1 DEF DecrementedBy, Succs, Preds
    <2>2. U \in SUBSET nodes /\ U \ {id} \in SUBSET nodes
      BY DEF Preds
    <2>3. IsFiniteSet(U) /\ IsFiniteSet(U \ {id}) /\ Cardinality(U \ {id}) \in Nat
      BY <2>2, NodesFinite DEF WalkTypeOK
    <2>4. Cardinality(U \ {id}) = Cardinality(U) - 1
      BY <2>1, <2>3, FS_RemoveElement
    <2>5. remaining[n] = Cardinality(U)
      BY <2>1 DEF RemainingCountsPreds
    <2> QED BY <2>1, <2>3, <2>4, <2>5
  <1>11. WalkTypeOK'
    <2>1. left' \in Nat
      BY <1>1, <1>6, <1>8, <1>9 DEF LeftCountsUnresolved
    <2>2. remaining' \in [nodes -> Nat]
      <3>1. \A n \in nodes : remaining'[n] \in Nat
        BY <1>3, <1>10 DEF WalkTypeOK
      <3> QED BY <3>1 DEF Done
    <2>3. status' \in [nodes -> WalkStatus]
      BY DEF Done, WalkTypeOK, WalkStatus
    <2> QED BY <2>1, <2>2, <2>3, <1>1 DEF WalkTypeOK
  <1>12. Acyclic'
    BY <1>1 DEF Acyclic, HasCycle
  <1>13. DispatchedAfterPreds'
    <2> SUFFICES ASSUME NEW n \in nodes, status'[n] \in {"dispatched", "done"},
                        NEW m \in Preds(n)
                 PROVE  status'[m] = "done"
      BY <1>1, <1>4 DEF DispatchedAfterPreds
    <2>1. m \in nodes
      BY DEF Preds
    <2>2. CASE n \in NewlyReady(id)
      BY <2>1, <2>2, <1>1, <1>5, NewlyReadyPredsDone
    <2>3. CASE n \notin NewlyReady(id)
      <3>1. status[n] \in {"dispatched", "done"}
        BY <2>3, <1>1, <1>2
      <3> QED BY <3>1, <2>1, <1>5 DEF DispatchedAfterPreds
    <2> QED BY <2>2, <2>3
  <1>14. SkippedDownstream'
    <2> SUFFICES ASSUME NEW n \in nodes, status'[n] = "skipped", NEW m \in Succs(n)
                 PROVE  status'[m] = "skipped"
      BY <1>1, <1>4 DEF SkippedDownstream
    <2>1. status[n] = "skipped" /\ m \in nodes
      BY <1>2 DEF Succs
    <2>2. status[m] = "skipped"
      BY <2>1 DEF SkippedDownstream
    <2> QED BY <2>1, <2>2, <1>1, <1>2 DEF NewlyReady, DecrementedBy
  <1>15. LeftCountsUnresolved'
    BY <1>1, <1>6, <1>8 DEF LeftCountsUnresolved
  <1>16. RemainingCountsPreds'
    <2> SUFFICES ASSUME NEW n \in nodes, status'[n] = "unstarted"
                 PROVE  remaining'[n] = Cardinality({m \in Preds(n) : status'[m] # "done"})
      BY <1>1, <1>4 DEF RemainingCountsPreds
    <2> DEFINE U == {m \in Preds(n) : status[m] # "done"}
    <2>1. status[n] = "unstarted" /\ remaining[n] = Cardinality(U)
      BY <1>2 DEF RemainingCountsPreds
    <2>2. {m \in Preds(n) : status'[m] # "done"} = U \ {id}
      BY <1>5 DEF Preds
    <2>3. CASE n \in DecrementedBy(id)
      BY <2>1, <2>2, <2>3, <1>3, <1>10
    <2>4. CASE n \notin DecrementedBy(id)
      <3>1. id \notin U
        BY <2>1, <2>4 DEF DecrementedBy, Succs, Preds
      <3> QED BY <3>1, <2>1, <2>2, <2>4, <1>3
    <2> QED BY <2>3, <2>4
  <1> QED BY <1>11, <1>12, <1>13, <1>14, <1>15, <1>16

LEMMA WalkInvSkip ==
  ASSUME WalkInv, NEW id \in nodes, Skip(id)
  PROVE  WalkInv'
  <1> USE DEF WalkInv
  <1> DEFINE V == Visited(id)
  <1>1. status[id] = "dispatched" /\ UNCHANGED <<nodes, edges, remaining>>
    BY DEF Skip
  <1>2. \A n \in nodes : status'[n] = IF n \in V THEN "skipped" ELSE status[n]
    BY DEF Skip
  <1>3. V \subseteq nodes /\ ClosedFrom(id, V)
    BY VisitedLeast DEF WalkTypeOK
  <1>4. \A n \in V : status[n] # "done"
    BY <1>1, VisitedUnstarted
  <1>5. \A n \in nodes : Preds(n)' = Preds(n) /\ Succs(n)' = Succs(n)
    BY <1>1 DEF Preds, Succs
  <1>6. \A n \in nodes : status'[n] = "done" <=> status[n] = "done"
    BY <1>2, <1>4
  <1>7. Unresolved' = Unresolved \ V
    BY <1>1, <1>2 DEF Unresolved
  <1>8. IsFiniteSet(Unresolved)
    <2>1. Unresolved \in SUBSET nodes
      BY DEF Unresolved
    <2> QED BY <2>1, NodesFinite DEF WalkTypeOK
  <1>9. Cardinality(Unresolved \ V) = Cardinality(Unresolved) - Cardinality(Unresolved \cap V)
    BY <1>8, FS_Difference
  <1>10. Cardinality(Unresolved \ V) \in Nat
    <2>1. Unresolved \ V \in SUBSET nodes
      BY DEF Unresolved
    <2> QED BY <2>1, NodesFinite DEF WalkTypeOK
  <1>11. left' = Cardinality(Unresolved \ V)
    <2>1. V \cap Unresolved = Unresolved \cap V
      OBVIOUS
    <2>2. left' = left - Cardinality(V \cap Unresolved)
      BY DEF Skip
    <2> QED BY <2>1, <2>2, <1>9 DEF LeftCountsUnresolved
  <1>12. WalkTypeOK'
    <2>1. status' \in [nodes -> WalkStatus]
      BY DEF Skip, WalkTypeOK, WalkStatus
    <2> QED BY <2>1, <1>1, <1>10, <1>11 DEF WalkTypeOK
  <1>13. Acyclic'
    BY <1>1 DEF Acyclic, HasCycle
  <1>14. DispatchedAfterPreds'
    <2> SUFFICES ASSUME NEW n \in nodes, status'[n] \in {"dispatched", "done"},
                        NEW m \in Preds(n)
                 PROVE  status'[m] = "done"
      BY <1>1, <1>5 DEF DispatchedAfterPreds
    <2>1. m \in nodes /\ status[n] \in {"dispatched", "done"}
      BY <1>2 DEF Preds
    <2> QED BY <2>1, <1>6 DEF DispatchedAfterPreds
  <1>15. SkippedDownstream'
    <2> SUFFICES ASSUME NEW n \in nodes, status'[n] = "skipped", NEW m \in Succs(n)
                 PROVE  status'[m] = "skipped"
      BY <1>1, <1>5 DEF SkippedDownstream
    <2>1. m \in nodes
      BY DEF Succs
    <2>2. CASE status[n] = "skipped"
      BY <2>1, <2>2, <1>2 DEF SkippedDownstream
    <2>3. CASE status[n] # "skipped"
      <3>1. n \in V
        BY <2>3, <1>2
      <3>2. m \in V
        BY <3>1, <2>3, <1>3 DEF ClosedFrom
      <3> QED BY <3>2, <2>1, <1>2
    <2> QED BY <2>2, <2>3
  <1>16. LeftCountsUnresolved'
    BY <1>7, <1>11 DEF LeftCountsUnresolved
  <1>17. RemainingCountsPreds'
    <2> SUFFICES ASSUME NEW n \in nodes, status'[n] = "unstarted"
                 PROVE  remaining'[n] = Cardinality({m \in Preds(n) : status'[m] # "done"})
      BY <1>1, <1>5 DEF RemainingCountsPreds
    <2>1. status[n] = "unstarted"
      BY <1>2
    <2>2. {m \in Preds(n) : status'[m] # "done"} = {m \in Preds(n) : status[m] # "done"}
      BY <1>6 DEF Preds
    <2> QED BY <2>1, <2>2, <1>1 DEF RemainingCountsPreds
  <1> QED BY <1>12, <1>13, <1>14, <1>15, <1>16, <1>17

LEMMA WalkInvStutter ==
  ASSUME WalkInv, UNCHANGED walkVars
  PROVE  WalkInv'
  <1> USE DEF WalkInv
  <1>1. UNCHANGED <<nodes, edges, remaining, status, left>>
    BY DEF walkVars
  <1>2. \A n \in nodes : Preds(n)' = Preds(n) /\ Succs(n)' = Succs(n)
    BY <1>1 DEF Preds, Succs
  <1>3. Unresolved' = Unresolved
    BY <1>1 DEF Unresolved
  <1>4. WalkTypeOK' /\ Acyclic'
    BY <1>1 DEF WalkTypeOK, Acyclic, HasCycle
  <1>5. DispatchedAfterPreds' /\ SkippedDownstream'
    BY <1>1, <1>2 DEF DispatchedAfterPreds, SkippedDownstream
  <1>6. LeftCountsUnresolved' /\ RemainingCountsPreds'
    BY <1>1, <1>2, <1>3 DEF LeftCountsUnresolved, RemainingCountsPreds
  <1> QED BY <1>4, <1>5, <1>6

LEMMA WalkInvNext == WalkInv /\ [WalkNext]_walkVars => WalkInv'
  <1> SUFFICES ASSUME WalkInv, [WalkNext]_walkVars
               PROVE  WalkInv'
    OBVIOUS
  <1>1. CASE Ready
    BY <1>1, WalkInvReady
  <1>2. ASSUME NEW id \in nodes, Done(id)
        PROVE  WalkInv'
    BY <1>2, WalkInvDone
  <1>3. ASSUME NEW id \in nodes, Skip(id)
        PROVE  WalkInv'
    BY <1>3, WalkInvSkip
  <1>4. CASE UNCHANGED walkVars
    BY <1>4, WalkInvStutter
  <1> QED BY <1>1, <1>2, <1>3, <1>4 DEF WalkNext

-----------------------------------------------------------------------------
(***************************************************************************)
(* The inductive invariant holds in every state of every walk: dispatch    *)
(* follows the dependency order, failures retire everything downstream,    *)
(* and both counts are exact (walk.go:44-56).                              *)
(***************************************************************************)
THEOREM WalkInvariant == WalkSpec => []WalkInv
  BY WalkInvInit, WalkInvNext, PTL DEF WalkSpec

(***************************************************************************)
(* Each of the invariants the run checks (walk.go:48-56, 187-206).         *)
(***************************************************************************)
THEOREM WalkSafety ==
  WalkSpec => [](WalkTypeOK /\ DispatchedAfterPreds /\ SkippedDownstream /\ CountsAreExact)
  <1>1. WalkInv => WalkTypeOK /\ DispatchedAfterPreds /\ SkippedDownstream /\ CountsAreExact
    BY DEF WalkInv, CountsAreExact
  <1> QED BY <1>1, WalkInvariant, PTL

(***************************************************************************)
(* A walk with anything left can always move (walk.go:65-68): a minimal    *)
(* unstarted node has no unfinished predecessor, because a skipped one     *)
(* would have taken it along.                                              *)
(***************************************************************************)
LEMMA WalkInvNeverStuck == WalkInv => NeverStuck
  <1> SUFFICES ASSUME WalkInv, left > 0,
                      \A n \in nodes : status[n] # "dispatched"
               PROVE  \E n \in nodes : n \in ReadyNodes
    BY DEF NeverStuck
  <1> USE DEF WalkInv
  <1>1. Unresolved \in SUBSET nodes
    BY DEF Unresolved
  <1>2. Unresolved # {}
    <2>1. Cardinality({}) = 0
      BY FS_EmptySet
    <2>2. left = Cardinality(Unresolved) /\ left # 0
      BY DEF LeftCountsUnresolved, WalkTypeOK
    <2> QED BY <2>1, <2>2
  <1>3. PICK n \in Unresolved : \A m \in Unresolved : <<m, n>> \notin edges
    BY <1>1, <1>2 DEF Acyclic, HasCycle
  <1>4. n \in nodes /\ status[n] = "unstarted"
    BY DEF Unresolved
  <1>5. ASSUME NEW m \in Preds(n)
        PROVE  status[m] = "done"
    <2>1. m \in nodes /\ m \notin Unresolved /\ n \in Succs(m)
      BY <1>3, <1>4 DEF Preds, Succs
    <2>2. status[m] # "skipped"
      BY <2>1, <1>4 DEF SkippedDownstream
    <2> QED BY <2>1, <2>2 DEF Unresolved, WalkTypeOK, WalkStatus
  <1>6. {m \in Preds(n) : status[m] # "done"} = {}
    BY <1>5
  <1>7. remaining[n] = 0
    BY <1>4, <1>6, FS_EmptySet DEF RemainingCountsPreds
  <1> QED BY <1>4, <1>7 DEF ReadyNodes

THEOREM WalkNeverStuck == WalkSpec => []NeverStuck
  BY WalkInvNeverStuck, WalkInvariant, PTL

(***************************************************************************)
(* Done and skipped are final and nothing is handed out twice              *)
(* (walk.go:55-56, 100-104).                                               *)
(***************************************************************************)
THEOREM WalkAdvances == WalkSpec => StatusOnlyAdvances
  <1> DEFINE Advance == \A n \in nodes :
        /\ status[n] \in {"done", "skipped"} => status'[n] = status[n]
        /\ status[n] = "dispatched" => status'[n] # "unstarted"
  <1>1. WalkInv /\ [WalkNext]_walkVars => [Advance]_walkVars
    <2> SUFFICES ASSUME WalkInv, WalkNext
                 PROVE  Advance
      OBVIOUS
    <2>1. CASE Ready
      BY <2>1 DEF Ready, ReadyNodes
    <2>2. ASSUME NEW id \in nodes, Done(id)
          PROVE  Advance
      BY <2>2 DEF Done, NewlyReady, DecrementedBy
    <2>3. ASSUME NEW id \in nodes, Skip(id)
          PROVE  Advance
      <3>1. status[id] = "dispatched"
        BY <2>3 DEF Skip
      <3>2. \A n \in nodes : n \in Visited(id) =>
              n = id \/ status[n] \in {"unstarted", "skipped"}
        BY <3>1, VisitedUnstarted
      <3> QED BY <2>3, <3>1, <3>2 DEF Skip
    <2> QED BY <2>1, <2>2, <2>3 DEF WalkNext
  <1> QED BY <1>1, WalkInvariant, PTL DEF WalkSpec, StatusOnlyAdvances

-----------------------------------------------------------------------------
(***************************************************************************)
(* Under the invariant the cut-short descent retires the same nodes as a   *)
(* full one (walk.go:204-206).                                             *)
(***************************************************************************)
LEMMA VisitedIsDownstream ==
  ASSUME WalkInv, NEW id \in nodes
  PROVE  \A n \in nodes :
           (n \in Visited(id) \/ status[n] = "skipped")
             <=> (n \in Abstract!Downstream(id) \/ status[n] = "skipped")
  <1> USE DEF WalkInv
  <1> DEFINE V == Visited(id)
             D == Abstract!Downstream(id)
             Sk == {n \in nodes : status[n] = "skipped"}
  <1>1. V \subseteq nodes /\ ClosedFrom(id, V)
        /\ \A S \in SUBSET nodes : ClosedFrom(id, S) => V \subseteq S
    BY VisitedLeast DEF WalkTypeOK
  <1>2. D \subseteq nodes
    BY DEF Abstract!Downstream
  <1>3. ClosedFrom(id, D)
    <2>1. id \in D
      BY DEF Abstract!Downstream
    <2>2. ASSUME NEW n \in D, NEW m \in Succs(n)
          PROVE  m \in D
      BY <2>2, <1>2 DEF Abstract!Downstream, Succs
    <2> QED BY <2>1, <2>2 DEF ClosedFrom
  <1>4. V \subseteq D
    BY <1>1, <1>2, <1>3
  <1>5. D \subseteq V \cup Sk
    <2>1. V \cup Sk \in SUBSET nodes
      BY <1>1
    <2>2. id \in V \cup Sk
      BY <1>1 DEF ClosedFrom
    <2>3. ASSUME NEW m \in V \cup Sk, NEW k \in nodes, <<m, k>> \in edges
          PROVE  k \in V \cup Sk
      <3>1. m \in nodes /\ k \in Succs(m)
        BY <2>1, <2>3 DEF Succs
      <3>2. CASE status[m] = "skipped"
        BY <3>1, <3>2 DEF SkippedDownstream
      <3>3. CASE status[m] # "skipped"
        BY <3>1, <3>3, <1>1 DEF ClosedFrom
      <3> QED BY <3>2, <3>3
    <2> QED BY <2>1, <2>2, <2>3 DEF Abstract!Downstream
  <1> QED BY <1>4, <1>5

\* One step of the walk is one step of the schedule, or none.
LEMMA WalkStepSchedules ==
  WalkInv /\ [WalkNext]_walkVars => [Abstract!ScheduleNext]_(Abstract!scheduleVars)
  <1> SUFFICES ASSUME WalkInv, [WalkNext]_walkVars
               PROVE  Abstract!ScheduleNext \/ UNCHANGED Abstract!scheduleVars
    OBVIOUS
  <1>0. status \in [nodes -> WalkStatus]
    BY DEF WalkInv, WalkTypeOK
  <1>1. CASE Ready
    <2>1. ReadyNodes \in SUBSET Abstract!Enabled(status)
      BY ReadyPredsDone DEF ReadyNodes, Abstract!Enabled, Preds
    <2>2. status' = Abstract!Dispatch(status, ReadyNodes)
      BY <1>1 DEF Ready, Abstract!Dispatch
    <2>3. Abstract!Start
      BY <2>1, <2>2, <1>1 DEF Abstract!Start, Ready
    <2> QED BY <2>3 DEF Abstract!ScheduleNext
  <1>2. ASSUME NEW id \in nodes, Done(id)
        PROVE  Abstract!ScheduleNext
    <2> DEFINE finished == [status EXCEPT ![id] = "done"]
    <2>1. status[id] = "dispatched"
      BY <1>2 DEF Done
    <2>2. NewlyReady(id) \in SUBSET Abstract!Enabled(finished)
      <3> SUFFICES ASSUME NEW n \in NewlyReady(id)
                   PROVE  n \in Abstract!Enabled(finished)
        OBVIOUS
      <3>1. n \in nodes /\ status[n] = "unstarted" /\ n # id
        BY <2>1 DEF NewlyReady, DecrementedBy, Succs
      <3>2. \A m \in nodes : <<m, n>> \in edges => finished[m] = "done"
        BY <1>0, <2>1, NewlyReadyPredsDone DEF Preds
      <3> QED BY <3>1, <3>2, <1>0 DEF Abstract!Enabled
    <2>3. status' = Abstract!Dispatch(finished, NewlyReady(id))
      <3>1. id \notin NewlyReady(id)
        BY <2>1 DEF NewlyReady, DecrementedBy
      <3> QED BY <1>0, <1>2, <3>1 DEF Done, Abstract!Dispatch
    <2>4. Abstract!Finish(id)
      BY <1>2, <2>1, <2>2, <2>3 DEF Abstract!Finish, Done
    <2> QED BY <2>4 DEF Abstract!ScheduleNext
  <1>3. ASSUME NEW id \in nodes, Skip(id)
        PROVE  Abstract!ScheduleNext
    <2>1. status' = [n \in nodes |->
                       IF n \in Abstract!Downstream(id) THEN "skipped" ELSE status[n]]
      BY <1>0, <1>3, VisitedIsDownstream DEF Skip
    <2>2. Abstract!Fail(id)
      BY <1>3, <2>1 DEF Abstract!Fail, Skip
    <2> QED BY <2>2 DEF Abstract!ScheduleNext
  <1>4. CASE UNCHANGED walkVars
    BY <1>4 DEF walkVars, Abstract!scheduleVars
  <1> QED BY <1>1, <1>2, <1>3, <1>4 DEF WalkNext

(***************************************************************************)
(* The walk implements the abstract schedule: initial states map to        *)
(* initial states, and every call maps to one step of it.                  *)
(***************************************************************************)
THEOREM WalkRefinesSchedule == WalkSpec => ImplementsSchedule
  <1>1. WalkInit => Abstract!ScheduleInit
    BY DEF WalkInit, BeginWalk, Abstract!ScheduleInit
  <1> QED BY <1>1, WalkStepSchedules, WalkInvariant, PTL
      DEF WalkSpec, ImplementsSchedule, Abstract!ScheduleSpec

-----------------------------------------------------------------------------
(***************************************************************************)
(* Putting a finite set in a strict total order: everything in it is in    *)
(* the sequence, once.                                                     *)
(***************************************************************************)
Orders(R, S) ==
  /\ \A m \in S : <<m, m>> \notin R
  /\ \A m, n \in S : m # n => <<m, n>> \in R \/ <<n, m>> \in R
  /\ \A l, m, n \in S : <<l, m>> \in R /\ <<m, n>> \in R => <<l, n>> \in R

Lists(s, S) ==
  /\ s \in Seq(S)
  /\ \A n \in S : \E i \in DOMAIN s : s[i] = n
  /\ \A i, j \in DOMAIN s : s[i] = s[j] => i = j

LEMMA RankedLists ==
  ASSUME NEW S, IsFiniteSet(S), NEW R, Orders(R, S)
  PROVE  Lists(Ranked(S, R), S)
  <1> DEFINE N == Cardinality(S)
             Before(n) == {m \in S : <<m, n>> \in R}
             rank == [n \in S |-> Cardinality(Before(n))]
             place == [n \in S |-> rank[n] + 1]
  <1>0. \A n \in S : IsFiniteSet(Before(n))
    BY FS_Subset
  <1>1. N \in Nat /\ \A n \in S : rank[n] \in Nat
    BY <1>0, FS_CardinalityType
  <1> HIDE DEF rank, N
  <1>2. \A n \in S : rank[n] < N
    <2> SUFFICES ASSUME NEW n \in S PROVE rank[n] < N
      OBVIOUS
    <2>1. Before(n) \in SUBSET S /\ Before(n) # S
      BY DEF Orders
    <2> HIDE DEF Before
    <2>2. rank[n] <= N /\ rank[n] # N
      BY <2>1, FS_Subset DEF rank, N
    <2> QED BY <1>1, <2>2
  <1>3. \A m, n \in S : <<m, n>> \in R => rank[m] < rank[n]
    <2> SUFFICES ASSUME NEW m \in S, NEW n \in S, <<m, n>> \in R PROVE rank[m] < rank[n]
      OBVIOUS
    <2>1. Before(m) \in SUBSET Before(n) /\ m \in Before(n) /\ m \notin Before(m)
      BY DEF Orders
    <2> HIDE DEF Before
    <2>2. rank[m] <= rank[n] /\ rank[m] # rank[n]
      BY <1>0, <1>1, <2>1, FS_Subset DEF rank
    <2> QED BY <1>1, <2>2
  <1>4. \A m, n \in S : rank[m] = rank[n] => m = n
    <2> SUFFICES ASSUME NEW m \in S, NEW n \in S, rank[m] = rank[n], m # n PROVE FALSE
      OBVIOUS
    <2>1. rank[m] < rank[n] \/ rank[n] < rank[m]
      BY <1>3 DEF Orders
    <2> QED BY <1>1, <2>1
  <1>5. IsFiniteSet(1..N) /\ Cardinality(1..N) = N
    BY <1>1, FS_Interval
  <1>6. place \in Surjection(S, 1..N)
    <2>1. \A n \in S : rank[n] + 1 \in 1..N
      BY <1>1, <1>2
    <2>2. place \in [S -> 1..N] /\ \A m, n \in S : place[m] = place[n] => m = n
      <3>1. \A n \in S : place[n] = rank[n] + 1
        OBVIOUS
      <3>2. \A m, n \in S : place[m] = place[n] => m = n
        BY <1>1, <1>4, <3>1
      <3> QED BY <2>1, <3>2
    <2> HIDE DEF place
    <2>3. place \in Injection(S, 1..N)
      BY <2>2 DEF Injection, IsInjective
    <2> QED BY <1>5, <2>3, FS_Injection DEF N
  <1>7. \A k \in 1..N : \E n \in S : rank[n] = k - 1
    <2> SUFFICES ASSUME NEW k \in 1..N PROVE \E n \in S : rank[n] = k - 1
      OBVIOUS
    <2>1. PICK n \in S : place[n] = k
      BY <1>6 DEF Surjection
    <2>2. k = rank[n] + 1
      BY <2>1
    <2> QED BY <1>1, <2>2
  <1> DEFINE At(k) == CHOOSE n \in S : Cardinality({m \in S : <<m, n>> \in R}) = k - 1
  <1>8. \A k \in 1..N : At(k) \in S /\ rank[At(k)] = k - 1
    <2> SUFFICES ASSUME NEW k \in 1..N PROVE At(k) \in S /\ rank[At(k)] = k - 1
      OBVIOUS
    <2>1. PICK n \in S : rank[n] = k - 1
      BY <1>7
    <2>2. Cardinality({m \in S : <<m, n>> \in R}) = k - 1
      BY <2>1 DEF rank
    <2>3. At(k) \in S /\ Cardinality(Before(At(k))) = k - 1
      BY <2>2
    <2> HIDE DEF At
    <2> QED BY <2>3 DEF rank
  <1>9. Ranked(S, R) = [k \in 1..N |-> At(k)]
    BY DEF Ranked, N
  <1> HIDE DEF At
  <1>10. Ranked(S, R) \in Seq(S) /\ DOMAIN Ranked(S, R) = 1..N
    BY <1>1, <1>8, <1>9
  <1>11. \A n \in S : \E i \in 1..N : At(i) = n
    <2> SUFFICES ASSUME NEW n \in S PROVE \E i \in 1..N : At(i) = n
      OBVIOUS
    <2>1. rank[n] + 1 \in 1..N /\ (rank[n] + 1) - 1 = rank[n]
      BY <1>1, <1>2
    <2> QED BY <1>4, <1>8, <2>1
  <1>12. \A i, j \in 1..N : At(i) = At(j) => i = j
    <2> SUFFICES ASSUME NEW i \in 1..N, NEW j \in 1..N, At(i) = At(j) PROVE i = j
      OBVIOUS
    <2>1. i - 1 = j - 1
      BY <1>8
    <2> QED BY <1>1, <2>1
  <1> QED BY <1>9, <1>10, <1>11, <1>12 DEF Lists

\* The positions S of a list, in their order.
LEMMA PositionsListed ==
  ASSUME NEW N \in Nat, NEW S \in SUBSET (1..N)
  PROVE  Lists(Ranked(S, {p \in S \X S : p[1] < p[2]}), S)
  <1> DEFINE R == {p \in S \X S : p[1] < p[2]}
  <1>1. \A m, n \in S : <<m, n>> \in R <=> m < n
    OBVIOUS
  <1> HIDE DEF R
  <1>2. Orders(R, S)
    BY <1>1 DEF Orders
  <1>3. IsFiniteSet(S)
    <2>1. IsFiniteSet(1..N)
      BY FS_Interval
    <2> QED BY <2>1, FS_Subset
  <1> HIDE DEF R
  <1>4. Lists(Ranked(S, R), S)
    BY <1>2, <1>3, RankedLists
  <1> QED BY <1>4 DEF R

\* A set of positions that is not empty has a last one.
LEMMA LastPosition ==
  ASSUME NEW N \in Nat, NEW S \in SUBSET (1..N), S # {}
  PROVE  \E i \in S : \A j \in S : j <= i
  <1> DEFINE T == {N - i : i \in S}
  <1>1. T \in SUBSET Nat /\ T # {}
    <2>1. \A i \in S : N - i \in Nat
      OBVIOUS
    <2> QED BY <2>1
  <1> HIDE DEF T
  <1>2. PICK x \in T : \A y \in T : ~(<<y, x>> \in OpToRel(<, Nat))
    BY <1>1, NatLessThanWellFounded, WFMin
  <1>3. \A y \in T : ~(y < x)
    BY <1>1, <1>2 DEF OpToRel
  <1>4. PICK i \in S : x = N - i
    BY <1>2 DEF T
  <1>5. \A j \in S : N - j \in T
    BY DEF T
  <1>6. \A j \in S : j <= i
    <2> SUFFICES ASSUME NEW j \in S PROVE j <= i
      OBVIOUS
    <2>1. ~(N - j < N - i)
      BY <1>3, <1>4, <1>5
    <2> QED BY <2>1
  <1> QED BY <1>6

\* One list after another, and the members of a list at some positions.
LEMMA ConcatLists ==
  ASSUME NEW S, NEW T, NEW s, NEW t, Lists(s, S), Lists(t, T), S \cap T = {}
  PROVE  Lists(s \o t, S \cup T)
  <1> DEFINE U == S \cup T
  <1>1. s \in Seq(U) /\ t \in Seq(U) /\ Len(s) \in Nat /\ Len(t) \in Nat
        /\ DOMAIN s = 1..Len(s) /\ DOMAIN t = 1..Len(t)
    BY DEF Lists
  <1> HIDE DEF U
  <1>2. s \o t \in Seq(U) /\ DOMAIN (s \o t) = 1..(Len(s) + Len(t))
    BY <1>1
  <1>3. \A i \in DOMAIN (s \o t) :
          (s \o t)[i] = IF i <= Len(s) THEN s[i] ELSE t[i - Len(s)]
    BY <1>1
  <1>4. \A i \in DOMAIN (s \o t) : i <= Len(s) => i \in DOMAIN s
    BY <1>1, <1>2
  <1>5. \A i \in DOMAIN (s \o t) : ~(i <= Len(s)) => i - Len(s) \in DOMAIN t
    BY <1>1, <1>2
  <1>6. ASSUME NEW n \in U PROVE \E i \in DOMAIN (s \o t) : (s \o t)[i] = n
    <2>1. CASE n \in S
      <3>1. PICK i \in DOMAIN s : s[i] = n
        BY <2>1 DEF Lists
      <3>2. i \in DOMAIN (s \o t) /\ i <= Len(s)
        BY <1>1, <1>2
      <3> QED BY <1>3, <3>1, <3>2
    <2>2. CASE n \in T
      <3>1. PICK i \in DOMAIN t : t[i] = n
        BY <2>2 DEF Lists
      <3>2. i + Len(s) \in DOMAIN (s \o t) /\ ~(i + Len(s) <= Len(s)) /\ (i + Len(s)) - Len(s) = i
        BY <1>1, <1>2
      <3> QED BY <1>3, <3>1, <3>2
    <2> QED BY <2>1, <2>2 DEF U
  <1>7. ASSUME NEW i \in DOMAIN (s \o t), NEW j \in DOMAIN (s \o t), (s \o t)[i] = (s \o t)[j]
        PROVE  i = j
    <2>0. \A k \in DOMAIN s : s[k] \in S
      BY DEF Lists
    <2>1. \A k \in DOMAIN t : t[k] \in T
      BY DEF Lists
    <2>2. CASE i <= Len(s) /\ j <= Len(s)
      <3>1. s[i] = s[j]
        BY <1>3, <1>7, <2>2
      <3> QED BY <1>4, <2>2, <3>1 DEF Lists
    <2>3. CASE ~(i <= Len(s)) /\ ~(j <= Len(s))
      <3>1. t[i - Len(s)] = t[j - Len(s)]
        BY <1>3, <1>7, <2>3
      <3>2. i - Len(s) = j - Len(s)
        BY <1>5, <2>3, <3>1 DEF Lists
      <3> QED BY <1>1, <1>2, <3>2
    <2>4. CASE i <= Len(s) /\ ~(j <= Len(s))
      <3>1. s[i] = t[j - Len(s)]
        BY <1>3, <1>7, <2>4
      <3> QED BY <1>4, <1>5, <2>0, <2>1, <2>4, <3>1
    <2>5. CASE ~(i <= Len(s)) /\ j <= Len(s)
      <3>1. t[i - Len(s)] = s[j]
        BY <1>3, <1>7, <2>5
      <3> QED BY <1>4, <1>5, <2>0, <2>1, <2>5, <3>1
    <2> QED BY <2>2, <2>3, <2>4, <2>5
  <1>8. Lists(s \o t, U)
    BY <1>2, <1>6, <1>7 DEF Lists
  <1> QED BY <1>8 DEF U

LEMMA PickLists ==
  ASSUME NEW S, NEW s, Lists(s, S), NEW L \in SUBSET DOMAIN s,
         NEW at, Lists(at, L)
  PROVE  Lists([k \in DOMAIN at |-> s[at[k]]], {s[i] : i \in L})
  <1> DEFINE P == {s[i] : i \in L}
             r == [k \in DOMAIN at |-> s[at[k]]]
  <1>1. at \in Seq(L) /\ Len(at) \in Nat /\ DOMAIN at = 1..Len(at)
        /\ \A k \in DOMAIN at : at[k] \in L
    BY DEF Lists
  <1>2. \A k \in DOMAIN at : s[at[k]] \in P
    BY <1>1
  <1>3. \A x \in P : \E i \in L : x = s[i]
    OBVIOUS
  <1> HIDE DEF P
  <1>4. r \in Seq(P) /\ DOMAIN r = DOMAIN at /\ \A k \in DOMAIN at : r[k] = s[at[k]]
    BY <1>1, <1>2
  <1> HIDE DEF r
  <1>5. ASSUME NEW x \in P PROVE \E k \in DOMAIN r : r[k] = x
    <2>1. PICK i \in L : x = s[i]
      BY <1>3
    <2>2. PICK k \in DOMAIN at : at[k] = i
      BY DEF Lists
    <2> QED BY <1>4, <2>1, <2>2
  <1>6. ASSUME NEW j \in DOMAIN r, NEW k \in DOMAIN r, r[j] = r[k] PROVE j = k
    <2>1. at[j] = at[k]
      BY <1>1, <1>4, <1>6 DEF Lists
    <2> QED BY <1>4, <2>1 DEF Lists
  <1>7. Lists(r, P)
    BY <1>4, <1>5, <1>6 DEF Lists
  <1> QED BY <1>7 DEF r, P

-----------------------------------------------------------------------------
(***************************************************************************)
(* What is executed: at most one operation per address, a cleanup apart,   *)
(* so that the order of the IDs is one of a graph's nodes.                 *)
(***************************************************************************)
USE PlannerAssumption, ExecutorAssumption, InputsAssumption

LEMMA OperationFields ==
  ASSUME NEW a, NEW kind, NEW obj, NEW after, NEW rc, NEW ds
  PROVE  LET op == Operation(a, kind, obj, after, rc)
             planned == [op EXCEPT !.dependents = ds]
         IN /\ op.addr = a /\ op.kind = kind /\ op.cbd = rc.cbd
            /\ planned.addr = a /\ planned.kind = kind /\ planned.cbd = rc.cbd
  BY DEF Operation

LEMMA DecidedAt ==
  ASSUME NEW inp, NEW a \in DOMAIN inp.cfg \cup DOMAIN inp.st
  PROVE  /\ \E kind, obj, after, rc : Decide(inp)[a] = Operation(a, kind, obj, after, rc)
         /\ Decide(inp)[a].kind \in
              {"create", "refused", "replace", "update", "noop", "forget", "destroy"}
         /\ Decide(inp)[a].kind \in {"update", "replace", "destroy"} =>
              a \in DOMAIN inp.st /\ ~Gone(inp, a)
         /\ Decide(inp)[a].kind = "forget" => a \in DOMAIN inp.st
         /\ Decide(inp)[a].kind = "create" => a \notin DOMAIN inp.st \/ Gone(inp, a)
  <1>1. PICK known : Decide(inp)[a] = OperationFor(inp, a, known)
    BY DEF Decide
  <1>2. \A want : /\ ConfiguredKind(inp, a, want) \in {"create", "refused", "replace", "update", "noop"}
                  /\ ConfiguredKind(inp, a, want) \in {"update", "replace"} =>
                       a \in DOMAIN inp.st /\ ~Gone(inp, a)
                  /\ ConfiguredKind(inp, a, want) = "create" => a \notin DOMAIN inp.st \/ Gone(inp, a)
    BY DEF ConfiguredKind
  <1>3. /\ RemovalKind(inp, a) \in {"forget", "refused", "destroy"}
        /\ RemovalKind(inp, a) = "destroy" => ~Gone(inp, a)
    BY DEF RemovalKind
  <1>4. CASE ReadFailed(inp, a)
    <2>1. Decide(inp)[a] = Operation(a, "refused", NoObj, NoAttrs, NoLifecycle)
      BY <1>1, <1>4 DEF OperationFor, Refused
    <2>2. Decide(inp)[a].kind = "refused"
      BY <2>1, OperationFields
    <2> QED BY <2>1, <2>2
  <1>5. CASE ~ReadFailed(inp, a) /\ a \notin DOMAIN inp.cfg
    <2>1. Decide(inp)[a] = Operation(a, RemovalKind(inp, a), inp.st[a].obj, NoAttrs, NoLifecycle)
      BY <1>1, <1>5 DEF OperationFor, RemovalOperation
    <2>2. Decide(inp)[a].kind = RemovalKind(inp, a)
      BY <2>1, OperationFields
    <2>3. a \in DOMAIN inp.st
      BY <1>5
    <2> QED BY <1>3, <2>1, <2>2, <2>3
  <1>6. CASE ~ReadFailed(inp, a) /\ a \in DOMAIN inp.cfg
    <2>1. PICK want, obj : Decide(inp)[a] = Operation(a, ConfiguredKind(inp, a, want), obj, want, inp.cfg[a])
      BY <1>1, <1>6 DEF OperationFor
    <2>2. Decide(inp)[a].kind = ConfiguredKind(inp, a, want)
      BY <2>1, OperationFields
    <2> QED BY <1>2, <2>1, <2>2
  <1> QED BY <1>4, <1>5, <1>6

Facts(inp, op) ==
  /\ op.addr \in Addr
  /\ op.kind \in {"create", "replace", "update", "noop", "forget", "destroy", "destroy_deposed"}
  /\ op.kind \in {"update", "replace", "destroy"} => op.addr \in DOMAIN inp.st /\ ~Gone(inp, op.addr)
  /\ op.kind = "forget" => op.addr \in DOMAIN inp.st
  /\ op.kind = "create" => op.addr \notin DOMAIN inp.st \/ Gone(inp, op.addr)
  /\ op.kind = "destroy_deposed" => op.addr \in DOMAIN inp.st /\ LeftBehind(inp.st[op.addr]) # {}

LEMMA PlannedFacts ==
  ASSUME NEW inp \in Inputs, NEW op \in Compute(inp)
  PROVE  Facts(inp, op)
  <1>1. CASE op \in DeposedOps(inp)
    <2>1. PICK a \in DOMAIN inp.st : \E o \in LeftBehind(inp.st[a]) :
            op = Operation(a, "destroy_deposed", o, NoAttrs, NoLifecycle)
      BY <1>1 DEF DeposedOps
    <2>2. op.addr = a /\ op.kind = "destroy_deposed" /\ LeftBehind(inp.st[a]) # {}
      BY <2>1 DEF Operation
    <2> QED BY <2>1, <2>2 DEF Facts
  <1>2. CASE op \notin DeposedOps(inp)
    <2>1. PICK a \in DOMAIN Decide(inp) :
            /\ Decide(inp)[a].kind # "refused"
            /\ op = [Decide(inp)[a] EXCEPT !.dependents = DependentsOf(inp, a, Decide(inp)[a].kind)]
      BY <1>2 DEF Compute
    <2>2. a \in DOMAIN inp.cfg \cup DOMAIN inp.st /\ a \in Addr
      BY <2>1 DEF Decide
    <2>3. op.addr = a /\ op.kind = Decide(inp)[a].kind
      <3>1. PICK kind, obj, after, rc : Decide(inp)[a] = Operation(a, kind, obj, after, rc)
        BY <2>2, DecidedAt
      <3> QED BY <2>1, <3>1, OperationFields
    <2> QED BY <2>1, <2>2, <2>3, DecidedAt DEF Facts
  <1> QED BY <1>1, <1>2

\* A node is a phase of an operation of the plan.
LEMMA NodeOfPlan ==
  ASSUME NEW inp \in Inputs, NEW n \in ExecNodes(Compute(inp))
  PROVE  \E op \in Compute(inp) :
           /\ n = OpNode(op, n.phase) /\ n.phase \in Phases(op) /\ Facts(inp, op)
           /\ n.addr = op.addr /\ n.kind = op.kind /\ n.phase \in {"destroy", "create"}
           /\ n.cbd = (op.kind = "replace" /\ op.cbd) /\ n.kind # "noop"
  <1>1. PICK op \in Compute(inp) : \E ph \in Phases(op) : n = OpNode(op, ph)
    BY DEF ExecNodes
  <1>2. Facts(inp, op)
    BY PlannedFacts
  <1>3. \A ph \in Phases(op) : ph \in {"destroy", "create"} /\ op.kind # "noop"
    BY <1>2 DEF Facts, Phases
  <1> QED BY <1>1, <1>2, <1>3 DEF OpNode

\* What the prefix of a node's ID tells.
LEMMA PrefixTells ==
  ASSUME NEW n, n.phase \in {"destroy", "create"}
  PROVE  /\ IDPrefix(n) \in Nat
         /\ n.kind = "destroy_deposed" => IDPrefix(n) = 2
         /\ n.kind # "destroy_deposed" => IDPrefix(n) # 2
         /\ n.kind = "replace" /\ n.phase = "destroy" => IDPrefix(n) = 3
         /\ n.kind = "replace" /\ n.phase # "destroy" => IDPrefix(n) = 1
  BY DEF IDPrefix

LEMMA NodesDistinct ==
  ASSUME NEW inp \in Inputs, OneOperationPerAddress(Compute(inp)),
         NEW m \in ExecNodes(Compute(inp)), NEW n \in ExecNodes(Compute(inp)), m.addr = n.addr
  PROVE  IDPrefix(m) = IDPrefix(n) => m = n
  <1>1. PICK p \in Compute(inp) :
          /\ m = OpNode(p, m.phase) /\ m.phase \in Phases(p) /\ Facts(inp, p)
          /\ m.addr = p.addr /\ m.kind = p.kind /\ m.phase \in {"destroy", "create"} /\ m.kind # "noop"
    BY NodeOfPlan
  <1>2. PICK q \in Compute(inp) :
          /\ n = OpNode(q, n.phase) /\ n.phase \in Phases(q) /\ Facts(inp, q)
          /\ n.addr = q.addr /\ n.kind = q.kind /\ n.phase \in {"destroy", "create"} /\ n.kind # "noop"
    BY NodeOfPlan
  <1>3. SUFFICES ASSUME IDPrefix(m) = IDPrefix(n) PROVE m = n
    OBVIOUS
  <1>4. m.kind = "destroy_deposed" <=> n.kind = "destroy_deposed"
    <2>1. CASE m.kind = "destroy_deposed" /\ n.kind # "destroy_deposed"
      BY <1>1, <1>2, <1>3, <2>1, PrefixTells
    <2>2. CASE m.kind # "destroy_deposed" /\ n.kind = "destroy_deposed"
      BY <1>1, <1>2, <1>3, <2>2, PrefixTells
    <2> QED BY <2>1, <2>2
  <1>5. p = q
    BY <1>1, <1>2, <1>4 DEF OneOperationPerAddress
  <1>6. m.phase = n.phase
    <2>1. CASE m.kind \in {"update", "forget", "destroy_deposed", "create", "destroy"}
      BY <1>1, <1>2, <1>5, <2>1 DEF Phases
    <2>2. CASE m.kind = "replace"
      <3>1. n.kind = "replace"
        BY <1>1, <1>2, <1>5, <2>2
      <3>2. CASE m.phase = "destroy" /\ n.phase # "destroy"
        <4>1. IDPrefix(m) = 3 /\ IDPrefix(n) = 1
          BY <1>1, <1>2, <2>2, <3>1, <3>2, PrefixTells
        <4>2. 3 # 1
          OBVIOUS
        <4> QED BY <1>3, <4>1, <4>2, Zenon
      <3>3. CASE m.phase # "destroy" /\ n.phase = "destroy"
        <4>1. IDPrefix(m) = 1 /\ IDPrefix(n) = 3
          BY <1>1, <1>2, <2>2, <3>1, <3>3, PrefixTells
        <4>2. 3 # 1
          OBVIOUS
        <4> QED BY <1>3, <4>1, <4>2, Zenon
      <3> QED BY <1>1, <1>2, <3>2, <3>3
    <2> QED BY <1>1, <2>1, <2>2 DEF Facts
  <1> QED BY <1>1, <1>2, <1>5, <1>6

LEMMA InOrderLists ==
  ASSUME NEW inp \in Inputs, OneOperationPerAddress(Compute(inp)),
         NEW S \in SUBSET ExecNodes(Compute(inp))
  PROVE  Lists(InOrder(S), S)
  <1> DEFINE R == {p \in S \X S : IDBefore(p[1], p[2])}
  <1>1. \A m, n \in S : <<m, n>> \in R <=> IDBefore(m, n)
    OBVIOUS
  <1>2. \A n \in S : IDPrefix(n) \in Nat /\ n.addr \in Nat
    <2> SUFFICES ASSUME NEW n \in S PROVE IDPrefix(n) \in Nat /\ n.addr \in Nat
      OBVIOUS
    <2>1. n.addr \in Nat /\ n.phase \in {"destroy", "create"}
      BY NodeOfPlan DEF Facts
    <2> QED BY <2>1, PrefixTells
  <1>3. \A m, n \in S : IDPrefix(m) = IDPrefix(n) /\ m.addr = n.addr => m = n
    BY NodesDistinct
  <1> HIDE DEF R
  <1>4. Orders(R, S)
    <2>1. \A m \in S : <<m, m>> \notin R
      BY <1>1, <1>2 DEF IDBefore
    <2>2. \A m, n \in S : m # n => <<m, n>> \in R \/ <<n, m>> \in R
      BY <1>1, <1>2, <1>3 DEF IDBefore
    <2>3. ASSUME NEW l \in S, NEW m \in S, NEW n \in S, <<l, m>> \in R, <<m, n>> \in R
          PROVE  <<l, n>> \in R
      <3>1. IDBefore(l, m) /\ IDBefore(m, n)
        BY <1>1, <2>3
      <3>2. IDBefore(l, n)
        BY <1>2, <3>1 DEF IDBefore
      <3> QED BY <1>1, <3>2
    <2> QED BY <2>1, <2>2, <2>3 DEF Orders
  <1>5. IsFiniteSet(S)
    <2>1. S \in SUBSET Nodes
      OBVIOUS
    <2> QED BY <2>1, NodesAssumption, FS_Subset
  <1>6. Lists(Ranked(S, R), S)
    BY <1>4, <1>5, RankedLists
  <1> QED BY <1>6 DEF InOrder, R

-----------------------------------------------------------------------------
(***************************************************************************)
(* The inductive invariant of the loop: the walk's own, and what the owner *)
(* and the walk agree about.  A node the walk has handed out is either     *)
(* queued, once, or running; nothing else is ready.                        *)
(***************************************************************************)
Dispatched == {n \in nodes : status[n] = "dispatched"}

ExecTypeOK ==
  /\ input \in Inputs /\ plan = Compute(input) /\ OneOperationPerAddress(plan)
  /\ nodes = ExecNodes(plan) /\ edges = ExecEdges(plan)
  /\ InFlight \subseteq nodes
  /\ \A n \in InFlight : worker[n].at \in {"called", "ok", "error", "no_state"}
  /\ owner \in {"top", "pass", "receive", "ended", "dead"}
  /\ cancelled \in BOOLEAN /\ stopping \in BOOLEAN /\ persistFailed \in BOOLEAN

HandedOut ==
  owner # "dead" => InFlight \subseteq Dispatched /\ Lists(queue, Dispatched \ InFlight)

NoneReady == ReadyNodes = {}

LoopInv == WalkInv /\ ExecTypeOK /\ HandedOut /\ NoneReady

LEMMA LoopInit == ExecInit => LoopInv
  <1> SUFFICES ASSUME ExecInit PROVE LoopInv
    OBVIOUS
  <1>1. /\ input \in Inputs /\ plan = Compute(input) /\ OneOperationPerAddress(plan)
        /\ nodes = ExecNodes(plan) /\ edges = ExecEdges(plan) /\ nodes \subseteq Nodes
        /\ worker = <<>> /\ owner = "top"
    BY DEF ExecInit
  <1>2. /\ status = [n \in nodes |-> IF Preds(n) = {} THEN "dispatched" ELSE "unstarted"]
        /\ remaining = [n \in nodes |-> Cardinality(Preds(n))]
        /\ left = Cardinality(nodes) /\ ~HasCycle(nodes, edges)
    BY DEF ExecInit
  <1>3. InFlight = {}
    BY <1>1 DEF InFlight
  <1>4. \A n \in nodes : Preds(n) \in SUBSET nodes
    BY DEF Preds
  <1>5. edges \subseteq nodes \X nodes
    <2>1. edges = ExecEdges(plan) /\ nodes = ExecNodes(plan)
      BY <1>1
    <2>2. \A a, ph : Has(plan, a, ph) \subseteq nodes
      BY <2>1 DEF Has
    <2>3. PhaseEdges(plan) \subseteq nodes \X nodes
      BY <2>2 DEF PhaseEdges
    <2>4. \A t, d, c : AddEdges(plan, t, d, c) \subseteq nodes \X nodes
      BY <2>2 DEF AddEdges
    <2> QED BY <2>1, <2>3, <2>4 DEF ExecEdges
  <1>6. WalkTypeOK
    <2>1. \A n \in nodes : Cardinality(Preds(n)) \in Nat
      BY <1>1, <1>4, NodesFinite
    <2>2. Cardinality(nodes) \in Nat
      BY <1>1, NodesFinite
    <2> QED BY <1>1, <1>2, <1>5, <2>1, <2>2 DEF WalkTypeOK, WalkStatus
  <1>7. Unresolved = nodes
    BY <1>2 DEF Unresolved
  <1>8. \A n \in nodes : {m \in Preds(n) : status[m] # "done"} = Preds(n)
    BY <1>2 DEF Preds
  <1>9. WalkInv
    <2>1. Acyclic
      BY <1>2 DEF Acyclic
    <2>2. DispatchedAfterPreds /\ SkippedDownstream
      BY <1>2 DEF DispatchedAfterPreds, SkippedDownstream
    <2>3. LeftCountsUnresolved
      BY <1>2, <1>7 DEF LeftCountsUnresolved
    <2>4. RemainingCountsPreds
      BY <1>2, <1>8 DEF RemainingCountsPreds
    <2> QED BY <1>6, <2>1, <2>2, <2>3, <2>4 DEF WalkInv
  <1>10. NoneReady
    <2> SUFFICES ASSUME NEW n \in nodes, remaining[n] = 0, status[n] = "unstarted" PROVE FALSE
      BY DEF NoneReady, ReadyNodes
    <2>1. Preds(n) # {} /\ Cardinality(Preds(n)) = 0
      BY <1>2
    <2>2. IsFiniteSet(Preds(n))
      BY <1>1, <1>4, NodesFinite
    <2> QED BY <2>1, <2>2, FS_EmptySet
  <1>11. HandedOut
    <2> DEFINE First == {n \in nodes : Preds(n) = {}}
    <2>1. Dispatched = First
      BY <1>2 DEF Dispatched
    <2>2. queue = InOrder(First)
      BY DEF ExecInit
    <2>3. First \in SUBSET ExecNodes(Compute(input))
      BY <1>1
    <2> HIDE DEF First
    <2>4. Lists(InOrder(First), First)
      BY <1>1, <2>3, InOrderLists
    <2> QED BY <1>3, <2>1, <2>2, <2>4 DEF HandedOut
  <1>12. ExecTypeOK
    BY <1>1, <1>3 DEF ExecTypeOK, ExecInit
  <1> QED BY <1>9, <1>10, <1>11, <1>12 DEF LoopInv

-----------------------------------------------------------------------------
(***************************************************************************)
(* The steps.  A pass moves what it launches from the queue to what runs   *)
(* (apply.go:62-91); a result takes one node from what runs, and a success *)
(* queues what became ready (apply.go:280-310).                            *)
(***************************************************************************)
LEMMA Launched ==
  ASSUME LoopInv, owner # "dead", NEW L \in SUBSET DOMAIN queue, Launch(L)
  PROVE  /\ InFlight' = InFlight \cup {queue[i] : i \in L}
         /\ \A n \in InFlight' : worker'[n] = IF n \in InFlight THEN worker[n] ELSE Called
         /\ {queue[i] : i \in L} \subseteq Dispatched \ InFlight
         /\ Lists(queue', (Dispatched \ InFlight) \ {queue[i] : i \in L})
  <1> DEFINE Q == Dispatched \ InFlight
             P == {queue[i] : i \in L}
             kept == Deferred(L)
             at == Ranked(kept, {p \in kept \X kept : p[1] < p[2]})
  <1>1. Lists(queue, Q)
    BY DEF LoopInv, HandedOut
  <1>2. /\ queue \in Seq(Q) /\ \A n \in Q : \E i \in DOMAIN queue : queue[i] = n
        /\ \A i, j \in DOMAIN queue : queue[i] = queue[j] => i = j
        /\ \A i \in DOMAIN queue : queue[i] \in Q
        /\ Len(queue) \in Nat /\ DOMAIN queue = 1..Len(queue)
    BY <1>1 DEF Lists
  <1>3. worker' = [n \in InFlight \cup P |-> IF n \in InFlight THEN worker[n] ELSE Called]
    BY DEF Launch
  <1>4. P \subseteq Q
    BY <1>2
  <1>5. kept \in SUBSET (1..Len(queue))
    BY <1>2 DEF Deferred
  <1>6. Lists(at, kept)
    BY <1>2, <1>5, PositionsListed
  <1>7. queue' = [k \in DOMAIN at |-> queue[at[k]]]
    BY DEF Launch, Rest
  <1>8. kept \in SUBSET DOMAIN queue
    BY DEF Deferred
  <1> HIDE DEF Q, at
  <1>9. Lists(queue', {queue[i] : i \in kept})
    BY <1>1, <1>6, <1>7, <1>8, PickLists
  <1>10. {queue[i] : i \in kept} = Q \ P
    <2>1. \A i \in kept : queue[i] \in Q /\ queue[i] \notin P
      BY <1>2, <1>8 DEF Deferred
    <2>2. \A n \in Q \ P : \E i \in kept : n = queue[i]
      BY <1>2 DEF Deferred
    <2> QED BY <2>1, <2>2
  <1>11. InFlight' = InFlight \cup P
    BY <1>3 DEF InFlight
  <1>12. \A n \in InFlight' : worker'[n] = IF n \in InFlight THEN worker[n] ELSE Called
    BY <1>3, <1>11
  <1> QED BY <1>4, <1>9, <1>10, <1>11, <1>12 DEF Q

LEMMA LoopTop == LoopInv /\ Top => LoopInv'
  <1> SUFFICES ASSUME LoopInv, Top PROVE LoopInv'
    OBVIOUS
  <1>1. UNCHANGED walkVars /\ UNCHANGED <<nodes, edges, remaining, status, left>>
        /\ UNCHANGED <<input, plan, queue, worker, cancelled, persistFailed>>
    BY DEF Top, runVars, walkVars
  <1>2. owner = "top" /\ owner' \in {"ended", "pass"} /\ stopping' \in BOOLEAN
    BY <1>1 DEF Top, LoopInv, ExecTypeOK
  <1>3. InFlight' = InFlight /\ Dispatched' = Dispatched /\ ReadyNodes' = ReadyNodes
    BY <1>1 DEF InFlight, Dispatched, ReadyNodes
  <1>4. WalkInv'
    BY <1>1, WalkInvStutter DEF LoopInv
  <1>5. ExecTypeOK'
    BY <1>1, <1>2, <1>3 DEF LoopInv, ExecTypeOK
  <1>6. HandedOut' /\ NoneReady'
    BY <1>1, <1>2, <1>3 DEF LoopInv, HandedOut, NoneReady
  <1> QED BY <1>4, <1>5, <1>6 DEF LoopInv

LEMMA LoopSchedule == LoopInv /\ Schedule => LoopInv'
  <1> SUFFICES ASSUME LoopInv, Schedule PROVE LoopInv'
    OBVIOUS
  <1>1. UNCHANGED walkVars /\ UNCHANGED <<nodes, edges, remaining, status, left>>
        /\ UNCHANGED <<input, plan, cancelled, stopping, persistFailed>>
    BY DEF Schedule, runVars, walkVars, stopVars
  <1>2. owner = "pass" /\ owner' \in {"ended", "receive"}
    BY DEF Schedule
  <1>3. PICK L \in SUBSET DOMAIN queue : Launch(L)
    BY DEF Schedule
  <1> DEFINE P == {queue[i] : i \in L}
  <1>4. /\ InFlight' = InFlight \cup P
        /\ \A n \in InFlight' : worker'[n] = IF n \in InFlight THEN worker[n] ELSE Called
        /\ P \subseteq Dispatched \ InFlight
        /\ Lists(queue', (Dispatched \ InFlight) \ P)
    BY <1>2, <1>3, Launched
  <1> HIDE DEF P
  <1>5. Dispatched' = Dispatched /\ ReadyNodes' = ReadyNodes /\ Dispatched \subseteq nodes
    BY <1>1 DEF Dispatched, ReadyNodes
  <1>6. WalkInv'
    BY <1>1, WalkInvStutter DEF LoopInv
  <1>7. ExecTypeOK'
    <2>1. InFlight' \subseteq nodes'
      BY <1>1, <1>4, <1>5 DEF LoopInv, ExecTypeOK
    <2>2. Called.at = "called"
      BY DEF Called
    <2>3. \A n \in InFlight' : worker'[n].at \in {"called", "ok", "error", "no_state"}
      BY <1>4, <2>2 DEF LoopInv, ExecTypeOK
    <2> QED BY <1>1, <1>2, <2>1, <2>3 DEF LoopInv, ExecTypeOK
  <1>8. HandedOut'
    <2>1. InFlight \subseteq Dispatched
      BY <1>2 DEF LoopInv, HandedOut
    <2>2. Dispatched' \ InFlight' = (Dispatched \ InFlight) \ P
      BY <1>4, <1>5
    <2> QED BY <1>4, <1>5, <2>1, <2>2 DEF HandedOut
  <1>9. NoneReady'
    BY <1>5 DEF LoopInv, NoneReady
  <1> QED BY <1>6, <1>7, <1>8, <1>9 DEF LoopInv

\* A worker moves on: it stays one of those running.
LEMMA Worked ==
  ASSUME NEW n \in InFlight, Execute(n)
  PROVE  /\ InFlight' = InFlight
         /\ worker'[n].at \in {"ok", "error", "no_state"} /\ worker[n].at = "called"
         /\ \A m \in InFlight : m # n => worker'[m] = worker[m]
  <1>0. PICK outcome \in {"ok", "error", "no_state"} : \E record : Returns(n, outcome, record)
    BY DEF Execute, CallCreate, CallUpdate, CallDelete
  <1>1. PICK record : Returns(n, outcome, record)
    BY <1>0
  <1>2. worker' = [worker EXCEPT ![n] = [at |-> outcome, record |-> record]]
    BY <1>1 DEF Returns
  <1>3. worker'[n] = [at |-> outcome, record |-> record] /\ DOMAIN worker' = DOMAIN worker
    BY <1>2 DEF InFlight
  <1>4. worker'[n].at = outcome
    BY <1>3
  <1>5. \A m \in InFlight : m # n => worker'[m] = worker[m]
    BY <1>2 DEF InFlight
  <1>6. worker[n].at = "called"
    BY DEF Execute
  <1> QED BY <1>3, <1>4, <1>5, <1>6 DEF InFlight

LEMMA LoopExecute ==
  ASSUME LoopInv, NEW n \in InFlight, Execute(n)
  PROVE  LoopInv'
  <1>1. UNCHANGED walkVars /\ UNCHANGED <<nodes, edges, remaining, status, left>>
        /\ UNCHANGED <<input, plan, queue, owner, cancelled, stopping, persistFailed>>
    BY DEF Execute, runVars, walkVars, stopVars
  <1>2. /\ InFlight' = InFlight
        /\ \A m \in InFlight : worker'[m].at \in {"called", "ok", "error", "no_state"}
    BY Worked DEF LoopInv, ExecTypeOK
  <1>3. Dispatched' = Dispatched /\ ReadyNodes' = ReadyNodes
    BY <1>1 DEF Dispatched, ReadyNodes
  <1>4. WalkInv'
    BY <1>1, WalkInvStutter DEF LoopInv
  <1>5. ExecTypeOK'
    BY <1>1, <1>2 DEF LoopInv, ExecTypeOK
  <1>6. HandedOut' /\ NoneReady'
    BY <1>1, <1>2, <1>3 DEF LoopInv, HandedOut, NoneReady
  <1> QED BY <1>4, <1>5, <1>6 DEF LoopInv

LEMMA LoopCancel == LoopInv /\ Cancel => LoopInv'
  <1> SUFFICES ASSUME LoopInv, Cancel PROVE LoopInv'
    OBVIOUS
  <1>1. UNCHANGED walkVars /\ UNCHANGED <<nodes, edges, remaining, status, left>>
        /\ UNCHANGED <<input, plan, queue, worker, owner, stopping, persistFailed>>
        /\ cancelled' = TRUE
    BY DEF Cancel, runVars, walkVars
  <1>2. InFlight' = InFlight /\ Dispatched' = Dispatched /\ ReadyNodes' = ReadyNodes
    BY <1>1 DEF InFlight, Dispatched, ReadyNodes
  <1>3. WalkInv'
    BY <1>1, WalkInvStutter DEF LoopInv
  <1>4. ExecTypeOK'
    BY <1>1, <1>2 DEF LoopInv, ExecTypeOK
  <1>5. HandedOut' /\ NoneReady'
    BY <1>1, <1>2 DEF LoopInv, HandedOut, NoneReady
  <1> QED BY <1>3, <1>4, <1>5 DEF LoopInv

LEMMA LoopCrash == LoopInv /\ Crash => LoopInv'
  <1> SUFFICES ASSUME LoopInv, Crash PROVE LoopInv'
    OBVIOUS
  <1>1. UNCHANGED walkVars /\ UNCHANGED <<nodes, edges, remaining, status, left>>
        /\ UNCHANGED <<input, plan, cancelled, stopping, persistFailed>>
        /\ owner' = "dead" /\ worker' = <<>>
    BY DEF Crash, runVars, walkVars, stopVars
  <1>2. InFlight' = {} /\ ReadyNodes' = ReadyNodes
    BY <1>1 DEF InFlight, ReadyNodes
  <1>3. WalkInv'
    BY <1>1, WalkInvStutter DEF LoopInv
  <1>4. ExecTypeOK'
    BY <1>1, <1>2 DEF LoopInv, ExecTypeOK
  <1>5. HandedOut' /\ NoneReady'
    BY <1>1, <1>2 DEF LoopInv, HandedOut, NoneReady
  <1> QED BY <1>3, <1>4, <1>5 DEF LoopInv

LEMMA Received ==
  ASSUME NEW n \in InFlight, Receive(n)
  PROVE  /\ owner = "receive" /\ owner' = "top" /\ worker[n].at # "called"
         /\ InFlight' = InFlight \ {n} /\ \A m \in InFlight' : worker'[m] = worker[m]
         /\ UNCHANGED <<input, plan, cloud, made, cancelled, stopping>>
         /\ \/ /\ worker[n].at \in {"error", "no_state"}
               /\ RecordFailure(n) /\ UNCHANGED <<mem, disk>>
               /\ persistFailed' = persistFailed \/ persistFailed' = TRUE
               /\ worker[n].at = "no_state" => persistFailed' = TRUE
            \/ /\ worker[n].at = "ok"
               /\ RecordSuccess(n) /\ mem' = Recorded(n, worker[n])
               /\ \/ disk' = mem' /\ persistFailed' = persistFailed
                  \/ UNCHANGED disk /\ persistFailed' = TRUE
  <1>1. worker' = Without(worker, n)
    BY DEF Receive
  <1>2. InFlight' = InFlight \ {n} /\ \A m \in InFlight' : worker'[m] = worker[m]
    BY <1>1 DEF Without, InFlight
  <1>3. UNCHANGED <<input, plan, cloud, made, cancelled, stopping>>
    BY DEF Receive, runVars, cloudVars
  <1> QED BY <1>2, <1>3 DEF Receive, stateVars

LEMMA LoopReceive ==
  ASSUME LoopInv, NEW n \in InFlight, Receive(n)
  PROVE  LoopInv'
  <1>1. /\ owner = "receive" /\ owner' = "top" /\ InFlight' = InFlight \ {n}
        /\ \A m \in InFlight' : worker'[m] = worker[m]
        /\ UNCHANGED <<input, plan, cloud, made, cancelled, stopping>>
        /\ persistFailed' \in BOOLEAN /\ (RecordFailure(n) \/ RecordSuccess(n))
    BY Received DEF LoopInv, ExecTypeOK
  <1>2. n \in nodes /\ InFlight \subseteq Dispatched /\ Lists(queue, Dispatched \ InFlight)
    BY <1>1 DEF LoopInv, ExecTypeOK, HandedOut
  <1>3. nodes' = nodes /\ edges' = edges => ExecTypeOK'
    BY <1>1 DEF LoopInv, ExecTypeOK
  <1>4. CASE RecordFailure(n)
    <2>1. /\ Skip(n) /\ queue' = queue /\ UNCHANGED <<nodes, edges, remaining>>
          /\ status' = [m \in nodes |-> IF m \in Visited(n) THEN "skipped" ELSE status[m]]
          /\ status[n] = "dispatched"
      BY <1>4 DEF RecordFailure, Skip
    <2>2. WalkInv'
      BY <1>2, <2>1, WalkInvSkip DEF LoopInv
    <2>3. \A m \in Visited(n) : m # n => status[m] \in {"unstarted", "skipped"}
      BY <1>2, <2>1, VisitedUnstarted DEF LoopInv
    <2>4. n \in Visited(n) /\ Visited(n) \subseteq nodes
      BY <1>2, VisitedLeast DEF LoopInv, WalkInv, WalkTypeOK, ClosedFrom
    <2>5. Dispatched' = Dispatched \ {n}
      BY <2>1, <2>3, <2>4 DEF Dispatched
    <2>6. Dispatched' \ InFlight' = Dispatched \ InFlight
      BY <1>1, <2>5
    <2>7. HandedOut'
      BY <1>1, <1>2, <2>1, <2>5, <2>6 DEF HandedOut
    <2>8. NoneReady'
      BY <2>1 DEF LoopInv, NoneReady, ReadyNodes
    <2> QED BY <1>3, <2>1, <2>2, <2>7, <2>8 DEF LoopInv
  <1>5. CASE RecordSuccess(n)
    <2>1. /\ Done(n) /\ queue' = queue \o InOrder(NewlyReady(n)) /\ UNCHANGED <<nodes, edges>>
          /\ status[n] = "dispatched"
          /\ status' = [m \in nodes |-> IF m = n THEN "done"
                                        ELSE IF m \in NewlyReady(n) THEN "dispatched"
                                        ELSE status[m]]
          /\ remaining' = [m \in nodes |-> IF m \in DecrementedBy(n)
                                           THEN remaining[m] - 1 ELSE remaining[m]]
      BY <1>5 DEF RecordSuccess, Done
    <2>2. WalkInv'
      BY <1>2, <2>1, WalkInvDone DEF LoopInv
    <2>3. NewlyReady(n) \in SUBSET nodes /\ \A m \in NewlyReady(n) : status[m] = "unstarted"
      BY DEF NewlyReady, DecrementedBy, Succs
    <2>4. Dispatched' = (Dispatched \ {n}) \cup NewlyReady(n)
      BY <2>1, <2>3 DEF Dispatched
    <2>5. Lists(InOrder(NewlyReady(n)), NewlyReady(n))
      BY <2>3, InOrderLists DEF LoopInv, ExecTypeOK
    <2>6. (Dispatched \ InFlight) \cap NewlyReady(n) = {}
      BY <2>3 DEF Dispatched
    <2>7. Lists(queue', (Dispatched \ InFlight) \cup NewlyReady(n))
      BY <1>2, <2>1, <2>5, <2>6, ConcatLists
    <2>8. Dispatched' \ InFlight' = (Dispatched \ InFlight) \cup NewlyReady(n)
          /\ InFlight' \subseteq Dispatched'
      <3>1. InFlight \cap NewlyReady(n) = {}
        BY <1>2, <2>3 DEF Dispatched
      <3> QED BY <1>1, <1>2, <2>4, <3>1
    <2>9. HandedOut'
      BY <2>7, <2>8 DEF HandedOut
    <2>10. NoneReady'
      <3> SUFFICES ASSUME NEW m \in nodes, remaining'[m] = 0, status'[m] = "unstarted"
                   PROVE  FALSE
        BY <2>1 DEF NoneReady, ReadyNodes
      <3>1. status[m] = "unstarted" /\ m \notin NewlyReady(n)
        BY <2>1
      <3>2. CASE m \in DecrementedBy(n)
        <4>1. remaining[m] - 1 = 0 /\ remaining[m] \in Nat
          BY <2>1, <3>2 DEF LoopInv, WalkInv, WalkTypeOK
        <4>2. remaining[m] = 1
          BY <4>1
        <4> QED BY <3>1, <3>2, <4>2 DEF NewlyReady
      <3>3. CASE m \notin DecrementedBy(n)
        BY <2>1, <3>1, <3>3 DEF LoopInv, NoneReady, ReadyNodes
      <3> QED BY <3>2, <3>3
    <2> QED BY <1>3, <2>1, <2>2, <2>9, <2>10 DEF LoopInv
  <1> QED BY <1>1, <1>4, <1>5

LEMMA LoopStutter == LoopInv /\ UNCHANGED execVars => LoopInv'
  <1> SUFFICES ASSUME LoopInv, UNCHANGED execVars PROVE LoopInv'
    OBVIOUS
  <1>1. UNCHANGED walkVars /\ UNCHANGED <<nodes, edges, remaining, status, left>>
        /\ UNCHANGED <<input, plan, queue, worker, owner, cancelled, stopping, persistFailed>>
    BY DEF execVars, runVars, walkVars, stopVars
  <1>2. InFlight' = InFlight /\ Dispatched' = Dispatched /\ ReadyNodes' = ReadyNodes
    BY <1>1 DEF InFlight, Dispatched, ReadyNodes
  <1>3. WalkInv'
    BY <1>1, WalkInvStutter DEF LoopInv
  <1>4. ExecTypeOK'
    BY <1>1, <1>2 DEF LoopInv, ExecTypeOK
  <1>5. HandedOut' /\ NoneReady'
    BY <1>1, <1>2 DEF LoopInv, HandedOut, NoneReady
  <1> QED BY <1>3, <1>4, <1>5 DEF LoopInv

LEMMA LoopNext == LoopInv /\ [ExecNext]_execVars => LoopInv'
  <1> SUFFICES ASSUME LoopInv, [ExecNext]_execVars PROVE LoopInv'
    OBVIOUS
  <1>1. ASSUME NEW n \in InFlight, Execute(n) \/ Receive(n) PROVE LoopInv'
    BY <1>1, LoopExecute, LoopReceive
  <1> QED BY <1>1, LoopTop, LoopSchedule, LoopCancel, LoopCrash, LoopStutter DEF ExecNext, InFlight

(***************************************************************************)
(* In every run the walk's invariant holds, every node handed out is in    *)
(* the queue or running, never both, and nothing else is ready             *)
(* (apply.go:62-91, 299-310).                                              *)
(***************************************************************************)
THEOREM LoopInvariant == ExecSpec => []LoopInv
  BY LoopInit, LoopNext, PTL DEF ExecSpec

(***************************************************************************)
(* The executor drives the walk: it resolves a node it was handed, once,   *)
(* and does nothing else to it (apply.go:299-310) - so that what the walk  *)
(* promises, the abstract schedule, is what the run does.                  *)
(***************************************************************************)
DrivesTheWalk == [][\E n \in nodes : Done(n) \/ Skip(n)]_walkVars

FollowsTheSchedule == [][Abstract!ScheduleNext]_(Abstract!scheduleVars)

LEMMA WalkStep ==
  LoopInv /\ [ExecNext]_execVars => [\E n \in nodes : Done(n) \/ Skip(n)]_walkVars
  <1> SUFFICES ASSUME LoopInv, ExecNext
               PROVE  (\E n \in nodes : Done(n) \/ Skip(n)) \/ UNCHANGED walkVars
    BY DEF execVars
  <1>1. CASE Top \/ Schedule \/ Cancel \/ Crash
    BY <1>1 DEF Top, Schedule, Cancel, Crash
  <1>2. ASSUME NEW n \in InFlight, Execute(n) PROVE UNCHANGED walkVars
    BY <1>2 DEF Execute
  <1>3. ASSUME NEW n \in InFlight, Receive(n) PROVE n \in nodes /\ (Done(n) \/ Skip(n))
    BY <1>3, Received DEF RecordFailure, RecordSuccess, LoopInv, ExecTypeOK
  <1> QED BY <1>1, <1>2, <1>3 DEF ExecNext, InFlight

THEOREM ExecutorDrivesTheWalk == ExecSpec => DrivesTheWalk /\ FollowsTheSchedule
  <1>1. LoopInv /\ [ExecNext]_execVars => [Abstract!ScheduleNext]_(Abstract!scheduleVars)
    <2> SUFFICES ASSUME LoopInv, [ExecNext]_execVars
                 PROVE  [Abstract!ScheduleNext]_(Abstract!scheduleVars)
      OBVIOUS
    <2>1. [WalkNext]_walkVars
      BY WalkStep DEF WalkNext
    <2> QED BY <2>1, WalkStepSchedules DEF LoopInv
  <1> QED BY <1>1, WalkStep, LoopInvariant, PTL
      DEF ExecSpec, DrivesTheWalk, FollowsTheSchedule

-----------------------------------------------------------------------------
(***************************************************************************)
(* Stopping.  The reasons to stop are for good, a pass looks at them       *)
(* before it launches, and only a result, which ends the pass, adds one.   *)
(***************************************************************************)
StopInv ==
  /\ stopping => cancelled \/ persistFailed
  /\ owner = "pass" /\ persistFailed => stopping

LEMMA StopInit == ExecInit => StopInv
  BY DEF ExecInit, StopInv

LEMMA StopNext == LoopInv /\ StopInv /\ [ExecNext]_execVars => StopInv'
  <1> SUFFICES ASSUME LoopInv, StopInv, [ExecNext]_execVars PROVE StopInv'
    OBVIOUS
  <1>1. CASE Top
    BY <1>1 DEF Top, StopInv
  <1>2. CASE Schedule
    BY <1>2 DEF Schedule, StopInv, stopVars
  <1>3. ASSUME NEW n \in InFlight, Execute(n) PROVE StopInv'
    BY <1>3 DEF Execute, StopInv, stopVars
  <1>4. ASSUME NEW n \in InFlight, Receive(n) PROVE StopInv'
    <2>1. UNCHANGED <<cancelled, stopping>> /\ owner' = "top"
          /\ (persistFailed' = persistFailed \/ persistFailed' = TRUE)
      BY <1>4, Received
    <2> QED BY <2>1 DEF StopInv
  <1>5. CASE Cancel
    BY <1>5 DEF Cancel, StopInv
  <1>6. CASE Crash
    BY <1>6 DEF Crash, StopInv, stopVars
  <1>7. CASE UNCHANGED execVars
    BY <1>7 DEF execVars, StopInv, stopVars
  <1> QED BY <1>1, <1>2, <1>3, <1>4, <1>5, <1>6, <1>7 DEF ExecNext, InFlight

(***************************************************************************)
(* Once a pass has seen the interrupt, or a success could not be recorded, *)
(* nothing is launched any more (apply.go:62-91, 255-261).                 *)
(***************************************************************************)
THEOREM StoppingIsForGood == ExecSpec => NoLaunchOnceStopped
  <1> DEFINE Keeps == /\ stopping \/ persistFailed => InFlight' \subseteq InFlight
                      /\ stopping => stopping'
  <1>1. LoopInv /\ StopInv /\ [ExecNext]_execVars => [Keeps]_execVars
    <2> SUFFICES ASSUME LoopInv, StopInv, ExecNext PROVE Keeps
      OBVIOUS
    <2>1. CASE Top
      <3>1. InFlight' = InFlight
        BY <2>1 DEF Top, InFlight
      <3>2. stopping => stopping'
        BY <2>1 DEF Top, StopInv
      <3> QED BY <3>1, <3>2
    <2>2. CASE Schedule
      <3>1. stopping' = stopping /\ owner = "pass"
        BY <2>2 DEF Schedule, stopVars
      <3>2. PICK L \in SUBSET DOMAIN queue : Launches(L) /\ Launch(L)
        BY <2>2 DEF Schedule
      <3>3. InFlight' = InFlight \cup {queue[i] : i \in L}
        BY <3>1, <3>2, Launched
      <3>4. stopping => L = {}
        BY <3>2 DEF Launches
      <3> QED BY <3>1, <3>3, <3>4 DEF StopInv
    <2>3. ASSUME NEW n \in InFlight, Execute(n) PROVE Keeps
      <3>1. InFlight' = InFlight
        BY <2>3, Worked
      <3> QED BY <2>3, <3>1 DEF Execute, stopVars
    <2>4. ASSUME NEW n \in InFlight, Receive(n) PROVE Keeps
      BY <2>4, Received
    <2>5. CASE Cancel
      BY <2>5 DEF Cancel, InFlight
    <2>6. CASE Crash
      <3>1. InFlight' = {} /\ stopping' = stopping
        BY <2>6 DEF Crash, InFlight, stopVars
      <3> QED BY <3>1
    <2> QED BY <2>1, <2>2, <2>3, <2>4, <2>5, <2>6 DEF ExecNext, InFlight
  <1> QED BY <1>1, LoopInvariant, StopInit, StopNext, PTL DEF ExecSpec, NoLaunchOnceStopped

-----------------------------------------------------------------------------
(***************************************************************************)
(* The limits.  The last operation a pass launches was admitted beside     *)
(* everything else that runs, and so for every provider the last of its.   *)
(***************************************************************************)
\* What is added to a set last brings it to its limit, and no further.
LEMMA AtTheLimit ==
  ASSUME NEW S, IsFiniteSet(S), NEW T, IsFiniteSet(T), NEW x, T \subseteq S \cup {x},
         NEW N \in Nat, Cardinality(S) < N
  PROVE  Cardinality(T) <= N
  <1>1. IsFiniteSet(S \cup {x}) /\ Cardinality(S \cup {x}) <= Cardinality(S) + 1
        /\ Cardinality(S) \in Nat /\ Cardinality(S \cup {x}) \in Nat
    <2>1. Cardinality(S \cup {x}) = IF x \in S THEN Cardinality(S) ELSE Cardinality(S) + 1
      BY FS_AddElement
    <2>2. IsFiniteSet(S \cup {x}) /\ Cardinality(S) \in Nat
      BY FS_AddElement, FS_CardinalityType
    <2> QED BY <2>1, <2>2
  <1>2. Cardinality(T) <= Cardinality(S \cup {x}) /\ Cardinality(T) \in Nat
    BY <1>1, FS_Subset, FS_CardinalityType
  <1> QED BY <1>1, <1>2

LEMMA RunningFinite ==
  ASSUME LoopInv, NEW S \in SUBSET nodes, NEW p
  PROVE  /\ IsFiniteSet(S) /\ IsFiniteSet({n \in S : ProviderName(n) = p})
         /\ Cardinality(S) \in Nat /\ RunningAt(S, p) \in Nat
  <1> DEFINE T == {n \in S : ProviderName(n) = p}
  <1>1. T \in SUBSET nodes
    OBVIOUS
  <1> HIDE DEF T
  <1>2. IsFiniteSet(S) /\ IsFiniteSet(T) /\ Cardinality(S) \in Nat /\ Cardinality(T) \in Nat
    BY <1>1, NodesFinite DEF LoopInv, WalkInv, WalkTypeOK
  <1> QED BY <1>2 DEF T, RunningAt

LEMMA LimitsInit == ExecInit => ConcurrencyBounded
  <1> SUFFICES ASSUME ExecInit PROVE ConcurrencyBounded
    OBVIOUS
  <1>1. InFlight = {}
    BY DEF ExecInit, InFlight
  <1>2. Cardinality({}) = 0
    BY FS_EmptySet
  <1>3. \A p : {n \in {} : ProviderName(n) = p} = {}
    OBVIOUS
  <1>4. \A p : RunningAt({}, p) = 0
    BY <1>2, <1>3 DEF RunningAt
  <1> QED BY <1>1, <1>2, <1>4 DEF ConcurrencyBounded, ExecutorAssumption

\* Fewer run than did.
LEMMA LimitsFewer ==
  ASSUME LoopInv, ConcurrencyBounded, InFlight' \subseteq InFlight
  PROVE  ConcurrencyBounded'
  <1>1. InFlight \in SUBSET nodes /\ InFlight' \in SUBSET nodes
    BY DEF LoopInv, ExecTypeOK
  <1>2. \A p : /\ RunningAt(InFlight', p) <= RunningAt(InFlight, p)
               /\ RunningAt(InFlight', p) \in Nat /\ RunningAt(InFlight, p) \in Nat
    <2> TAKE p
    <2> DEFINE T == {n \in InFlight : ProviderName(n) = p}
               U == {n \in InFlight' : ProviderName(n) = p}
    <2>1. IsFiniteSet(T) /\ U \in SUBSET T
      BY <1>1, RunningFinite
    <2> HIDE DEF T, U
    <2>2. Cardinality(U) <= Cardinality(T)
      BY <2>1, FS_Subset
    <2>3. RunningAt(InFlight', p) <= RunningAt(InFlight, p)
      BY <2>2 DEF T, U, RunningAt
    <2> QED BY <1>1, <2>3, RunningFinite
  <1>3. Cardinality(InFlight') <= Cardinality(InFlight)
        /\ Cardinality(InFlight') \in Nat /\ Cardinality(InFlight) \in Nat
    <2>1. IsFiniteSet(InFlight)
      BY <1>1, RunningFinite
    <2> QED BY <1>1, <2>1, RunningFinite, FS_Subset
  <1>4. \A p \in DOMAIN Ceiling : RunningAt(InFlight', p) <= Ceiling[p]
    BY <1>2 DEF ConcurrencyBounded
  <1>5. Cardinality(InFlight') <= Parallelism
    BY <1>3 DEF ConcurrencyBounded
  <1> QED BY <1>4, <1>5 DEF ConcurrencyBounded

LEMMA LimitsPass ==
  ASSUME LoopInv, ConcurrencyBounded, owner # "dead",
         NEW L \in SUBSET DOMAIN queue, Launches(L), Launch(L)
  PROVE  ConcurrencyBounded'
  <1>0. /\ InFlight' = InFlight \cup {queue[i] : i \in L}
        /\ {queue[i] : i \in L} \subseteq Dispatched \ InFlight
    BY Launched
  <1>1. InFlight' \in SUBSET nodes /\ InFlight \in SUBSET nodes
    BY <1>0 DEF LoopInv, ExecTypeOK, Dispatched
  <1>2. Len(queue) \in Nat /\ DOMAIN queue = 1..Len(queue)
    BY DEF LoopInv, HandedOut, Lists
  <1>3. \A i \in L : /\ Admits(BesideAt(L, i), queue[i]) /\ queue[i] \in InFlight'
                     /\ BesideAt(L, i) \in SUBSET nodes
    BY <1>0, <1>1 DEF Launches, BesideAt
  <1>4. Cardinality(InFlight') <= Parallelism
    <2>1. CASE L = {}
      <3>1. InFlight' = InFlight
        BY <1>0, <2>1
      <3> QED BY <3>1 DEF ConcurrencyBounded
    <2>2. CASE L # {}
      <3>1. PICK i \in L : \A j \in L : j <= i
        BY <1>2, <2>2, LastPosition
      <3>2. InFlight' \subseteq BesideAt(L, i) \cup {queue[i]}
        <4> SUFFICES ASSUME NEW n \in InFlight', n # queue[i] PROVE n \in BesideAt(L, i)
          OBVIOUS
        <4>1. CASE n \in InFlight
          BY <4>1 DEF BesideAt
        <4>2. CASE n \notin InFlight
          <5>1. PICK j \in L : n = queue[j]
            BY <1>0, <4>2
          <5>2. j < i
            BY <1>2, <3>1, <5>1
          <5> QED BY <5>1, <5>2 DEF BesideAt
        <4> QED BY <4>1, <4>2
      <3>3. Cardinality(BesideAt(L, i)) < Parallelism
        BY <1>3 DEF Admits
      <3>4. IsFiniteSet(BesideAt(L, i)) /\ IsFiniteSet(InFlight')
        BY <1>1, <1>3, RunningFinite
      <3> QED BY <3>2, <3>3, <3>4, AtTheLimit DEF ExecutorAssumption
    <2> QED BY <2>1, <2>2
  <1>5. ASSUME NEW p \in DOMAIN Ceiling PROVE RunningAt(InFlight', p) <= Ceiling[p]
    <2> DEFINE M == {i \in L : ProviderName(queue[i]) = p}
               T == {n \in InFlight' : ProviderName(n) = p}
    <2>1. M \in SUBSET L /\ M \in SUBSET (1..Len(queue))
      BY <1>2
    <2>2. p # NoProvider
      BY DEF ExecutorAssumption
    <2>3. CASE M = {}
      <3>1. T = {n \in InFlight : ProviderName(n) = p}
        BY <1>0, <2>3
      <3> QED BY <3>1 DEF ConcurrencyBounded, RunningAt
    <2>4. CASE M # {}
      <3>1. PICK i \in M : \A j \in M : j <= i
        <4> HIDE DEF M
        <4> QED BY <1>2, <2>1, <2>4, LastPosition
      <3> DEFINE S == {n \in BesideAt(L, i) : ProviderName(n) = p}
      <3>2. T \subseteq S \cup {queue[i]}
        <4> SUFFICES ASSUME NEW n \in T, n # queue[i] PROVE n \in BesideAt(L, i)
          OBVIOUS
        <4>1. CASE n \in InFlight
          BY <4>1 DEF BesideAt
        <4>2. CASE n \notin InFlight
          <5>1. PICK j \in L : n = queue[j]
            BY <1>0, <4>2
          <5>2. j \in M
            BY <5>1
          <5>3. j \in 1..Len(queue) /\ i \in 1..Len(queue) /\ j <= i /\ j # i
            BY <1>2, <3>1, <5>1, <5>2
          <5>4. j < i
            BY <1>2, <5>3
          <5> QED BY <5>1, <5>4 DEF BesideAt
        <4> QED BY <4>1, <4>2
      <3>3. RunningAt(BesideAt(L, i), p) < Ceiling[p]
        BY <1>3, <2>2 DEF Admits
      <3>4. IsFiniteSet(S) /\ IsFiniteSet(T)
        BY <1>1, <1>3, RunningFinite
      <3>5. Cardinality(S) < Ceiling[p]
        BY <3>3 DEF RunningAt
      <3>6. Ceiling[p] \in Nat
        BY DEF ExecutorAssumption
      <3> HIDE DEF S, T
      <3>7. Cardinality(T) <= Ceiling[p]
        BY <3>2, <3>4, <3>5, <3>6, AtTheLimit
      <3> QED BY <3>7 DEF T, RunningAt
    <2> QED BY <2>3, <2>4
  <1> QED BY <1>4, <1>5 DEF ConcurrencyBounded

LEMMA LimitsNext == LoopInv /\ ConcurrencyBounded /\ [ExecNext]_execVars => ConcurrencyBounded'
  <1> SUFFICES ASSUME LoopInv, ConcurrencyBounded, [ExecNext]_execVars PROVE ConcurrencyBounded'
    OBVIOUS
  <1>1. CASE Schedule
    <2>1. PICK L \in SUBSET DOMAIN queue : Launches(L) /\ Launch(L)
      BY <1>1 DEF Schedule
    <2>2. owner # "dead"
      BY <1>1 DEF Schedule
    <2> QED BY <2>1, <2>2, LimitsPass
  <1>2. CASE ~Schedule
    <2>1. InFlight' \subseteq InFlight
      <3>1. CASE Top
        BY <3>1 DEF Top, InFlight
      <3>2. ASSUME NEW n \in InFlight, Execute(n) PROVE InFlight' \subseteq InFlight
        BY <3>2, Worked
      <3>3. ASSUME NEW n \in InFlight, Receive(n) PROVE InFlight' \subseteq InFlight
        BY <3>3, Received
      <3>4. CASE Cancel
        BY <3>4 DEF Cancel, InFlight
      <3>5. CASE Crash
        BY <3>5 DEF Crash, InFlight
      <3>6. CASE UNCHANGED execVars
        BY <3>6 DEF execVars, InFlight
      <3> QED BY <1>2, <3>1, <3>2, <3>3, <3>4, <3>5, <3>6 DEF ExecNext, InFlight
    <2> QED BY <2>1, LimitsFewer
  <1> QED BY <1>1, <1>2

(***************************************************************************)
(* No more calls run at once than --parallelism, nor against a provider    *)
(* than its ceiling (apply.go:69-80, 568-583).                             *)
(***************************************************************************)
THEOREM LimitsAreKept == ExecSpec => []ConcurrencyBounded
  BY LimitsInit, LimitsNext, LoopInvariant, PTL DEF ExecSpec

-----------------------------------------------------------------------------
(***************************************************************************)
(* The report.  failed and skipped are what the walk skipped; an operation *)
(* that is done is reported, unless the rest of its replacement failed.    *)
(* The last needs the phases of one address to follow one another, which   *)
(* is so when a cleanup is the only operation of its address that does     *)
(* anything: it takes part in no edge (execution.go:121-135).             *)
(***************************************************************************)
CleanupsAlone ==
  \A p, q \in plan : p.addr = q.addr /\ p.kind = "destroy_deposed" =>
    q.kind \in {"noop", "destroy_deposed"}

OutcomeInv ==
  /\ failed \cup skipped = {n \in nodes : status[n] = "skipped"}
  /\ failed \cap skipped = {}
  /\ \A n \in failed : \A m \in Preds(n) : status[m] = "done"

NothingLeftAtTheEnd == owner = "ended" /\ ~cancelled /\ ~persistFailed => left = 0

DoneIsReported ==
  \A n \in nodes : status[n] = "done" =>
    \/ n.addr \in FailedAt
    \/ n.addr \in DOMAIN applied /\ (applied[n.addr] \/ n.addr \in DOMAIN mem)

OnlyRemovedForgotten ==
  \A a \in DOMAIN input.st \ DOMAIN mem : \E n \in nodes : n.addr = a /\ IsRemoval(n)

ReportInv ==
  CleanupsAlone =>
    /\ FailedAt \cap DOMAIN applied = {}
    /\ DoneIsReported
    /\ OnlyRemovedForgotten

\* Two nodes of one address are the phases of a replacement, one after the
\* other.
LEMMA PhasesAtOneAddress ==
  ASSUME LoopInv, CleanupsAlone, NEW m \in nodes, NEW n \in nodes, m # n, m.addr = n.addr
  PROVE  /\ m.kind = "replace" /\ n.kind = "replace" /\ m.cbd = n.cbd
         /\ {m.phase, n.phase} = {"destroy", "create"}
         /\ n \in Preds(m) \/ m \in Preds(n)
  <1>0. input \in Inputs /\ plan = Compute(input) /\ nodes = ExecNodes(Compute(input))
        /\ OneOperationPerAddress(plan) /\ edges = ExecEdges(plan)
    BY DEF LoopInv, ExecTypeOK
  <1>1. PICK p \in plan :
          /\ m = OpNode(p, m.phase) /\ m.phase \in Phases(p) /\ m.kind = p.kind /\ m.addr = p.addr
          /\ m.phase \in {"destroy", "create"} /\ m.kind # "noop" /\ Facts(input, p)
    BY <1>0, NodeOfPlan
  <1>2. PICK q \in plan :
          /\ n = OpNode(q, n.phase) /\ n.phase \in Phases(q) /\ n.kind = q.kind /\ n.addr = q.addr
          /\ n.phase \in {"destroy", "create"} /\ n.kind # "noop" /\ Facts(input, q)
    BY <1>0, NodeOfPlan
  <1>3. p = q
    <2>1. p.kind = "destroy_deposed" <=> q.kind = "destroy_deposed"
      BY <1>1, <1>2 DEF CleanupsAlone
    <2> QED BY <1>0, <1>1, <1>2, <2>1 DEF OneOperationPerAddress
  <1>4. m.phase # n.phase
    BY <1>1, <1>2, <1>3
  <1>5. p.kind = "replace"
    BY <1>1, <1>2, <1>3, <1>4 DEF Phases, Facts
  <1>6. m.cbd = n.cbd
    BY <1>1, <1>2, <1>3 DEF OpNode
  <1>7. <<m, n>> \in edges \/ <<n, m>> \in edges
    <2> DEFINE d == Has(plan, p.addr, "destroy")
               c == Has(plan, p.addr, "create")
    <2>1. (m \in d /\ n \in c) \/ (n \in d /\ m \in c)
      BY <1>0, <1>1, <1>2, <1>3, <1>4, <1>5 DEF Has
    <2>2. (IF p.cbd THEN c \X d ELSE d \X c) \subseteq PhaseEdges(plan)
      BY <1>5 DEF PhaseEdges
    <2>3. PhaseEdges(plan) \subseteq edges
      BY <1>0 DEF ExecEdges
    <2> HIDE DEF d, c
    <2>4. CASE p.cbd
      BY <2>1, <2>2, <2>3, <2>4
    <2>5. CASE ~p.cbd
      BY <2>1, <2>2, <2>3, <2>5
    <2> QED BY <2>4, <2>5
  <1>8. {m.phase, n.phase} = {"destroy", "create"}
    BY <1>1, <1>2, <1>4
  <1> QED BY <1>1, <1>2, <1>3, <1>5, <1>6, <1>7, <1>8 DEF Preds

\* What records a deposed object was deleted finds the record there.
LEMMA DeposedIsRecorded ==
  ASSUME LoopInv, CleanupsAlone, OnlyRemovedForgotten, NEW n \in nodes, TakesDeposed(n)
  PROVE  n.addr \in DOMAIN mem
  <1>0. input \in Inputs /\ nodes = ExecNodes(Compute(input))
    BY DEF LoopInv, ExecTypeOK
  <1>1. n.addr \in DOMAIN input.st
    BY <1>0, NodeOfPlan DEF TakesDeposed, Facts
  <1>2. SUFFICES ASSUME NEW m \in nodes, m.addr = n.addr, IsRemoval(m) PROVE FALSE
    BY <1>1 DEF OnlyRemovedForgotten
  <1>3. m # n
    BY <1>2 DEF IsRemoval, TakesDeposed
  <1>4. m.kind = "replace" /\ n.kind = "replace" /\ m.cbd = n.cbd
    BY <1>2, <1>3, PhasesAtOneAddress
  <1> QED BY <1>2, <1>4 DEF IsRemoval, TakesDeposed

LEMMA RecordedDomain ==
  ASSUME NEW n, NEW res
  PROVE  /\ IsRemoval(n) => DOMAIN Recorded(n, res) = DOMAIN mem \ {n.addr}
         /\ ~IsRemoval(n) /\ (TakesDeposed(n) => n.addr \in DOMAIN mem) =>
              DOMAIN Recorded(n, res) = DOMAIN mem \cup {n.addr}
         /\ DOMAIN mem \ {n.addr} \subseteq DOMAIN Recorded(n, res)
         /\ ~IsRemoval(n) => DOMAIN mem \subseteq DOMAIN Recorded(n, res)
  <1>1. \A rec : DOMAIN WithEntry(mem, n.addr, rec) = DOMAIN mem \cup {n.addr}
    BY DEF WithEntry
  <1>2. DOMAIN Without(mem, n.addr) = DOMAIN mem \ {n.addr}
    BY DEF Without
  <1>3. CASE IsRemoval(n)
    BY <1>2, <1>3 DEF Recorded
  <1>4. CASE ~IsRemoval(n) /\ TakesDeposed(n)
    BY <1>1, <1>4 DEF Recorded
  <1>5. CASE ~IsRemoval(n) /\ ~TakesDeposed(n)
    BY <1>1, <1>5 DEF Recorded
  <1> QED BY <1>3, <1>4, <1>5

LEMMA ReportInit == ExecInit => OutcomeInv /\ ReportInv /\ NothingLeftAtTheEnd
  <1> SUFFICES ASSUME ExecInit PROVE OutcomeInv /\ ReportInv /\ NothingLeftAtTheEnd
    OBVIOUS
  <1>1. /\ failed = {} /\ skipped = {} /\ applied = <<>> /\ mem = input.st /\ owner = "top"
        /\ \A n \in nodes : status[n] \in {"dispatched", "unstarted"}
    BY DEF ExecInit
  <1>2. FailedAt = {}
    BY <1>1 DEF FailedAt
  <1>3. OutcomeInv
    BY <1>1 DEF OutcomeInv
  <1>4. ReportInv
    BY <1>1, <1>2 DEF ReportInv, DoneIsReported, OnlyRemovedForgotten
  <1> QED BY <1>1, <1>3, <1>4 DEF NothingLeftAtTheEnd

\* A failure: the node and everything it takes along are reported, once.
LEMMA ReportFailure ==
  ASSUME LoopInv, OutcomeInv, ReportInv, NEW n \in nodes, RecordFailure(n),
         UNCHANGED <<input, plan, mem>>
  PROVE  OutcomeInv' /\ ReportInv'
  <1>1. /\ failed' = failed \cup {n} /\ skipped' = skipped \cup SkippedWith(n)
        /\ applied' = Without(applied, n.addr) /\ Skip(n)
        /\ UNCHANGED <<nodes, edges>> /\ status[n] = "dispatched"
        /\ status' = [m \in nodes |-> IF m \in Visited(n) THEN "skipped" ELSE status[m]]
    BY DEF RecordFailure, Skip
  <1>2. \A m \in Visited(n) : m # n => status[m] \in {"unstarted", "skipped"}
    BY <1>1, VisitedUnstarted DEF LoopInv
  <1>3. n \in Visited(n) /\ Visited(n) \subseteq nodes
    BY VisitedLeast DEF LoopInv, WalkInv, WalkTypeOK, ClosedFrom
  <1>4. \A m \in nodes : status'[m] = "done" <=> status[m] = "done"
    BY <1>1, <1>2
  <1>5. \A m \in nodes : Preds(m)' = Preds(m)
    BY <1>1 DEF Preds
  <1>6. OutcomeInv'
    <2>1. (failed \cup skipped)' = {m \in nodes' : status'[m] = "skipped"}
      BY <1>1, <1>3 DEF OutcomeInv, SkippedWith
    <2>2. (failed \cap skipped)' = {}
      <3>1. \A m \in failed \cup skipped : status[m] = "skipped"
        BY DEF OutcomeInv
      <3> QED BY <1>1, <3>1 DEF OutcomeInv, SkippedWith
    <2>3. \A k \in failed' : k \in nodes /\ \A m \in Preds(k) : m \in nodes /\ status[m] = "done"
      <3>1. \A m \in Preds(n) : m \in nodes /\ status[m] = "done"
        BY <1>1 DEF LoopInv, WalkInv, DispatchedAfterPreds, Preds
      <3>2. \A k \in failed : k \in nodes /\ \A m \in Preds(k) : m \in nodes /\ status[m] = "done"
        BY DEF OutcomeInv, Preds
      <3> QED BY <1>1, <3>1, <3>2
    <2>4. \A k \in failed' : \A m \in Preds(k)' : status'[m] = "done"
      BY <1>4, <1>5, <2>3
    <2> QED BY <2>1, <2>2, <2>4 DEF OutcomeInv
  <1>7. ReportInv'
    <2> SUFFICES ASSUME CleanupsAlone'
                 PROVE  (FailedAt \cap DOMAIN applied)' = {} /\ DoneIsReported' /\ OnlyRemovedForgotten'
      BY DEF ReportInv
    <2>1. CleanupsAlone
      BY DEF CleanupsAlone
    <2>2. FailedAt \cap DOMAIN applied = {} /\ DoneIsReported /\ OnlyRemovedForgotten
      BY <2>1 DEF ReportInv
    <2>3. FailedAt' = FailedAt \cup {n.addr}
      BY <1>1 DEF FailedAt
    <2>4. /\ DOMAIN applied' = DOMAIN applied \ {n.addr}
          /\ \A a \in DOMAIN applied' : applied'[a] = applied[a]
      BY <1>1 DEF Without
    <2>5. DoneIsReported'
      <3> SUFFICES ASSUME NEW m \in nodes, status[m] = "done"
                   PROVE  \/ m.addr \in FailedAt'
                          \/ m.addr \in DOMAIN applied' /\ (applied'[m.addr] \/ m.addr \in DOMAIN mem)
        BY <1>1, <1>4 DEF DoneIsReported
      <3> QED BY <2>2, <2>3, <2>4 DEF DoneIsReported
    <2>6. OnlyRemovedForgotten'
      BY <1>1, <2>2 DEF OnlyRemovedForgotten
    <2> QED BY <2>2, <2>3, <2>4, <2>5, <2>6
  <1> QED BY <1>6, <1>7

\* A success: nothing else of its address has failed, and what it recorded
\* is what the report looks for.
LEMMA ReportSuccess ==
  ASSUME LoopInv, OutcomeInv, ReportInv, NEW n \in nodes, NEW res, RecordSuccess(n),
         UNCHANGED <<input, plan>>, mem' = Recorded(n, res)
  PROVE  OutcomeInv' /\ ReportInv'
  <1>1. /\ failed' = failed /\ skipped' = skipped
        /\ applied' = WithEntry(applied, n.addr, IsRemoval(n))
        /\ UNCHANGED <<nodes, edges>> /\ status[n] = "dispatched"
        /\ status' = [m \in nodes |-> IF m = n THEN "done"
                                      ELSE IF m \in NewlyReady(n) THEN "dispatched"
                                      ELSE status[m]]
    BY DEF RecordSuccess, Done
  <1>2. \A m \in NewlyReady(n) : status[m] = "unstarted"
    BY DEF NewlyReady, DecrementedBy
  <1>3. /\ \A m \in nodes : status[m] = "done" => status'[m] = "done"
        /\ \A m \in nodes : status'[m] = "done" => m = n \/ status[m] = "done"
        /\ \A m \in nodes : status'[m] = "skipped" <=> status[m] = "skipped"
    BY <1>1, <1>2
  <1>4. \A m \in nodes : Preds(m)' = Preds(m)
    BY <1>1 DEF Preds
  <1>5. OutcomeInv'
    <2>1. {m \in nodes' : status'[m] = "skipped"} = {m \in nodes : status[m] = "skipped"}
      BY <1>1, <1>3
    <2>2. \A k \in failed' : \A m \in Preds(k)' : status'[m] = "done"
      BY <1>1, <1>3, <1>4 DEF OutcomeInv, Preds
    <2> QED BY <1>1, <2>1, <2>2 DEF OutcomeInv
  <1>6. ReportInv'
    <2> SUFFICES ASSUME CleanupsAlone'
                 PROVE  (FailedAt \cap DOMAIN applied)' = {} /\ DoneIsReported' /\ OnlyRemovedForgotten'
      BY DEF ReportInv
    <2>1. CleanupsAlone
      BY DEF CleanupsAlone
    <2>2. FailedAt \cap DOMAIN applied = {} /\ DoneIsReported /\ OnlyRemovedForgotten
      BY <2>1 DEF ReportInv
    <2>3. FailedAt' = FailedAt
      BY <1>1 DEF FailedAt
    <2>4. /\ DOMAIN applied' = DOMAIN applied \cup {n.addr} /\ applied'[n.addr] = IsRemoval(n)
          /\ \A a \in DOMAIN applied : a # n.addr => applied'[a] = applied[a]
      BY <1>1 DEF WithEntry
    <2>5. /\ DOMAIN mem \ {n.addr} \subseteq DOMAIN mem'
          /\ ~IsRemoval(n) => DOMAIN mem' = DOMAIN mem \cup {n.addr}
      BY <2>1, <2>2, DeposedIsRecorded, RecordedDomain
    <2>6. n.addr \notin FailedAt
      <3> SUFFICES ASSUME NEW m \in failed, m.addr = n.addr PROVE FALSE
        BY DEF FailedAt
      <3>1. m \in nodes /\ status[m] = "skipped"
        BY DEF OutcomeInv
      <3>2. n \in Preds(m) \/ m \in Preds(n)
        BY <1>1, <2>1, <3>1, PhasesAtOneAddress
      <3>3. n \in Preds(m) => status[n] = "done"
        BY DEF OutcomeInv
      <3>4. m \in Preds(n) => status[m] = "done"
        BY <1>1 DEF LoopInv, WalkInv, DispatchedAfterPreds
      <3> QED BY <1>1, <3>1, <3>2, <3>3, <3>4
    <2>7. DoneIsReported'
      <3> SUFFICES ASSUME NEW m \in nodes, m = n \/ status[m] = "done"
                   PROVE  \/ m.addr \in FailedAt
                          \/ m.addr \in DOMAIN applied' /\ (applied'[m.addr] \/ m.addr \in DOMAIN mem')
        BY <1>1, <1>3, <2>3 DEF DoneIsReported
      <3>1. CASE m.addr = n.addr
        BY <2>4, <2>5, <3>1
      <3>2. CASE m.addr # n.addr
        BY <2>2, <2>4, <2>5, <3>2 DEF DoneIsReported
      <3> QED BY <3>1, <3>2
    <2>8. OnlyRemovedForgotten'
      <3> SUFFICES ASSUME NEW a \in DOMAIN input.st \ DOMAIN mem'
                   PROVE  \E m \in nodes : m.addr = a /\ IsRemoval(m)
        BY <1>1 DEF OnlyRemovedForgotten
      <3>1. CASE a \in DOMAIN mem
        BY <2>5, <3>1
      <3>2. CASE a \notin DOMAIN mem
        BY <2>2, <3>2 DEF OnlyRemovedForgotten
      <3> QED BY <3>1, <3>2
    <2> QED BY <2>2, <2>3, <2>4, <2>6, <2>7, <2>8
  <1> QED BY <1>5, <1>6

LEMMA ReportNext ==
  LoopInv /\ OutcomeInv /\ ReportInv /\ [ExecNext]_execVars => OutcomeInv' /\ ReportInv'
  <1> SUFFICES ASSUME LoopInv, OutcomeInv, ReportInv, [ExecNext]_execVars
               PROVE  OutcomeInv' /\ ReportInv'
    OBVIOUS
  <1>1. ASSUME NEW n \in InFlight, Receive(n) PROVE OutcomeInv' /\ ReportInv'
    <2>1. n \in nodes
      BY DEF LoopInv, ExecTypeOK
    <2> QED BY <1>1, <2>1, Received, ReportFailure, ReportSuccess
  <1>2. CASE UNCHANGED walkVars /\ UNCHANGED <<input, plan, mem, applied, failed, skipped>>
    <2>1. UNCHANGED <<nodes, edges, status>>
      BY <1>2 DEF walkVars
    <2>2. \A m \in nodes : Preds(m)' = Preds(m)
      BY <2>1 DEF Preds
    <2>3. OutcomeInv'
      BY <1>2, <2>1, <2>2 DEF OutcomeInv
    <2>4. CleanupsAlone' = CleanupsAlone /\ FailedAt' = FailedAt
      BY <1>2 DEF CleanupsAlone, FailedAt
    <2>5. DoneIsReported' = DoneIsReported /\ OnlyRemovedForgotten' = OnlyRemovedForgotten
      BY <1>2, <2>1, <2>4 DEF DoneIsReported, OnlyRemovedForgotten
    <2>6. ReportInv'
      BY <1>2, <2>4, <2>5 DEF ReportInv
    <2> QED BY <2>3, <2>6
  <1>3. \/ \E n \in InFlight : Receive(n)
        \/ UNCHANGED walkVars /\ UNCHANGED <<input, plan, mem, applied, failed, skipped>>
    BY DEF ExecNext, execVars, runVars, stateVars, resultVars, Top, Schedule, Execute, Cancel,
           Crash, InFlight
  <1> QED BY <1>1, <1>2, <1>3

\* The loop ends when nothing is left: a pass that starts nothing, with
\* nothing running, would have started what is first in the queue.
LEMMA EndsDone ==
  LoopInv /\ StopInv /\ NothingLeftAtTheEnd /\ [ExecNext]_execVars => NothingLeftAtTheEnd'
  <1> SUFFICES ASSUME LoopInv, StopInv, NothingLeftAtTheEnd, [ExecNext]_execVars
               PROVE  NothingLeftAtTheEnd'
    OBVIOUS
  <1>1. CASE Top
    BY <1>1 DEF Top, walkVars, NothingLeftAtTheEnd
  <1>2. CASE Schedule
    <2> SUFFICES ASSUME DOMAIN worker' = {}, ~cancelled, ~persistFailed
                 PROVE  left = 0
      BY <1>2 DEF Schedule, walkVars, stopVars, NothingLeftAtTheEnd
    <2>1. PICK L \in SUBSET DOMAIN queue : Launches(L) /\ Launch(L)
      BY <1>2 DEF Schedule
    <2>2. owner = "pass"
      BY <1>2 DEF Schedule
    <2>3. ~stopping
      BY DEF StopInv
    <2>4. InFlight' = InFlight \cup {queue[i] : i \in L} /\ InFlight' = {}
      <3>1. InFlight' = {}
        BY DEF InFlight
      <3> QED BY <2>1, <2>2, <3>1, Launched
    <2>5. InFlight = {} /\ L = {}
      <3>1. InFlight \cup {queue[i] : i \in L} = {}
        BY ONLY <2>4
      <3> QED BY ONLY <3>1
    <2>6. Lists(queue, Dispatched)
      BY <2>2, <2>5 DEF LoopInv, HandedOut
    <2>7. DOMAIN queue = {}
      <3> SUFFICES ASSUME NEW i \in DOMAIN queue PROVE FALSE
        OBVIOUS
      <3>1. BesideAt(L, i) = {}
        BY <2>5 DEF BesideAt
      <3>2. ~Admits({}, queue[i])
        BY <2>1, <2>3, <2>5, <3>1 DEF Launches
      <3>3. queue[i] \in Dispatched
        BY <2>6 DEF Lists
      <3>4. queue[i].addr \in Addr
        BY <3>3, NodeOfPlan DEF Dispatched, LoopInv, ExecTypeOK, Facts
      <3>5. Cardinality({}) = 0 /\ {m \in {} : ProviderName(m) = ProviderName(queue[i])} = {}
        BY FS_EmptySet
      <3>6. RunningAt({}, ProviderName(queue[i])) = 0
        BY <3>5 DEF RunningAt
      <3>7. ProviderName(queue[i]) # NoProvider => 0 < Ceiling[ProviderName(queue[i])]
        <4>1. ProviderName(queue[i]) # NoProvider => ProviderName(queue[i]) \in DOMAIN Ceiling
          BY <3>4 DEF ProviderName, ExecutorAssumption
        <4> QED BY <4>1 DEF ExecutorAssumption
      <3>8. 0 < Parallelism
        BY DEF ExecutorAssumption
      <3> QED BY <3>2, <3>5, <3>6, <3>7, <3>8 DEF Admits
    <2>8. Dispatched = {}
      BY <2>6, <2>7 DEF Lists
    <2>9. ~(left > 0)
      BY <2>8, WalkInvNeverStuck DEF NeverStuck, LoopInv, NoneReady, Dispatched
    <2> QED BY <2>9 DEF LoopInv, WalkInv, WalkTypeOK
  <1>3. ASSUME NEW n \in InFlight, Execute(n) PROVE NothingLeftAtTheEnd'
    BY <1>3 DEF Execute, walkVars, stopVars, NothingLeftAtTheEnd
  <1>4. ASSUME NEW n \in InFlight, Receive(n) PROVE NothingLeftAtTheEnd'
    BY <1>4, Received DEF NothingLeftAtTheEnd
  <1>5. CASE Cancel
    BY <1>5 DEF Cancel, NothingLeftAtTheEnd
  <1>6. CASE Crash
    BY <1>6 DEF Crash, NothingLeftAtTheEnd
  <1>7. CASE UNCHANGED execVars
    BY <1>7 DEF execVars, walkVars, stopVars, NothingLeftAtTheEnd
  <1> QED BY <1>1, <1>2, <1>3, <1>4, <1>5, <1>6, <1>7 DEF ExecNext, InFlight

(***************************************************************************)
(* A run that was not stopped accounts for every operation: applied, or    *)
(* failed, or skipped because of a failure upstream; nothing is reported   *)
(* as both applied and failed (isolation.go:109-200).                      *)
(***************************************************************************)
THEOREM OperationsAreAccounted == ExecSpec => [](CleanupsAlone => EveryOperationAccounted)
  <1>1. LoopInv /\ OutcomeInv /\ ReportInv /\ NothingLeftAtTheEnd
          => (CleanupsAlone => EveryOperationAccounted)
    <2> SUFFICES ASSUME LoopInv, OutcomeInv, ReportInv, NothingLeftAtTheEnd, CleanupsAlone,
                        owner = "ended"
                 PROVE  /\ failed \cap skipped = {} /\ FailedAt \cap Reported = {}
                        /\ ~cancelled /\ ~persistFailed => \A n \in nodes : Accounted(n)
      BY DEF EveryOperationAccounted
    <2>1. failed \cap skipped = {} /\ FailedAt \cap Reported = {}
      BY DEF OutcomeInv, ReportInv, Reported
    <2>2. ASSUME ~cancelled, ~persistFailed, NEW n \in nodes PROVE Accounted(n)
      <3>1. left = 0
        BY <2>2 DEF NothingLeftAtTheEnd
      <3>2. Unresolved = {}
        <4>1. IsFiniteSet(Unresolved)
          BY NodesFinite DEF Unresolved, LoopInv, WalkInv, WalkTypeOK
        <4>2. Cardinality(Unresolved) = 0
          BY <3>1 DEF LoopInv, WalkInv, LeftCountsUnresolved
        <4> QED BY <4>1, <4>2, FS_EmptySet
      <3>3. status[n] \in {"done", "skipped"}
        BY <3>2 DEF Unresolved, LoopInv, WalkInv, WalkTypeOK, WalkStatus
      <3>4. CASE n \in failed \cup skipped
        BY <3>4 DEF OutcomeInv, Accounted
      <3>5. CASE n \notin failed \cup skipped
        <4>1. status[n] = "done"
          BY <3>3, <3>5 DEF OutcomeInv
        <4>2. n.addr \in Reported \cup FailedAt
          BY <4>1 DEF ReportInv, DoneIsReported, Reported
        <4> QED BY <3>5, <4>1, <4>2 DEF Accounted
      <3> QED BY <3>4, <3>5
    <2> QED BY <2>1, <2>2
  <1> QED BY <1>1, ReportInit, ReportNext, EndsDone, StopInit, StopNext, LoopInvariant, PTL
      DEF ExecSpec

=============================================================================
