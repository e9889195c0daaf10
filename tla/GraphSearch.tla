---------------------------- MODULE GraphSearch ----------------------------
(***************************************************************************)
(* internal/graph/graph.go: Layers, which first looks for a cycle by a     *)
(* depth-first search and then peels the graph layer by layer.             *)
(*                                                                         *)
(* Node IDs are numbers, in the order the code sorts them.  A frame of the *)
(* recursion is a record: the node visited and the successors not yet      *)
(* looked at.                                                              *)
(***************************************************************************)
EXTENDS Naturals, Sequences, FiniteSets, DepGraph

CONSTANTS
  Vertices,    \* the nodes added
  SelfEdges    \* the nodes that may have an edge to themselves

ASSUME GraphSearchAssumption ==
  /\ IsFiniteSet(Vertices) /\ Vertices \subseteq Nat
  /\ SelfEdges \subseteq Vertices

VARIABLES
  arcs,     \* constant during the search
  mark,      \* node -> unvisited, visiting or done
  frames,    \* the recursion's stack, innermost last
  cycle,     \* the cycle found, <<>> while none is
  degree,    \* remaining: unpeeled node -> its unpeeled predecessors
  layers

searchVars == <<mark, frames, cycle>>
layerVars == <<degree, layers>>
graphVars == <<arcs, searchVars, layerVars>>

Out(n) == {m \in Vertices : <<n, m>> \in arcs}
In(n) == {m \in Vertices : <<m, n>> \in arcs}

Frame(n) == [node |-> n, todo |-> Out(n)]
OnStack == [i \in DOMAIN frames |-> frames[i].node]
Top == frames[Len(frames)]

\* The code goes through the sorted IDs; first is the next of those still to do.
First(ids) == {n \in ids : \A m \in ids : n <= m}

\* What is left of the recursion once the innermost visit has looked at m.
Past(m) == [frames EXCEPT ![Len(frames)].todo = @ \ {m}]

SearchOver == cycle # <<>> \/ (frames = <<>> /\ \A n \in Vertices : mark[n] = "done")

-----------------------------------------------------------------------------
\* The outer loop: the first node no visit has reached.
VisitNext ==
  /\ ~SearchOver /\ frames = <<>>
  /\ \E n \in First({m \in Vertices : mark[m] = "unvisited"}) :
       /\ mark' = [mark EXCEPT ![n] = "visiting"]
       /\ frames' = <<Frame(n)>>
  /\ UNCHANGED <<arcs, cycle, layerVars>>

\* Mutant: a node already left is taken for one still on the stack.
LookAtBlind ==
  /\ ~SearchOver /\ frames # <<>> /\ Top.todo # {}
  /\ \E m \in First(Top.todo) :
       \/ /\ mark[m] \in {"visiting", "done"}
          /\ \/ mark[m] = "done" /\ cycle' = <<m>>
             \/ \E i \in DOMAIN frames :
                  frames[i].node = m /\ cycle' = SubSeq(OnStack, i, Len(frames))
          /\ frames' = Past(m)
          /\ UNCHANGED mark
       \/ /\ mark[m] = "unvisited"
          /\ mark' = [mark EXCEPT ![m] = "visiting"]
          /\ frames' = Append(Past(m), Frame(m))
          /\ UNCHANGED cycle
  /\ UNCHANGED <<arcs, layerVars>>

\* One turn of the loop over the successors, in order.
LookAt ==
  /\ ~SearchOver /\ frames # <<>> /\ Top.todo # {}
  /\ \E m \in First(Top.todo) :
       \/ /\ mark[m] = "visiting"
          /\ \E i \in DOMAIN frames :
               frames[i].node = m /\ cycle' = SubSeq(OnStack, i, Len(frames))
          /\ frames' = Past(m)
          /\ UNCHANGED mark
       \/ /\ mark[m] = "unvisited"
          /\ mark' = [mark EXCEPT ![m] = "visiting"]
          /\ frames' = Append(Past(m), Frame(m))
          /\ UNCHANGED cycle
       \/ /\ mark[m] = "done"
          /\ frames' = Past(m)
          /\ UNCHANGED <<mark, cycle>>
  /\ UNCHANGED <<arcs, layerVars>>

\* The end of a visit.
Leave ==
  /\ ~SearchOver /\ frames # <<>> /\ Top.todo = {}
  /\ mark' = [mark EXCEPT ![Top.node] = "done"]
  /\ frames' = SubSeq(frames, 1, Len(frames) - 1)
  /\ UNCHANGED <<arcs, cycle, layerVars>>

-----------------------------------------------------------------------------
Unpeeled == DOMAIN degree
Loose == {n \in Unpeeled : degree[n] = 0}

\* One turn of Layers' loop, once Cycle has answered that there is none.
Peel ==
  /\ SearchOver /\ cycle = <<>> /\ Unpeeled # {}
  /\ layers' = Append(layers, Loose)
  /\ degree' = [n \in Unpeeled \ Loose |-> degree[n] - Cardinality(In(n) \cap Loose)]
  /\ UNCHANGED <<arcs, searchVars>>

-----------------------------------------------------------------------------
GraphInit ==
  /\ arcs \in SUBSET ((Vertices \X Vertices) \ {<<n, n>> : n \in Vertices \ SelfEdges})
  /\ mark = [n \in Vertices |-> "unvisited"]
  /\ frames = <<>> /\ cycle = <<>>
  /\ degree = [n \in Vertices |-> Cardinality(In(n))]
  /\ layers = <<>>

GraphNext == VisitNext \/ LookAt \/ Leave \/ Peel

GraphSpec == GraphInit /\ [][GraphNext]_graphVars

-----------------------------------------------------------------------------
(***************************************************************************)
(* graph.go:92-141.  The search finds a cycle exactly when there is one,   *)
(* and what it returns is one: each consecutive pair, including the wrap   *)
(* from the last to the first, is a real edge.                             *)
(***************************************************************************)
IsCycle(c) ==
  \A i \in DOMAIN c : <<c[i], IF i = Len(c) THEN c[1] ELSE c[i + 1]>> \in arcs

CycleFoundIffThere ==
  SearchOver => IsCycle(cycle) /\ ((cycle # <<>>) <=> HasCycle(Vertices, arcs))

LayerOf(n) == CHOOSE i \in DOMAIN layers : n \in layers[i]

(***************************************************************************)
(* graph.go:143-149.  Every node is in a layer after all of its            *)
(* predecessors and right after one of them: the layering is as flat as    *)
(* the edges allow.                                                        *)
(***************************************************************************)
LayersAreTight ==
  cycle = <<>> /\ Unpeeled = {} =>
    \A n \in Vertices :
      /\ \A m \in In(n) : LayerOf(m) < LayerOf(n)
      /\ LayerOf(n) = 1 \/ \E m \in In(n) : LayerOf(m) = LayerOf(n) - 1

(***************************************************************************)
(* Both answers of graph.go are the right ones, for every graph.           *)
(***************************************************************************)
GraphAnswersAreRight == CycleFoundIffThere /\ LayersAreTight
=============================================================================
