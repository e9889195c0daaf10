------------------------------ MODULE DepGraph ------------------------------
(***************************************************************************)
(* What internal/graph answers about a finished graph.  A graph is a set   *)
(* of nodes and a set of pairs <<from, to>> over it.                       *)
(***************************************************************************)

(***************************************************************************)
(* Whether Graph.Cycle finds a cycle: exactly when some nonempty set of    *)
(* nodes has a predecessor inside the set for each of its members.  The    *)
(* search itself is GraphSearch, checked against this definition.          *)
(***************************************************************************)
HasCycle(ns, es) ==
  \E S \in SUBSET ns : S # {} /\ \A n \in S : \E m \in S : <<m, n>> \in es
=============================================================================
