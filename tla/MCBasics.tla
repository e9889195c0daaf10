------------------------------ MODULE MCBasics ------------------------------
(***************************************************************************)
(* The parts everything else stands on: the algorithms of internal/graph,  *)
(* the fan-out of internal/refresh, and one environment's lock and state   *)
(* file.  They share nothing, so a behaviour is one of them; the variables *)
(* of the others are as after a run that had nothing to do.                *)
(*                                                                         *)
(* The lock has one run that takes it, one that is refused or comes after, *)
(* and one whose plan was saved before both.                               *)
(***************************************************************************)
EXTENDS Walk, GraphSearch, Refresh, StateLock

CONSTANTS p1, p2, p3, u1

VARIABLE part
basicVars == <<walkVars, graphVars, refreshVars, lockVars, part>>

NoWalk == nodes = Nodes /\ edges = {} /\ remaining = [n \in Nodes |-> 0]
          /\ status = [n \in Nodes |-> "unstarted"] /\ left = 0
NoSearch == arcs = {} /\ mark = [n \in Vertices |-> "unvisited"] /\ frames = <<>>
            /\ cycle = <<>> /\ degree = [n \in {} |-> 0] /\ layers = <<Vertices>>
NoRefresh == next = 1 /\ worker = [i \in Resources |-> "unborn"] /\ global = 0
             /\ room = [p \in Providers |-> 0] /\ tries = [i \in Resources |-> 0]
             /\ obs = [i \in Resources |-> "error"] /\ there = [i \in Resources |-> FALSE]
             /\ ctx = "live" /\ returned = TRUE

BasicInit ==
  /\ LockInit
  /\ \/ part = "walk" /\ WalkInit /\ NoSearch /\ NoRefresh
     \/ part = "search" /\ NoWalk /\ GraphInit /\ NoRefresh
     \/ part = "refresh" /\ NoWalk /\ NoSearch /\ RefreshInit
     \/ part = "lock" /\ NoWalk /\ NoSearch /\ NoRefresh

BasicNext ==
  \/ part = "walk" /\ WalkNext /\ UNCHANGED <<graphVars, refreshVars, lockVars, part>>
  \/ part = "search" /\ GraphNext /\ UNCHANGED <<walkVars, refreshVars, lockVars, part>>
  \/ part = "refresh" /\ RefreshNext /\ UNCHANGED <<walkVars, graphVars, lockVars, part>>
  \/ part = "lock" /\ LockNext /\ UNCHANGED <<walkVars, graphVars, refreshVars, part>>

Part(p, A) == part = p /\ A

BasicSpec ==
  /\ BasicInit /\ [][BasicNext]_basicVars
  /\ WF_refreshVars(Part("refresh", OwnerStep))
  /\ \A i \in Resources : WF_refreshVars(Part("refresh", Work(i)))
  /\ \A p \in Procs : WF_lockVars(Part("lock", Working(p)))

Shared == <<"p", "p", "q", "unregistered">>
ThreeProcs == {p1, p2, p3}
TwoProcs == {p1, p2}
OnePerson == {u1}
=============================================================================
