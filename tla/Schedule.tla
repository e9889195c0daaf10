------------------------------ MODULE Schedule ------------------------------
(***************************************************************************)
(* What a walk promises its caller, with no counters and no bookkeeping:   *)
(* work starts only after everything it depends on is finished, and a      *)
(* failure abandons exactly the unfinished work that depends on it.        *)
(***************************************************************************)
CONSTANT Nodes

VARIABLES nodes, edges, status

scheduleVars == <<nodes, edges, status>>

Enabled(st) ==
  {n \in nodes : st[n] = "unstarted" /\
     \A m \in nodes : <<m, n>> \in edges => st[m] = "done"}

\* Everything reachable from id.
Downstream(id) ==
  {n \in nodes : \A S \in SUBSET nodes :
     (id \in S /\ \A m \in S, k \in nodes : <<m, k>> \in edges => k \in S) => n \in S}

Dispatch(st, D) == [n \in nodes |-> IF n \in D THEN "dispatched" ELSE st[n]]

ScheduleInit ==
  /\ nodes = Nodes
  /\ edges \in SUBSET (nodes \X nodes)
  /\ status = [n \in nodes |-> "unstarted"]

Start ==
  /\ \E D \in SUBSET Enabled(status) : status' = Dispatch(status, D)
  /\ UNCHANGED <<nodes, edges>>

Finish(id) ==
  /\ status[id] = "dispatched"
  /\ LET finished == [status EXCEPT ![id] = "done"]
     IN \E D \in SUBSET Enabled(finished) : status' = Dispatch(finished, D)
  /\ UNCHANGED <<nodes, edges>>

Fail(id) ==
  /\ status[id] = "dispatched"
  /\ status' = [n \in nodes |-> IF n \in Downstream(id) THEN "skipped" ELSE status[n]]
  /\ UNCHANGED <<nodes, edges>>

ScheduleNext == Start \/ \E id \in nodes : Finish(id) \/ Fail(id)

ScheduleSpec == ScheduleInit /\ [][ScheduleNext]_scheduleVars
=============================================================================
