------------------------------ MODULE Planning ------------------------------
(***************************************************************************)
(* internal/cli/plan.go and apply.go's computePlan: a plan is computed for *)
(* whatever configuration, state and observations there are.  The user     *)
(* edits blocks and the world drifts; after each, the plan is computed     *)
(* anew.  Nothing is applied here.                                         *)
(***************************************************************************)
EXTENDS ExecutionGraph

CONSTANTS
  Starts,        \* inputs before any edit
  Blocks(_),     \* the blocks the user may write for an address
  Sightings(_)   \* what refresh may report of a recorded resource

(***************************************************************************)
(* The recorded states considered: the dependencies they record are those  *)
(* of some configuration, and at most one object is left behind at each    *)
(* address, which is as many as the executor ever records.                 *)
(***************************************************************************)
Recorded(st) ==
  /\ DOMAIN st \subseteq Addr
  /\ ~HasCycle(DOMAIN st, Edges(st))
  /\ \A a \in DOMAIN st : \A o, q \in LeftBehind(st[a]) : o = q

ASSUME StartsAssumption ==
  \A inp \in Starts :
    Compiles(inp.cfg) /\ DOMAIN inp.cfg \subseteq Addr /\ Recorded(inp.st)

VARIABLES
  input,    \* what the last plan was computed from
  plan,     \* its operations
  errors    \* the addresses it has an error for

planVars == <<input, plan, errors>>

\* computePlan: the whole plan, errors and all; the state is what it was.
Plans(cfg, obs) ==
  LET inp == [cfg |-> cfg, st |-> input.st, obs |-> obs, protect |-> input.protect] IN
  /\ input' = inp
  /\ plan' = Compute(inp)
  /\ errors' = PlanErrors(inp)

PlanningInit ==
  /\ input \in Starts
  /\ plan = Compute(input)
  /\ errors = PlanErrors(input)

WriteBlock(a) ==
  \E block \in Blocks(a) :
    LET cfg == [b \in DOMAIN input.cfg \cup {a} |-> IF b = a THEN block ELSE input.cfg[b]]
    IN Compiles(cfg) /\ Plans(cfg, input.obs)

DeleteBlock(a) ==
  /\ a \in DOMAIN input.cfg
  /\ LET cfg == [b \in DOMAIN input.cfg \ {a} |-> input.cfg[b]]
     IN Compiles(cfg) /\ Plans(cfg, input.obs)

Refresh(a) ==
  /\ a \in DOMAIN input.st
  /\ \E seen \in Sightings(input.st[a]) :
       Plans(input.cfg,
             [b \in DOMAIN input.obs \cup {a} |-> IF b = a THEN seen ELSE input.obs[b]])

PlanningNext == \E a \in Addr : WriteBlock(a) \/ DeleteBlock(a) \/ Refresh(a)

PlanningSpec == PlanningInit /\ [][PlanningNext]_planVars

-----------------------------------------------------------------------------
\* What the command offers for approval and executes.
Applicable == errors = {}

OpsAt(a) == {op \in plan : op.addr = a /\ op.kind # "destroy_deposed"}

(***************************************************************************)
(* planner.go:47-204.  The shape every consumer of a plan relies on: one   *)
(* operation per address, a cleanup counted apart; only what left          *)
(* configuration is destroyed or forgotten; dependents come from the       *)
(* record for those and from configuration for everything else.            *)
(***************************************************************************)
Kinds == {"create", "update", "replace", "noop", "destroy", "forget", "destroy_deposed"}

WellFormed(inp, ops) ==
  /\ OneOperationPerAddress(ops)
  /\ \A op \in ops :
       /\ op.addr \in DOMAIN inp.cfg \cup DOMAIN inp.st /\ op.kind \in Kinds
       /\ op.kind # "destroy_deposed" =>
            (op.kind \in {"destroy", "forget"} <=> op.addr \notin DOMAIN inp.cfg)
       /\ op.dependents =
            CASE op.kind = "destroy_deposed" -> {}
              [] op.kind \in {"destroy", "forget"} -> {d \in DOMAIN inp.st : op.addr \in inp.st[d].deps}
              [] OTHER -> {d \in DOMAIN inp.cfg : op.addr \in inp.cfg[d].deps}

PlanWellFormed ==
  /\ WellFormed(input, plan)
  /\ errors \subseteq DOMAIN input.cfg \cup DOMAIN input.st

(***************************************************************************)
(* diff.go:394-436, planner.go:280-295.  A reference a plan states as      *)
(* known is the ID of an object that outlives the plan: nothing in the     *)
(* same plan deletes, forgets or replaces it.                              *)
(***************************************************************************)
KnownReferencesSurvive ==
  Applicable =>
    \A op \in plan : \A b \in DOMAIN op.after.ref : op.after.ref[b] # NoObj =>
      \E target \in OpsAt(b) :
        target.kind \in {"noop", "update"} /\ target.obj = op.after.ref[b]

(***************************************************************************)
(* docs/configuration.md:319-321, "Dependents follow automatically": who   *)
(* refers to a resource that gets a new object is part of the same plan,   *)
(* with work of its own to do.                                             *)
(***************************************************************************)
DependentsFollow ==
  Applicable =>
    \A op \in plan : op.kind \in {"create", "replace"} =>
      \A d \in {b \in DOMAIN input.cfg : op.addr \in input.cfg[b].refs} :
        \E follow \in OpsAt(d) : follow.kind \in {"create", "update", "replace"}

(***************************************************************************)
(* What a new object means to the others is in the plan that makes it: no  *)
(* reference to what it replaces survives, and who refers to it takes part.*)
(***************************************************************************)
ReplacementsPropagate == KnownReferencesSurvive /\ DependentsFollow

Executable == OneOperationPerAddress(plan) /\ ~HasCycle(ExecNodes(plan), ExecEdges(plan))

(***************************************************************************)
(* execution.go:69-80.  Without create_before_destroy an applicable plan   *)
(* can always be executed: destroys in reverse order, then creates, and    *)
(* the two directions never close a cycle.                                 *)
(***************************************************************************)
UnflaggedExecutable ==
  Applicable /\ (\A op \in plan : ~op.cbd) => Executable

(***************************************************************************)
(* docs/configuration.md:307-308, "Refusals happen at plan time, so they   *)
(* arrive before any approval rather than part-way through an apply": a    *)
(* plan without errors can be executed.                                    *)
(***************************************************************************)
ApplicableIsExecutable == Applicable => Executable
=============================================================================
