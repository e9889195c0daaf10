------------------------------ MODULE Planner ------------------------------
(***************************************************************************)
(* internal/planner: what planner.Compute decides for a configuration, a   *)
(* state and the observations of a refresh.  Pure operators.               *)
(*                                                                         *)
(* An address is a natural number (canonical address order).  An object is *)
(* <<address, generation>>: what a provider's ID names.  A resource's      *)
(* attributes are abstracted to one attribute that can change in place     *)
(* (mut), one that forces a new object (imm), and one reference (ref) to   *)
(* the computed ID of each resource in its refs.                           *)
(*                                                                         *)
(* An input of planning is a record                                        *)
(*   cfg     address -> [mut, imm, refs, deps, cbd, guards], on the        *)
(*           configured addresses                                          *)
(*   st      address -> [obj, attrs, deps, guards, deposed], on the        *)
(*           recorded ones                                                 *)
(*   obs     address -> [result, attrs], on the refreshed ones             *)
(*   protect the environment's own prevent_destroy                         *)
(***************************************************************************)
EXTENDS Naturals, Sequences, FiniteSets, DepGraph

CONSTANTS
  Addr,           \* resource addresses
  ForceNewRefs    \* addresses whose reference attribute is ForceNew

ASSUME PlannerAssumption ==
  /\ IsFiniteSet(Addr) /\ Addr \subseteq Nat
  /\ ForceNewRefs \subseteq Addr

NoObj == <<>>     \* also an ID that is known only after apply
NoRefs == [a \in {} |-> NoObj]
NoAttrs == [mut |-> 0, imm |-> 0, ref |-> NoRefs]

NoGuards == [prevent_destroy |-> FALSE, retain |-> FALSE, prevent_replace |-> FALSE]

\* The dependencies among the resources of a configuration or of a state.
Edges(rs) == {e \in (DOMAIN rs) \X (DOMAIN rs) : e[1] \in rs[e[2]].deps}

\* Compiling makes every reference a dependency, and refuses a dependency that is
\* not configured, and a cycle.
Compiles(cfg) ==
  /\ \A b \in DOMAIN cfg : cfg[b].refs \subseteq cfg[b].deps /\ cfg[b].deps \subseteq DOMAIN cfg
  /\ ~HasCycle(DOMAIN cfg, Edges(cfg))

-----------------------------------------------------------------------------
(***************************************************************************)
(* What the provider reported, or the record where refresh did not read.   *)
(***************************************************************************)
ReadFailed(inp, a) == a \in DOMAIN inp.obs /\ inp.obs[a].result = "error"
Gone(inp, a) == a \in DOMAIN inp.obs /\ inp.obs[a].result = "gone"
ActualAttrs(inp, a) ==
  IF a \in DOMAIN inp.obs THEN inp.obs[a].attrs ELSE inp.st[a].attrs

(***************************************************************************)
(* diffAttributes: the attributes that change.  An unknown reference is    *)
(* always a change; a reference dropped from configuration is one too.     *)
(***************************************************************************)
ChangedAttrs(want, got) ==
  {n \in {"mut", "imm"} : want[n] # got[n]} \cup
  (IF \/ DOMAIN want.ref # DOMAIN got.ref
      \/ \E b \in DOMAIN want.ref : want.ref[b] = NoObj \/ want.ref[b] # got.ref[b]
   THEN {"ref"} ELSE {})

(***************************************************************************)
(* lifecycleReasons and dependencyReasons: bookkeeping that differs from   *)
(* the record (not from the observation) is a change, never a ForceNew.    *)
(***************************************************************************)
ChangedBookkeeping(rc, rs) ==
  {n \in {"prevent_destroy", "retain"} : rc.guards[n] # rs.guards[n]} \cup
  (IF rc.deps # rs.deps THEN {"depends_on"} ELSE {})

ForceNew(a) == {"imm"} \cup (IF a \in ForceNewRefs THEN {"ref"} ELSE {})

Operation(a, kind, obj, after, rc) ==
  [addr |-> a, kind |-> kind, obj |-> obj, after |-> after,
   cbd |-> rc.cbd, guards |-> rc.guards, dependsOn |-> rc.deps,
   dependents |-> {}]

\* The lifecycle and edges of an operation that carries none.
NoLifecycle == [cbd |-> FALSE, guards |-> NoGuards, deps |-> {}]

Refused(a) == Operation(a, "refused", NoObj, NoAttrs, NoLifecycle)

(***************************************************************************)
(* removalOperation: recorded, no longer configured.  The guards are the   *)
(* recorded ones; retain is looked at before prevent_destroy.              *)
(***************************************************************************)
RemovalKind(inp, a) ==
  LET rs == inp.st[a] IN
  IF Gone(inp, a) \/ rs.guards.retain THEN "forget"
  ELSE IF inp.protect \/ rs.guards.prevent_destroy THEN "refused"
  ELSE "destroy"

RemovalOperation(inp, a) ==
  Operation(a, RemovalKind(inp, a), inp.st[a].obj, NoAttrs, NoLifecycle)

(***************************************************************************)
(* operationFor, with the references finished against known, the IDs of    *)
(* the dependencies decided so far (NoObj: known after apply).             *)
(***************************************************************************)
ConfiguredKind(inp, a, want) ==
  LET rc == inp.cfg[a]
      rs == inp.st[a]
      changed == ChangedAttrs(want, ActualAttrs(inp, a))
  IN IF a \notin DOMAIN inp.st \/ Gone(inp, a) THEN "create"
     ELSE IF changed \cap ForceNew(a) # {}
          THEN (IF rc.guards.prevent_replace THEN "refused" ELSE "replace")
     ELSE IF changed \cup ChangedBookkeeping(rc, rs) # {} THEN "update"
     ELSE "noop"

OperationFor(inp, a, known) ==
  IF ReadFailed(inp, a) THEN Refused(a)
  ELSE IF a \notin DOMAIN inp.cfg THEN RemovalOperation(inp, a)
  ELSE LET rc == inp.cfg[a]
           want == [mut |-> rc.mut, imm |-> rc.imm, ref |-> known]
           obj == IF a \in DOMAIN inp.st THEN inp.st[a].obj ELSE NoObj
       IN Operation(a, ConfiguredKind(inp, a, want), obj, want, rc)

\* Mutant: a replaced object's ID stays in scope.
KnownIDStale(op) == IF op.kind \in {"noop", "update", "replace"} THEN op.obj ELSE NoObj

(***************************************************************************)
(* The ID a dependent sees in scope: an object that stays keeps its        *)
(* computed attributes, a new one has none yet (afterAttributes); an       *)
(* operation that was refused puts nothing in scope.                       *)
(***************************************************************************)
KnownID(op) == IF op.kind \in {"noop", "update"} THEN op.obj ELSE NoObj

(***************************************************************************)
(* resolutionOrder: every dependency is decided before its dependents, and *)
(* leaves its ID in scope for them.                                        *)
(***************************************************************************)
References(inp, a, known) ==
  IF a \in DOMAIN inp.cfg THEN [b \in inp.cfg[a].refs |-> known[b]] ELSE NoRefs

InScope(inp) ==
  LET scope[a \in Addr] == KnownID(OperationFor(inp, a, References(inp, a, scope))) IN scope

Decide(inp) ==
  LET scope == InScope(inp)
  IN [a \in DOMAIN inp.cfg \cup DOMAIN inp.st |-> OperationFor(inp, a, References(inp, a, scope))]

\* Mutant: recorded and configured edges together.
DependentsOfEither(inp, a, kind) ==
  {d \in DOMAIN inp.st : a \in inp.st[d].deps} \cup
  {d \in DOMAIN inp.cfg : a \in inp.cfg[d].deps}

(***************************************************************************)
(* dependentsOf: from the recorded edges for what is destroyed or          *)
(* forgotten, from configuration for everything else.                      *)
(***************************************************************************)
DependentsOf(inp, a, kind) ==
  IF kind \in {"destroy", "forget"}
  THEN {d \in DOMAIN inp.st : a \in inp.st[d].deps}
  ELSE {d \in DOMAIN inp.cfg : a \in inp.cfg[d].deps}

(***************************************************************************)
(* One cleanup per deposed object, whatever else happens at the address.   *)
(* It carries no attributes, no lifecycle and no edges.                    *)
(***************************************************************************)
LeftBehind(rs) == {rs.deposed[i] : i \in DOMAIN rs.deposed}

DeposedOps(inp) ==
  UNION {{Operation(a, "destroy_deposed", o, NoAttrs, NoLifecycle)
            : o \in LeftBehind(inp.st[a])} : a \in DOMAIN inp.st}

(***************************************************************************)
(* Compute.  A plan is the set of its operations; an address whose         *)
(* planning failed contributes none, and makes the plan inapplicable.      *)
(***************************************************************************)
Compute(inp) ==
  LET decided == Decide(inp)
  IN {[decided[a] EXCEPT !.dependents = DependentsOf(inp, a, decided[a].kind)]
        : a \in {b \in DOMAIN decided : decided[b].kind # "refused"}}
     \cup DeposedOps(inp)

PlanErrors(inp) ==
  {a \in DOMAIN inp.cfg \cup DOMAIN inp.st : Decide(inp)[a].kind = "refused"}
=============================================================================
