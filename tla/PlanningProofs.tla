--------------------------- MODULE PlanningProofs ---------------------------
(***************************************************************************)
(* For every set of addresses, every recorded state and every sequence of  *)
(* edits: a plan has the shape the executor relies on, and one without     *)
(* create_before_destroy can always be executed.                           *)
(***************************************************************************)
EXTENDS Planning, FiniteSetTheorems, WellFoundedInduction, TLAPS

USE PlannerAssumption, StartsAssumption

\* What every input of planning has in common.
Sound(inp) == Compiles(inp.cfg) /\ Recorded(inp.st)

-----------------------------------------------------------------------------
(***************************************************************************)
(* Compute, operation by operation.                                        *)
(***************************************************************************)
LEMMA DecidedShape ==
  ASSUME NEW inp, NEW a \in DOMAIN inp.cfg \cup DOMAIN inp.st
  PROVE  /\ Decide(inp)[a].addr = a
         /\ Decide(inp)[a].kind \in Kinds \cup {"refused"}
         /\ Decide(inp)[a].kind # "destroy_deposed"
         /\ Decide(inp)[a].kind # "refused" =>
              (Decide(inp)[a].kind \in {"destroy", "forget"} <=> a \notin DOMAIN inp.cfg)
  <1>1. PICK known : Decide(inp)[a] = OperationFor(inp, a, known)
    BY DEF Decide
  <1>2. OperationFor(inp, a, known).addr = a
    BY DEF OperationFor, Refused, RemovalOperation, Operation
  <1>3. \A want : ConfiguredKind(inp, a, want) \in {"create", "refused", "replace", "update", "noop"}
    BY DEF ConfiguredKind
  <1>4. RemovalKind(inp, a) \in {"forget", "refused", "destroy"}
    BY DEF RemovalKind
  <1>5. /\ OperationFor(inp, a, known).kind \in
              {"create", "refused", "replace", "update", "noop", "forget", "destroy"}
        /\ OperationFor(inp, a, known).kind # "refused" =>
             (OperationFor(inp, a, known).kind \in {"destroy", "forget"} <=> a \notin DOMAIN inp.cfg)
    BY <1>3, <1>4 DEF OperationFor, Refused, RemovalOperation, Operation
  <1> QED BY <1>1, <1>2, <1>5 DEF Kinds

LEMMA DecidedFields ==
  ASSUME NEW inp, NEW a \in DOMAIN inp.cfg \cup DOMAIN inp.st, NEW ds
  PROVE  LET op == Decide(inp)[a]
             planned == [op EXCEPT !.dependents = ds]
         IN /\ planned.addr = op.addr /\ planned.kind = op.kind /\ planned.dependents = ds
  <1>1. PICK known : Decide(inp)[a] = OperationFor(inp, a, known)
    BY DEF Decide
  <1>2. \E kind, obj, after, rc : Decide(inp)[a] = Operation(a, kind, obj, after, rc)
    BY <1>1 DEF OperationFor, Refused, RemovalOperation
  <1> QED BY <1>2 DEF Operation

\* An operation of a plan is a cleanup, or what was decided for its address.
LEMMA ComputedShape ==
  ASSUME NEW inp, NEW op \in Compute(inp), op \notin DeposedOps(inp)
  PROVE  /\ op.addr \in DOMAIN inp.cfg \cup DOMAIN inp.st
         /\ op.kind \in Kinds \ {"destroy_deposed"}
         /\ op.kind \in {"destroy", "forget"} <=> op.addr \notin DOMAIN inp.cfg
         /\ op.dependents = DependentsOf(inp, op.addr, op.kind)
         /\ op.kind = Decide(inp)[op.addr].kind
         /\ op = [Decide(inp)[op.addr] EXCEPT !.dependents = DependentsOf(inp, op.addr, op.kind)]
  <1>1. PICK a \in DOMAIN Decide(inp) :
          /\ Decide(inp)[a].kind # "refused"
          /\ op = [Decide(inp)[a] EXCEPT !.dependents = DependentsOf(inp, a, Decide(inp)[a].kind)]
    BY DEF Compute
  <1>2. a \in DOMAIN inp.cfg \cup DOMAIN inp.st
    BY <1>1 DEF Decide
  <1>3. /\ op.addr = a /\ op.kind = Decide(inp)[a].kind
        /\ op.dependents = DependentsOf(inp, a, Decide(inp)[a].kind)
    BY <1>1, <1>2, DecidedFields, DecidedShape
  <1> QED BY <1>1, <1>2, <1>3, DecidedShape

LEMMA CleanupShape ==
  ASSUME NEW inp, NEW op \in DeposedOps(inp)
  PROVE  /\ op.addr \in DOMAIN inp.st /\ op.kind = "destroy_deposed" /\ op.dependents = {}
         /\ \E o \in LeftBehind(inp.st[op.addr]) :
              op = Operation(op.addr, "destroy_deposed", o, NoAttrs, NoLifecycle)
  <1>1. PICK a \in DOMAIN inp.st : \E o \in LeftBehind(inp.st[a]) :
          op = Operation(a, "destroy_deposed", o, NoAttrs, NoLifecycle)
    BY DEF DeposedOps
  <1>2. op.addr = a /\ op.kind = "destroy_deposed" /\ op.dependents = {}
    BY <1>1 DEF Operation
  <1> QED BY <1>1, <1>2

(***************************************************************************)
(* Whatever is planned has the shape the executor relies on.               *)
(***************************************************************************)
LEMMA ComputeWellFormed ==
  ASSUME NEW inp, Sound(inp)
  PROVE  WellFormed(inp, Compute(inp))
  <1> DEFINE ops == Compute(inp)
  <1>1. \A op \in ops : op \in DeposedOps(inp) <=> op.kind = "destroy_deposed"
    BY ComputedShape, CleanupShape
  <1>2. OneOperationPerAddress(ops)
    <2>1. SUFFICES ASSUME NEW p \in ops, NEW q \in ops, p.addr = q.addr,
                          (p.kind = "destroy_deposed") = (q.kind = "destroy_deposed")
                   PROVE  p = q
      BY DEF OneOperationPerAddress
    <2>2. CASE p \in DeposedOps(inp)
      <3>1. q \in DeposedOps(inp)
        BY <1>1, <2>1, <2>2
      <3>2. \A o, o2 \in LeftBehind(inp.st[p.addr]) : o = o2
        BY <2>2, CleanupShape DEF Sound, Recorded
      <3> QED BY <2>1, <2>2, <3>1, <3>2, CleanupShape
    <2>3. CASE p \notin DeposedOps(inp)
      <3>1. q \notin DeposedOps(inp)
        BY <1>1, <2>1, <2>3
      <3>2. /\ p = [Decide(inp)[p.addr] EXCEPT !.dependents = DependentsOf(inp, p.addr, p.kind)]
            /\ q = [Decide(inp)[q.addr] EXCEPT !.dependents = DependentsOf(inp, q.addr, q.kind)]
        BY <2>3, <3>1, ComputedShape
      <3>3. p.addr \in DOMAIN inp.cfg \cup DOMAIN inp.st
        BY <2>3, ComputedShape
      <3>4. p.kind = Decide(inp)[p.addr].kind /\ q.kind = Decide(inp)[p.addr].kind
        BY <2>1, <2>3, <3>1, ComputedShape
      <3> QED BY <2>1, <3>2, <3>4
    <2> QED BY <2>2, <2>3
  <1>3. ASSUME NEW op \in ops, op \in DeposedOps(inp)
        PROVE  op.addr \in DOMAIN inp.st /\ op.kind = "destroy_deposed" /\ op.dependents = {}
    BY <1>3, CleanupShape
  <1>4. ASSUME NEW op \in ops, op \notin DeposedOps(inp)
        PROVE  /\ op.addr \in DOMAIN inp.cfg \cup DOMAIN inp.st
               /\ op.kind \in Kinds \ {"destroy_deposed"}
               /\ op.kind \in {"destroy", "forget"} <=> op.addr \notin DOMAIN inp.cfg
               /\ op.dependents = DependentsOf(inp, op.addr, op.kind)
    BY <1>4, ComputedShape
  <1> QED BY <1>2, <1>3, <1>4 DEF WellFormed, Kinds, DependentsOf

-----------------------------------------------------------------------------
(***************************************************************************)
(* The execution graph.  A node stands for one phase of an operation that  *)
(* is not a cleanup, or for a cleanup, which has no edges.                 *)
(***************************************************************************)
LEMMA HasShape ==
  ASSUME NEW ops, NEW a, NEW ph \in {"destroy", "create"}, NEW n \in Has(ops, a, ph)
  PROVE  /\ n.addr = a /\ n.phase = ph
         /\ \E op \in ops : /\ op.addr = a /\ op.kind # "destroy_deposed"
                             /\ n = OpNode(op, ph) /\ ph \in Phases(op)
  <1>1. PICK op \in ops : \E ph2 \in Phases(op) : n = OpNode(op, ph2)
    BY DEF Has, ExecNodes
  <1>2. n.addr = a /\ n.phase = ph /\ n.kind # "destroy_deposed"
    BY DEF Has
  <1>3. n.addr = op.addr /\ n.kind = op.kind /\ n = OpNode(op, ph) /\ ph \in Phases(op)
    BY <1>1, <1>2 DEF OpNode
  <1> QED BY <1>1, <1>2, <1>3

\* The dependents the graph is built with are those of the operation itself.
LEMMA IndexedShape ==
  ASSUME NEW ops, OneOperationPerAddress(ops), NEW op \in ops, op.kind # "destroy_deposed",
         \A q \in ops : q.kind = "destroy_deposed" => q.dependents = {}
  PROVE  IndexedDependents(ops, op.addr) \subseteq op.dependents
  <1> DEFINE here == {q \in ops : q.addr = op.addr}
             cleanups == {q \in here : q.kind = "destroy_deposed"}
             last == CHOOSE q \in (IF cleanups # {} THEN cleanups ELSE here) : TRUE
  <1>1. IndexedDependents(ops, op.addr) = last.dependents
    BY DEF IndexedDependents, LastAt
  <1>2. CASE cleanups # {}
    <2>1. last \in cleanups
      BY <1>2
    <2> QED BY <1>1, <2>1
  <1>3. CASE cleanups = {}
    <2>1. last \in here /\ last.kind # "destroy_deposed"
      BY <1>3
    <2>2. last = op
      BY <2>1 DEF OneOperationPerAddress
    <2> QED BY <1>1, <2>2
  <1> QED BY <1>2, <1>3

(***************************************************************************)
(* Without the flag there are three kinds of edge, all from target to      *)
(* dependent but one: a create before the dependent's create, the          *)
(* dependent's destroy before a destroy, and any destroy before a create.  *)
(***************************************************************************)
Ordered(ops, m, n) ==
  /\ n.phase = "create" \/ m.phase = "destroy"
  /\ m.phase = "create" => \E op \in ops :
       op.addr = m.addr /\ op.kind \in {"create", "update", "replace"} /\ n.addr \in op.dependents
  /\ n.phase = "destroy" => \E op \in ops :
       op.addr = n.addr /\ op.kind \in {"destroy", "forget", "replace"} /\ m.addr \in op.dependents

LEMMA UnflaggedEdges ==
  ASSUME NEW ops, OneOperationPerAddress(ops), \A op \in ops : ~op.cbd,
         \A op \in ops : op.kind \in Kinds,
         \A op \in ops : op.kind = "destroy_deposed" => op.dependents = {},
         NEW m, NEW n, <<m, n>> \in ExecEdges(ops)
  PROVE  Ordered(ops, m, n)
  <1>1. CASE <<m, n>> \in PhaseEdges(ops)
    <2> DEFINE of(op) == LET d == Has(ops, op.addr, "destroy")
                             c == Has(ops, op.addr, "create")
                         IN IF op.cbd THEN c \X d ELSE d \X c
    <2>0. PICK op \in ops : <<m, n>> \in of(op)
      BY <1>1, Zenon DEF PhaseEdges
    <2>1. m \in Has(ops, op.addr, "destroy") /\ n \in Has(ops, op.addr, "create")
      BY <2>0
    <2>2. m.phase = "destroy" /\ n.phase = "create"
      BY <2>1, HasShape
    <2> QED BY <2>2 DEF Ordered
  <1>2. CASE <<m, n>> \notin PhaseEdges(ops)
    <2>1. PICK t \in ops : /\ t.kind # "noop"
                          /\ \E d \in IndexedDependents(ops, t.addr) :
                               <<m, n>> \in AddEdges(ops, t.addr, d, t.cbd)
      BY <1>2 DEF ExecEdges
    <2>2. PICK d \in IndexedDependents(ops, t.addr) : <<m, n>> \in AddEdges(ops, t.addr, d, t.cbd)
      BY <2>1
    <2>3. CASE m \in Has(ops, t.addr, "create") /\ n \in Has(ops, d, "create")
      <3>1. PICK op \in ops : /\ op.addr = t.addr /\ op.kind # "destroy_deposed"
                             /\ "create" \in Phases(op)
        BY <2>3, HasShape
      <3>2. op.kind \in {"create", "update", "replace"}
        BY <3>1 DEF Phases, Kinds
      <3>3. d \in op.dependents
        BY <2>2, <3>1, IndexedShape
      <3>4. m.phase = "create" /\ m.addr = t.addr /\ n.phase = "create" /\ n.addr = d
        BY <2>3, HasShape
      <3> QED BY <3>1, <3>2, <3>3, <3>4 DEF Ordered
    <2>4. CASE m \in Has(ops, d, "destroy") /\ n \in Has(ops, t.addr, "destroy")
      <3>1. PICK op \in ops : /\ op.addr = t.addr /\ op.kind # "destroy_deposed"
                             /\ "destroy" \in Phases(op)
        BY <2>4, HasShape
      <3>2. op.kind \in {"destroy", "forget", "replace"}
        BY <3>1 DEF Phases, Kinds
      <3>3. d \in op.dependents
        BY <2>2, <3>1, IndexedShape
      <3>4. m.phase = "destroy" /\ m.addr = d /\ n.phase = "destroy" /\ n.addr = t.addr
        BY <2>4, HasShape
      <3> QED BY <3>1, <3>2, <3>3, <3>4 DEF Ordered
    <2>5. CASE m \in Has(ops, d, "destroy") /\ n \in Has(ops, t.addr, "create")
      <3>1. m.phase = "destroy" /\ n.phase = "create"
        BY <2>5, HasShape
      <3> QED BY <3>1 DEF Ordered
    <2>6. ~t.cbd
      BY <2>1
    <2> QED BY <2>2, <2>3, <2>4, <2>5, <2>6 DEF AddEdges
  <1> QED BY <1>1, <1>2

(***************************************************************************)
(* A set of addresses in which each depends on another closes a cycle.     *)
(***************************************************************************)
LEMMA NoneAllDepend ==
  ASSUME NEW rs, ~HasCycle(DOMAIN rs, Edges(rs)), NEW S \in SUBSET DOMAIN rs,
         \A a \in S : \E b \in S : b \in rs[a].deps
  PROVE  S = {}
  BY DEF HasCycle, Edges

(***************************************************************************)
(* So does a finite one in which each is depended on by another: of the    *)
(* least such set every member depends on a member, or leaving out those   *)
(* that do not would make a smaller one.                                   *)
(***************************************************************************)
LEMMA NoneAllDependedOn ==
  ASSUME NEW rs, ~HasCycle(DOMAIN rs, Edges(rs)), NEW S \in SUBSET DOMAIN rs,
         IsFiniteSet(S), \A a \in S : \E b \in S : a \in rs[b].deps
  PROVE  S = {}
  <1> DEFINE Closed(T) == T # {} /\ \A a \in T : \E b \in T : a \in rs[b].deps
             Sets == {T \in SUBSET S : Closed(T)}
  <1>1. SUFFICES ASSUME S # {} PROVE FALSE
    OBVIOUS
  <1>2. Sets \subseteq FiniteSubsetsOf(S) /\ Sets # {}
    BY <1>1, FS_Subset DEF FiniteSubsetsOf
  <1>3. PICK T \in Sets : \A U \in Sets : <<U, T>> \notin StrictSubsetOrdering(S)
    <2> HIDE DEF Sets
    <2> QED BY <1>2, FS_StrictSubsetOrderingWellFounded, WFMin
  <1>4. T \in SUBSET S /\ Closed(T)
    BY <1>3
  <1>5. \A U \in Sets : U \in SUBSET T => U = T
    BY <1>3 DEF StrictSubsetOrdering
  <1> DEFINE U == {a \in T : \E b \in T : b \in rs[a].deps}
  <1>6. U \in Sets /\ U \in SUBSET T
    BY <1>4
  <1>7. U = T
    BY <1>5, <1>6
  <1>8. T = {}
    <2>1. \A a \in T : \E b \in T : b \in rs[a].deps
      BY <1>7
    <2>2. T \in SUBSET DOMAIN rs
      BY <1>4
    <2> HIDE DEF U, Closed, Sets
    <2> QED BY <2>1, <2>2, NoneAllDepend
  <1> QED BY <1>4, <1>8

(***************************************************************************)
(* Deletions follow the recorded edges among what left configuration and   *)
(* the configured ones among what is replaced; no deletion of the first    *)
(* kind waits on one that depends on it through the second.                *)
(***************************************************************************)
THEOREM UnflaggedAcyclic ==
  ASSUME NEW inp, NEW ops, Sound(inp), IsFiniteSet(DOMAIN inp.cfg \cup DOMAIN inp.st),
         WellFormed(inp, ops), \A op \in ops : ~op.cbd
  PROVE  ~HasCycle(ExecNodes(ops), ExecEdges(ops))
  <1>1. SUFFICES ASSUME NEW S \in SUBSET ExecNodes(ops), S # {},
                        \A n \in S : \E m \in S : <<m, n>> \in ExecEdges(ops)
                 PROVE  FALSE
    BY DEF HasCycle
  <1>2. \A m \in S, n \in S : <<m, n>> \in ExecEdges(ops) => Ordered(ops, m, n)
    BY UnflaggedEdges DEF WellFormed
  <1>3. \A n \in S : n.phase \in {"create", "destroy"}
    <2>1. ASSUME NEW op \in ops PROVE Phases(op) \subseteq {"create", "destroy"}
      <3>1. op.kind \in Kinds
        BY DEF WellFormed
      <3> QED BY <3>1 DEF Phases, Kinds
    <2>2. ASSUME NEW op \in ops, NEW ph \in Phases(op)
          PROVE  OpNode(op, ph).phase \in {"create", "destroy"}
      BY <2>1, <2>2 DEF OpNode
    <2>3. ASSUME NEW n \in S PROVE \E op \in ops : \E ph \in Phases(op) : n = OpNode(op, ph)
      BY Zenon DEF ExecNodes
    <2> QED BY <2>2, <2>3
  <1>4. CASE \A n \in S : n.phase = "create"
    <2> DEFINE A == {n.addr : n \in S}
    <2>1. ASSUME NEW n \in S PROVE \E m \in S : n.addr \in DOMAIN inp.cfg /\ m.addr \in inp.cfg[n.addr].deps
      <3>1. PICK m \in S : Ordered(ops, m, n)
        BY <1>1, <1>2
      <3>2. PICK op \in ops : /\ op.addr = m.addr /\ op.kind \in {"create", "update", "replace"}
                             /\ n.addr \in op.dependents
        BY <1>4, <3>1 DEF Ordered
      <3>3. op.dependents = {d \in DOMAIN inp.cfg : op.addr \in inp.cfg[d].deps}
        BY <3>2 DEF WellFormed
      <3> QED BY <3>2, <3>3
    <2>2. A \in SUBSET DOMAIN inp.cfg /\ \A a \in A : \E b \in A : b \in inp.cfg[a].deps
      BY <2>1
    <2>3. A # {}
      BY <1>1
    <2> HIDE DEF A
    <2> QED BY <2>2, <2>3, NoneAllDepend DEF Sound, Compiles
  <1>5. CASE \E n \in S : n.phase = "destroy"
    <2> DEFINE D == {n \in S : n.phase = "destroy"}
               A == {n.addr : n \in D}
               C == A \cap DOMAIN inp.cfg
    <2>1. ASSUME NEW n \in D
          PROVE  \E m \in D, op \in ops : /\ op.addr = n.addr /\ m.addr \in op.dependents
                                         /\ op.kind \in {"destroy", "forget", "replace"}
      <3>1. PICK m \in S : Ordered(ops, m, n)
        BY <1>1, <1>2
      <3> QED BY <3>1 DEF Ordered
    <2>2. \A a \in A : \E b \in A :
             \/ a \in DOMAIN inp.cfg /\ b \in DOMAIN inp.cfg /\ a \in inp.cfg[b].deps
             \/ a \notin DOMAIN inp.cfg /\ a \in DOMAIN inp.st /\ b \in DOMAIN inp.st /\ a \in inp.st[b].deps
      <3>1. SUFFICES ASSUME NEW n \in D
                     PROVE  \E m \in D :
                              \/ /\ n.addr \in DOMAIN inp.cfg /\ m.addr \in DOMAIN inp.cfg
                                 /\ n.addr \in inp.cfg[m.addr].deps
                              \/ /\ n.addr \notin DOMAIN inp.cfg /\ n.addr \in DOMAIN inp.st
                                 /\ m.addr \in DOMAIN inp.st /\ n.addr \in inp.st[m.addr].deps
        OBVIOUS
      <3>2. PICK m \in D, op \in ops : /\ op.addr = n.addr /\ m.addr \in op.dependents
                                       /\ op.kind \in {"destroy", "forget", "replace"}
        BY <2>1
      <3>3. CASE op.kind = "replace"
        BY <3>2, <3>3 DEF WellFormed
      <3>4. CASE op.kind \in {"destroy", "forget"}
        BY <3>2, <3>4 DEF WellFormed
      <3> QED BY <3>2, <3>3, <3>4
    <2>3. A # {} /\ A \in SUBSET (DOMAIN inp.cfg \cup DOMAIN inp.st)
      BY <1>5, <2>2
    <2> HIDE DEF D, A
    <2>4. C = {}
      <3>1. C \in SUBSET DOMAIN inp.cfg /\ \A a \in C : \E b \in C : a \in inp.cfg[b].deps
        BY <2>2
      <3>2. IsFiniteSet(C)
        BY <2>3, FS_Subset
      <3> HIDE DEF C
      <3> QED BY <3>1, <3>2, NoneAllDependedOn DEF Sound, Compiles
    <2>5. A \in SUBSET DOMAIN inp.st /\ \A a \in A : \E b \in A : a \in inp.st[b].deps
      BY <2>2, <2>3, <2>4
    <2>6. IsFiniteSet(A)
      BY <2>3, FS_Subset
    <2> QED BY <2>3, <2>5, <2>6, NoneAllDependedOn DEF Sound, Recorded
  <1> QED BY <1>3, <1>4, <1>5

-----------------------------------------------------------------------------
(***************************************************************************)
(* Deciding in dependency order.  What is in scope is defined by itself;   *)
(* such a function exists because references close no cycle: of the sets   *)
(* of addresses closed under reference that have one, the largest is all   *)
(* addresses, or it could be extended by an address that refers to nothing *)
(* outside.                                                                *)
(***************************************************************************)
RefsOf(inp, a) == IF a \in DOMAIN inp.cfg THEN inp.cfg[a].refs ELSE {}
ScopedOn(inp, S, f) == f = [a \in S |-> KnownID(OperationFor(inp, a, References(inp, a, f)))]
Scoped(inp) == {S \in SUBSET Addr : /\ \A a \in S : RefsOf(inp, a) \subseteq S
                                    /\ \E f : ScopedOn(inp, S, f)}

LEMMA ReferencesLocal ==
  ASSUME NEW inp, NEW a, NEW f, NEW g, \A b \in RefsOf(inp, a) : f[b] = g[b]
  PROVE  References(inp, a, f) = References(inp, a, g)
  BY DEF References, RefsOf

LEMMA ScopeExtends ==
  ASSUME NEW inp, NEW S \in Scoped(inp), NEW a \in Addr \ S, RefsOf(inp, a) \subseteq S
  PROVE  S \cup {a} \in Scoped(inp)
  <1>1. PICK f : ScopedOn(inp, S, f)
    BY DEF Scoped
  <1> DEFINE new == KnownID(OperationFor(inp, a, References(inp, a, f)))
             g == [b \in S \cup {a} |-> IF b = a THEN new ELSE f[b]]
             T == S \cup {a}
  <1>2. \A b \in S : g[b] = f[b]
    OBVIOUS
  <1>3. \A b \in T : RefsOf(inp, b) \subseteq S
    BY DEF Scoped
  <1>4. \A b \in T : References(inp, b, g) = References(inp, b, f)
    <2> HIDE DEF g, T
    <2> QED BY <1>2, <1>3, ReferencesLocal
  <1>5. \A b \in S : f[b] = KnownID(OperationFor(inp, b, References(inp, b, f)))
    BY <1>1 DEF ScopedOn
  <1>6. \A b \in T : g[b] = KnownID(OperationFor(inp, b, References(inp, b, g)))
    <2> SUFFICES ASSUME NEW b \in T PROVE g[b] = KnownID(OperationFor(inp, b, References(inp, b, f)))
      BY <1>4
    <2> QED BY <1>5
  <1>7. g = [b \in T |-> g[b]]
    OBVIOUS
  <1>8. ScopedOn(inp, T, g)
    <2> HIDE DEF g, T
    <2> QED BY <1>6, <1>7 DEF ScopedOn
  <1> QED BY <1>3, <1>8 DEF Scoped

LEMMA ScopeExists ==
  ASSUME NEW inp, Compiles(inp.cfg), DOMAIN inp.cfg \subseteq Addr
  PROVE  ScopedOn(inp, Addr, InScope(inp))
  <1> DEFINE Rest == {Addr \ S : S \in Scoped(inp)}
  <1>1. {} \in Scoped(inp)
    <2>1. ScopedOn(inp, {}, [a \in {} |-> NoObj])
      BY DEF ScopedOn
    <2> QED BY <2>1 DEF Scoped
  <1>2. Rest # {} /\ Rest \subseteq FiniteSubsetsOf(Addr)
    BY <1>1, FS_Subset DEF FiniteSubsetsOf
  <1>3. PICK R \in Rest : \A Q \in Rest : <<Q, R>> \notin StrictSubsetOrdering(Addr)
    <2> HIDE DEF Rest
    <2> QED BY <1>2, FS_StrictSubsetOrderingWellFounded, WFMin
  <1>4. PICK S \in Scoped(inp) : R = Addr \ S
    BY <1>3
  <1>5. \A a \in R : ~(RefsOf(inp, a) \subseteq S)
    <2> SUFFICES ASSUME NEW a \in R, RefsOf(inp, a) \subseteq S PROVE FALSE
      OBVIOUS
    <2>1. S \cup {a} \in Scoped(inp)
      BY <1>4, ScopeExtends
    <2>2. Addr \ (S \cup {a}) \in Rest
      BY <2>1
    <2>3. <<Addr \ (S \cup {a}), R>> \in StrictSubsetOrdering(Addr)
      BY <1>4 DEF StrictSubsetOrdering
    <2> QED BY <1>3, <2>2, <2>3
  <1>6. R = {}
    <2>1. R \subseteq Addr /\ \A a \in R : \E b \in R : a \in DOMAIN inp.cfg /\ b \in inp.cfg[a].deps
      <3> SUFFICES ASSUME NEW a \in R PROVE \E b \in R : a \in DOMAIN inp.cfg /\ b \in inp.cfg[a].deps
        BY <1>4
      <3>1. PICK b \in RefsOf(inp, a) : b \notin S
        BY <1>5
      <3>2. a \in DOMAIN inp.cfg /\ b \in inp.cfg[a].refs
        BY <3>1 DEF RefsOf
      <3>3. b \in inp.cfg[a].deps /\ b \in DOMAIN inp.cfg
        BY <3>2 DEF Compiles
      <3> QED BY <1>4, <3>1, <3>2, <3>3
    <2>2. R \in SUBSET DOMAIN inp.cfg
      BY <2>1
    <2> QED BY <2>1, <2>2, NoneAllDepend DEF Compiles
  <1>7. S = Addr
    BY <1>4, <1>6 DEF Scoped
  <1>8. \E f : ScopedOn(inp, Addr, f)
    BY <1>7 DEF Scoped
  <1>9. InScope(inp) = CHOOSE f : ScopedOn(inp, Addr, f)
    BY DEF InScope, ScopedOn
  <1> QED BY <1>8, <1>9

\* An address sees of another what was decided for it.
LEMMA ScopeIsDecided ==
  ASSUME NEW inp, Compiles(inp.cfg), DOMAIN inp.cfg \subseteq Addr, NEW b \in DOMAIN inp.cfg
  PROVE  InScope(inp)[b] = KnownID(Decide(inp)[b])
  BY ScopeExists DEF ScopedOn, Decide

\* What a plan says of an address is what was decided for it.
LEMMA DecidedIsPlanned ==
  ASSUME NEW inp, PlanErrors(inp) = {}, NEW a \in DOMAIN inp.cfg \cup DOMAIN inp.st
  PROVE  \E op \in Compute(inp) : /\ op.addr = a /\ op.kind = Decide(inp)[a].kind
                                  /\ op.obj = Decide(inp)[a].obj
                                  /\ op.kind \notin {"destroy_deposed", "refused"}
  <1>1. a \in DOMAIN Decide(inp) /\ Decide(inp)[a].kind # "refused"
    BY DEF PlanErrors, Decide
  <1> DEFINE op == [Decide(inp)[a] EXCEPT !.dependents = DependentsOf(inp, a, Decide(inp)[a].kind)]
  <1>2. op \in Compute(inp)
    BY <1>1 DEF Compute
  <1>3. op.addr = a /\ op.kind = Decide(inp)[a].kind
    BY DecidedFields, DecidedShape
  <1>4. op.obj = Decide(inp)[a].obj
    <2>1. \E kind, obj, after, rc : Decide(inp)[a] = Operation(a, kind, obj, after, rc)
      BY DEF Decide, OperationFor, Refused, RemovalOperation
    <2> QED BY <2>1 DEF Operation
  <1>5. Decide(inp)[a].kind \notin {"destroy_deposed", "refused"}
    BY <1>1, DecidedShape
  <1> HIDE DEF op
  <1> QED BY <1>2, <1>3, <1>4, <1>5

\* The attributes of a planned operation are those of its decision.
LEMMA PlannedAfter ==
  ASSUME NEW inp, NEW op \in Compute(inp), op \notin DeposedOps(inp)
  PROVE  op.after = Decide(inp)[op.addr].after /\ op.obj = Decide(inp)[op.addr].obj
  <1>1. /\ op = [Decide(inp)[op.addr] EXCEPT !.dependents = DependentsOf(inp, op.addr, op.kind)]
        /\ op.addr \in DOMAIN inp.cfg \cup DOMAIN inp.st
    BY ComputedShape
  <1>2. \E a, kind, obj, after, rc : Decide(inp)[op.addr] = Operation(a, kind, obj, after, rc)
    BY <1>1 DEF Decide, OperationFor, Refused, RemovalOperation
  <1> QED BY <1>1, <1>2 DEF Operation

LEMMA SurvivesComputed ==
  ASSUME NEW inp, Sound(inp), DOMAIN inp.cfg \subseteq Addr, PlanErrors(inp) = {},
         NEW op \in Compute(inp), NEW b \in DOMAIN op.after.ref, op.after.ref[b] # NoObj
  PROVE  \E target \in Compute(inp) :
           /\ target.addr = b /\ target.kind \in {"noop", "update"} /\ target.obj = op.after.ref[b]
  <1> DEFINE a == op.addr
  <1>1. DOMAIN NoAttrs.ref = {}
    BY DEF NoAttrs, NoRefs
  <1>2. op \notin DeposedOps(inp)
    <2> SUFFICES ASSUME op \in DeposedOps(inp) PROVE FALSE
      OBVIOUS
    <2>1. op.after = NoAttrs
      BY CleanupShape DEF Operation
    <2> QED BY <1>1, <2>1
  <1>3. a \in DOMAIN inp.cfg \cup DOMAIN inp.st /\ op.after = Decide(inp)[a].after
    BY <1>2, ComputedShape, PlannedAfter
  <1>4. Decide(inp)[a] = OperationFor(inp, a, References(inp, a, InScope(inp)))
    BY <1>3 DEF Decide
  <1>5. a \in DOMAIN inp.cfg /\ ~ReadFailed(inp, a)
    BY <1>1, <1>3, <1>4 DEF OperationFor, Refused, RemovalOperation, Operation
  <1>6. op.after.ref = References(inp, a, InScope(inp))
    BY <1>3, <1>4, <1>5 DEF OperationFor, Operation
  <1>7. b \in inp.cfg[a].refs /\ op.after.ref[b] = InScope(inp)[b]
    BY <1>5, <1>6 DEF References
  <1>8. b \in DOMAIN inp.cfg
    BY <1>5, <1>7 DEF Sound, Compiles
  <1>9. op.after.ref[b] = KnownID(Decide(inp)[b])
    BY <1>7, <1>8, ScopeIsDecided DEF Sound
  <1>10. Decide(inp)[b].kind \in {"noop", "update"} /\ Decide(inp)[b].obj = op.after.ref[b]
    BY <1>9 DEF KnownID
  <1> QED BY <1>8, <1>10, DecidedIsPlanned

LEMMA FollowsComputed ==
  ASSUME NEW inp, Sound(inp), DOMAIN inp.cfg \subseteq Addr, PlanErrors(inp) = {},
         NEW op \in Compute(inp), op.kind \in {"create", "replace"},
         NEW d \in DOMAIN inp.cfg, op.addr \in inp.cfg[d].refs
  PROVE  \E follow \in Compute(inp) :
           follow.addr = d /\ follow.kind \in {"create", "update", "replace"}
  <1> DEFINE a == op.addr
             want == [mut |-> inp.cfg[d].mut, imm |-> inp.cfg[d].imm,
                      ref |-> References(inp, d, InScope(inp))]
  <1>1. op \notin DeposedOps(inp)
    BY CleanupShape
  <1>2. Decide(inp)[a].kind = op.kind
    BY <1>1, ComputedShape
  <1>3. a \in DOMAIN inp.cfg
    BY DEF Sound, Compiles
  <1>4. InScope(inp)[a] = NoObj
    BY <1>2, <1>3, ScopeIsDecided DEF KnownID, Sound
  <1>5. a \in DOMAIN want.ref /\ want.ref[a] = NoObj
    BY <1>4 DEF References
  <1>6. \A got : "ref" \in ChangedAttrs(want, got)
    <2> HIDE DEF want
    <2> QED BY <1>5 DEF ChangedAttrs
  <1>7. Decide(inp)[d] = OperationFor(inp, d, References(inp, d, InScope(inp)))
    BY DEF Decide
  <1>8. Decide(inp)[d].kind # "refused"
    BY DEF PlanErrors
  <1>9. ~ReadFailed(inp, d)
    BY <1>7, <1>8 DEF OperationFor, Refused, Operation
  <1>10. Decide(inp)[d].kind = ConfiguredKind(inp, d, want)
    BY <1>7, <1>9 DEF OperationFor, Operation
  <1>11. ConfiguredKind(inp, d, want) \in {"create", "refused", "replace", "update"}
    <2> HIDE DEF want
    <2> QED BY <1>6 DEF ConfiguredKind
  <1> QED BY <1>8, <1>10, <1>11, DecidedIsPlanned

-----------------------------------------------------------------------------
(***************************************************************************)
(* The theorems of the specification.                                      *)
(***************************************************************************)
PlanningInv ==
  /\ Sound(input)
  /\ DOMAIN input.cfg \subseteq Addr
  /\ plan = Compute(input)
  /\ errors = PlanErrors(input)

THEOREM PlanningInvariant == PlanningSpec => []PlanningInv
  <1>1. PlanningInit => PlanningInv
    BY DEF PlanningInit, PlanningInv, Sound
  <1>2. PlanningInv /\ [PlanningNext]_planVars => PlanningInv'
    <2>1. ASSUME PlanningInv, NEW cfg, NEW obs, Compiles(cfg), DOMAIN cfg \subseteq Addr, Plans(cfg, obs)
          PROVE  PlanningInv'
      BY <2>1 DEF PlanningInv, Plans, Sound
    <2>2. ASSUME PlanningInv, NEW a \in Addr, WriteBlock(a) PROVE PlanningInv'
      BY <2>1, <2>2 DEF WriteBlock, PlanningInv
    <2>3. ASSUME PlanningInv, NEW a \in Addr, DeleteBlock(a) PROVE PlanningInv'
      BY <2>1, <2>3 DEF DeleteBlock, PlanningInv
    <2>4. ASSUME PlanningInv, NEW a \in Addr, Refresh(a) PROVE PlanningInv'
      BY <2>1, <2>4 DEF Refresh, PlanningInv, Sound
    <2>5. ASSUME PlanningInv, UNCHANGED planVars PROVE PlanningInv'
      BY <2>5 DEF PlanningInv, planVars
    <2> QED BY <2>2, <2>3, <2>4, <2>5 DEF PlanningNext
  <1> QED BY <1>1, <1>2, PTL DEF PlanningSpec

(***************************************************************************)
(* UnflaggedExecutable: an applicable plan without create_before_destroy   *)
(* can be executed (execution.go:69-80, 84-204).                           *)
(***************************************************************************)
THEOREM UnflaggedPlansExecute == PlanningSpec => []UnflaggedExecutable
  <1>1. PlanningInv => UnflaggedExecutable
    <2>1. SUFFICES ASSUME PlanningInv, \A op \in plan : ~op.cbd PROVE Executable
      BY DEF UnflaggedExecutable
    <2>2. WellFormed(input, plan)
      BY <2>1, ComputeWellFormed DEF PlanningInv
    <2>3. IsFiniteSet(DOMAIN input.cfg \cup DOMAIN input.st)
      <3>1. DOMAIN input.cfg \cup DOMAIN input.st \in SUBSET Addr
        BY <2>1 DEF PlanningInv, Sound, Recorded
      <3> QED BY <3>1, FS_Subset
    <2>4. ~HasCycle(ExecNodes(plan), ExecEdges(plan))
      BY <2>1, <2>2, <2>3, UnflaggedAcyclic DEF PlanningInv
    <2> QED BY <2>2, <2>4 DEF Executable, WellFormed
  <1> QED BY <1>1, PlanningInvariant, PTL

(***************************************************************************)
(* PlanWellFormed: one operation per address, and dependents taken from    *)
(* the side that has them (planner.go:47-204, 500-533).                    *)
(***************************************************************************)
THEOREM PlansWellFormed == PlanningSpec => []PlanWellFormed
  <1>1. PlanningInv => PlanWellFormed
    BY ComputeWellFormed DEF PlanningInv, PlanWellFormed, PlanErrors
  <1> QED BY <1>1, PlanningInvariant, PTL

(***************************************************************************)
(* ReplacementsPropagate: no reference a plan states as known is to an     *)
(* object the same plan deletes or replaces, and whoever refers to a new   *)
(* object takes part (diff.go:394-436, planner.go:280-295).                *)
(***************************************************************************)
THEOREM ReplacementsAlwaysPropagate == PlanningSpec => []ReplacementsPropagate
  <1>1. PlanningInv => ReplacementsPropagate
    <2> SUFFICES ASSUME PlanningInv, Applicable PROVE ReplacementsPropagate
      BY DEF ReplacementsPropagate, KnownReferencesSurvive, DependentsFollow
    <2>1. Sound(input) /\ DOMAIN input.cfg \subseteq Addr /\ PlanErrors(input) = {} /\ plan = Compute(input)
      BY DEF PlanningInv, Applicable
    <2>2. KnownReferencesSurvive
      <3> SUFFICES ASSUME NEW op \in plan, NEW b \in DOMAIN op.after.ref, op.after.ref[b] # NoObj
                   PROVE  \E target \in OpsAt(b) :
                            target.kind \in {"noop", "update"} /\ target.obj = op.after.ref[b]
        BY DEF KnownReferencesSurvive
      <3>1. PICK target \in plan : /\ target.addr = b /\ target.kind \in {"noop", "update"}
                                   /\ target.obj = op.after.ref[b]
        BY <2>1, SurvivesComputed
      <3> QED BY <3>1 DEF OpsAt
    <2>3. DependentsFollow
      <3> SUFFICES ASSUME NEW op \in plan, op.kind \in {"create", "replace"},
                          NEW d \in DOMAIN input.cfg, op.addr \in input.cfg[d].refs
                   PROVE  \E follow \in OpsAt(d) : follow.kind \in {"create", "update", "replace"}
        BY DEF DependentsFollow
      <3>1. PICK follow \in plan : follow.addr = d /\ follow.kind \in {"create", "update", "replace"}
        BY <2>1, FollowsComputed
      <3> QED BY <3>1 DEF OpsAt
    <2> QED BY <2>2, <2>3 DEF ReplacementsPropagate
  <1> QED BY <1>1, PlanningInvariant, PTL
=============================================================================
