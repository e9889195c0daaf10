------------------------ MODULE ExecutorStateProofs ------------------------
(***************************************************************************)
(* For every set of addresses, every plan and every order of completions,  *)
(* failures and interrupts: state and the providers agree about what       *)
(* exists, and the state on disk is never further behind than the calls    *)
(* that may be out.                                                        *)
(*                                                                         *)
(* The inductive invariant says exactly what is at each address, in memory *)
(* and at the provider, by which of its (at most two) operations have been *)
(* carried out and which have been recorded.                               *)
(*                                                                         *)
(* The second half says what an object is like and what its record says of *)
(* it, by which operation wrote it last; from that, that what a run        *)
(* reports is true and that a run which succeeded leaves nothing to do,    *)
(* and that no run leaves an object nobody can delete. The last section    *)
(* follows the objects that guards keep through a run.                     *)
(***************************************************************************)
EXTENDS ExecutorProofs

-----------------------------------------------------------------------------
\* A node that makes a new object, and one that deletes one.
Makes(n) == NeedsDesired(n) /\ n.kind # "update"
Deletes(n) == n.phase = "destroy" /\ n.kind # "forget"

\* What a deletion is to delete.
Target(n) ==
  IF n.kind = "destroy_deposed" THEN LeftBehind(input.st[n.addr]) ELSE {input.st[n.addr].obj}

\* What has been recorded at an address.
Created(a) == \E n \in nodes : n.addr = a /\ Makes(n) /\ status[n] = "done"
Removed(a) == \E n \in nodes : n.addr = a /\ IsRemoval(n) /\ status[n] = "done"
Cleaned(a) == \E n \in nodes : n.addr = a /\ TakesDeposed(n) /\ status[n] = "done"
SetsAside(a) == \E n \in nodes : n.addr = a /\ Makes(n) /\ n.cbd

\* What has been carried out, recorded or not.
Took(n) == status[n] = "done" \/ (n \in InFlight /\ worker[n].at = "ok")
Taken(o) == \E n \in nodes : n.addr = o[1] /\ Deletes(n) /\ Took(n) /\ o \in Target(n)

MadeBy(n) ==
  \/ status[n] = "done"
  \/ n \in failed /\ persistFailed
  \/ n \in InFlight /\ worker[n].at \in {"ok", "no_state"}

Shaped(rec) ==
  rec = [obj |-> rec.obj, attrs |-> rec.attrs, deps |-> rec.deps, guards |-> rec.guards,
         deposed |-> rec.deposed]

DeposedAt(a) ==
  IF Cleaned(a) THEN {}
  ELSE IF Created(a) THEN (IF SetsAside(a) THEN {input.st[a].obj} ELSE {})
  ELSE LeftBehind(input.st[a])

MemInv ==
  /\ \A a : a \in DOMAIN mem <=> (Created(a) \/ (a \in DOMAIN input.st /\ ~Removed(a)))
  /\ \A a \in DOMAIN mem :
       /\ Shaped(mem[a])
       /\ mem[a].obj = IF Created(a) THEN <<a, 1>> ELSE input.st[a].obj
       /\ LeftBehind(mem[a]) = DeposedAt(a) /\ mem[a].deposed \in Seq(DeposedAt(a))

MadeInv ==
  /\ Addr \subseteq DOMAIN made
  /\ \A a \in Addr :
      /\ made[a] \in {0, 1}
      /\ made[a] = 1 => \E n \in nodes : n.addr = a /\ Makes(n) /\ MadeBy(n)
      /\ \A n \in nodes : n.addr = a /\ Makes(n) /\ Took(n) => made[a] = 1

CloudInv ==
  \A o : o \in DOMAIN cloud <=>
    \/ \E a \in Addr : o = <<a, 1>> /\ made[a] = 1
    \/ o \in DOMAIN LiveAtStart(input) /\ ~Taken(o)

ReleasedInv ==
  \A o : o \in released <=>
    \E n \in nodes : n.kind = "forget" /\ status[n] = "done" /\ o = input.st[n.addr].obj

\* What a worker saw of its own address is still so.
SnapshotInv ==
  \A n \in InFlight : worker[n].at = "called" =>
    /\ n.addr \in DOMAIN worker[n].snapshot <=> n.addr \in DOMAIN mem
    /\ n.addr \in DOMAIN mem => worker[n].snapshot[n.addr] = mem[n.addr]

\* The record a worker brings.
OutcomeIs(n, rec) ==
  /\ Shaped(rec)
  /\ rec.obj = IF n.kind = "update" THEN input.st[n.addr].obj ELSE <<n.addr, 1>>
  /\ rec.deposed = IF n.kind = "update" THEN mem[n.addr].deposed ELSE <<>>

OutcomesInv ==
  \A n \in InFlight : worker[n].at = "ok" /\ NeedsDesired(n) => OutcomeIs(n, worker[n].record)

AgreeInv ==
  CleanupsAlone /\ owner # "dead" =>
    MemInv /\ MadeInv /\ CloudInv /\ ReleasedInv /\ SnapshotInv /\ OutcomesInv

-----------------------------------------------------------------------------
(***************************************************************************)
(* The nodes of one address.                                               *)
(***************************************************************************)
LEMMA NodeFacts ==
  ASSUME LoopInv, NEW n \in nodes
  PROVE  /\ n.addr \in Addr /\ n.phase \in {"destroy", "create"}
         /\ n.kind \in {"create", "replace", "update", "forget", "destroy", "destroy_deposed"}
         /\ n.kind \in {"create", "update"} => n.phase = "create"
         /\ n.kind \in {"forget", "destroy", "destroy_deposed"} => n.phase = "destroy"
         /\ n.kind # "create" => n.addr \in DOMAIN input.st
         /\ n.kind \in {"update", "replace", "destroy"} => ~Gone(input, n.addr)
         /\ n.kind = "create" => n.addr \notin DOMAIN input.st \/ Gone(input, n.addr)
         /\ n.cbd => n.kind = "replace"
  <1>1. PICK op \in Compute(input) :
           /\ n.phase \in Phases(op) /\ Facts(input, op)
           /\ n.addr = op.addr /\ n.kind = op.kind /\ n.phase \in {"destroy", "create"}
           /\ n.cbd = (op.kind = "replace" /\ op.cbd) /\ n.kind # "noop"
    BY NodeOfPlan DEF LoopInv, ExecTypeOK
  <1>2. n.kind \in {"create", "replace", "update", "forget", "destroy", "destroy_deposed"}
    BY <1>1 DEF Facts
  <1>3. /\ n.kind \in {"create", "update"} => n.phase = "create"
        /\ n.kind \in {"forget", "destroy", "destroy_deposed"} => n.phase = "destroy"
    BY <1>1 DEF Phases
  <1> QED BY <1>1, <1>2, <1>3 DEF Facts

\* What a node does, by its phase.
LEMMA NodeDoes ==
  ASSUME LoopInv, NEW n \in nodes
  PROVE  /\ NeedsDesired(n) <=> n.phase = "create"
         /\ Makes(n) <=> n.phase = "create" /\ n.kind # "update"
         /\ IsRemoval(n) <=> n.phase = "destroy" /\ ~TakesDeposed(n)
         /\ TakesDeposed(n) => n.phase = "destroy" /\ Deletes(n)
         /\ TakesDeposed(n) <=> n.kind = "destroy_deposed" \/ (n.phase = "destroy" /\ n.cbd)
  BY NodeFacts DEF NeedsDesired, Makes, IsRemoval, TakesDeposed, Deletes

LEMMA AloneAt ==
  ASSUME LoopInv, CleanupsAlone, NEW n \in nodes, n.kind # "replace",
         NEW m \in nodes, m.addr = n.addr
  PROVE  m = n
  BY PhasesAtOneAddress

\* A replacement has both phases, in the order its lifecycle asks for.
LEMMA BothPhases ==
  ASSUME LoopInv, NEW n \in nodes, n.kind = "replace"
  PROVE  \E d, c \in nodes :
           /\ d.addr = n.addr /\ d.kind = "replace" /\ d.phase = "destroy" /\ d.cbd = n.cbd
           /\ c.addr = n.addr /\ c.kind = "replace" /\ c.phase = "create" /\ c.cbd = n.cbd
           /\ n = d \/ n = c
           /\ IF n.cbd THEN c \in Preds(d) ELSE d \in Preds(c)
  <1>0. /\ input \in Inputs /\ plan = Compute(input) /\ nodes = ExecNodes(plan)
        /\ edges = ExecEdges(plan)
    BY DEF LoopInv, ExecTypeOK
  <1>1. PICK op \in plan :
           /\ n = OpNode(op, n.phase) /\ n.phase \in {"destroy", "create"}
           /\ n.addr = op.addr /\ n.kind = op.kind /\ n.cbd = (op.kind = "replace" /\ op.cbd)
    BY <1>0, NodeOfPlan
  <1> DEFINE d == OpNode(op, "destroy")
             c == OpNode(op, "create")
  <1>2. Phases(op) = {"destroy", "create"}
    BY <1>1 DEF Phases
  <1>3. d \in nodes /\ c \in nodes
    BY <1>0, <1>2 DEF ExecNodes
  <1>4. /\ d.addr = n.addr /\ d.kind = "replace" /\ d.phase = "destroy" /\ d.cbd = n.cbd
        /\ c.addr = n.addr /\ c.kind = "replace" /\ c.phase = "create" /\ c.cbd = n.cbd
    BY <1>1 DEF OpNode
  <1>5. n = d \/ n = c
    BY <1>1
  <1>6. IF n.cbd THEN c \in Preds(d) ELSE d \in Preds(c)
    <2> DEFINE hd == Has(plan, op.addr, "destroy")
               hc == Has(plan, op.addr, "create")
    <2>1. d \in hd /\ c \in hc
      BY <1>0, <1>1, <1>3, <1>4 DEF Has
    <2>2. (IF op.cbd THEN hc \X hd ELSE hd \X hc) \subseteq PhaseEdges(plan)
      BY <1>1 DEF PhaseEdges
    <2>3. PhaseEdges(plan) \subseteq edges
      BY <1>0 DEF ExecEdges
    <2>4. n.cbd <=> op.cbd
      BY <1>1
    <2> HIDE DEF d, c, hd, hc
    <2>5. CASE op.cbd
      BY <1>3, <2>1, <2>2, <2>3, <2>4, <2>5 DEF Preds
    <2>6. CASE ~op.cbd
      BY <1>3, <2>1, <2>2, <2>3, <2>4, <2>6 DEF Preds
    <2> QED BY <2>5, <2>6
  <1> QED BY <1>3, <1>4, <1>5, <1>6

\* Two operations of one address are never out at once.
LEMMA OneOutPerAddress ==
  ASSUME LoopInv, CleanupsAlone, NEW m \in nodes, NEW n \in nodes, m.addr = n.addr,
         status[m] = "dispatched", status[n] = "dispatched"
  PROVE  m = n
  <1> SUFFICES ASSUME m # n PROVE FALSE
    OBVIOUS
  <1>1. n \in Preds(m) \/ m \in Preds(n)
    BY PhasesAtOneAddress
  <1> QED BY <1>1 DEF LoopInv, WalkInv, DispatchedAfterPreds

\* One node of an address makes an object.
LEMMA OneMakes ==
  ASSUME LoopInv, CleanupsAlone, NEW m \in nodes, NEW n \in nodes, m.addr = n.addr,
         m.phase = n.phase
  PROVE  m = n
  <1> SUFFICES ASSUME m # n PROVE FALSE
    OBVIOUS
  <1>1. {m.phase, n.phase} = {"destroy", "create"}
    BY PhasesAtOneAddress
  <1> QED BY <1>1

-----------------------------------------------------------------------------
(***************************************************************************)
(* The objects a record names.                                             *)
(***************************************************************************)
LEMMA RecordedObjects ==
  ASSUME LoopInv, NEW a \in DOMAIN input.st
  PROVE  /\ a \in Addr /\ Shaped(input.st[a])
         /\ input.st[a].deposed \in Seq(LeftBehind(input.st[a]))
         /\ input.st[a].obj \notin LeftBehind(input.st[a])
         /\ \A o \in {input.st[a].obj} \cup LeftBehind(input.st[a]) :
              o[1] = a /\ \A b : o # <<b, 1>>
  <1>0. input \in Inputs
    BY DEF LoopInv, ExecTypeOK
  <1>1. IsRecordOf(input.st[a], a) /\ a \in Addr
    BY <1>0, InputsAssumption
  <1>2. \A o \in {a} \X (Nat \ {1}) : o[1] = a /\ \A b : o # <<b, 1>>
    OBVIOUS
  <1> QED BY <1>1, <1>2 DEF IsRecordOf, Shaped

\* An object left behind has a node of its own, which is its address's only.
LEMMA LeftBehindAlone ==
  ASSUME LoopInv, CleanupsAlone, NEW a \in DOMAIN input.st, LeftBehind(input.st[a]) # {}
  PROVE  /\ \E n \in nodes : n.addr = a /\ n.kind = "destroy_deposed"
         /\ \A n \in nodes : n.addr = a => n.kind = "destroy_deposed"
         /\ \A o, p \in LeftBehind(input.st[a]) : o = p
  <1>0. /\ input \in Inputs /\ plan = Compute(input) /\ nodes = ExecNodes(plan)
        /\ OneOperationPerAddress(plan)
    BY DEF LoopInv, ExecTypeOK
  <1> DEFINE Op(o) == Operation(a, "destroy_deposed", o, NoAttrs, NoLifecycle)
  <1>1. \A o \in LeftBehind(input.st[a]) :
          /\ Op(o) \in plan /\ Op(o).addr = a /\ Op(o).kind = "destroy_deposed" /\ Op(o).obj = o
    <2> TAKE o \in LeftBehind(input.st[a])
    <2>1. Op(o) \in DeposedOps(input)
      BY DEF DeposedOps
    <2>2. Op(o) \in plan
      BY <1>0, <2>1 DEF Compute
    <2>3. Op(o).addr = a /\ Op(o).kind = "destroy_deposed" /\ Op(o).obj = o
      BY DEF Operation
    <2> QED BY <2>2, <2>3
  <1> HIDE DEF Op
  <1>2. PICK o \in LeftBehind(input.st[a]) : TRUE
    OBVIOUS
  <1>3. OpNode(Op(o), "destroy") \in nodes
    <2>1. "destroy" \in Phases(Op(o))
      BY <1>1 DEF Phases
    <2> QED BY <1>0, <1>1, <2>1 DEF ExecNodes
  <1>4. OpNode(Op(o), "destroy").addr = a /\ OpNode(Op(o), "destroy").kind = "destroy_deposed"
    BY <1>1 DEF OpNode
  <1>5. \A n \in nodes : n.addr = a => n.kind = "destroy_deposed"
    BY <1>3, <1>4, AloneAt
  <1>6. \A p, q \in LeftBehind(input.st[a]) : p = q
    BY <1>0, <1>1 DEF OneOperationPerAddress
  <1> QED BY <1>3, <1>4, <1>5, <1>6

\* A deletion has one target, an object of its address's record.
LEMMA OneTarget ==
  ASSUME LoopInv, CleanupsAlone, NEW n \in nodes, Deletes(n)
  PROVE  /\ n.addr \in DOMAIN input.st
         /\ \A o, p \in Target(n) : o = p
         /\ \A o \in Target(n) : o[1] = n.addr /\ (\A b : o # <<b, 1>>) /\ o \in DOMAIN LiveAtStart(input)
  <1>1. n.addr \in DOMAIN input.st
    BY NodeFacts DEF Deletes
  <1>2. CASE n.kind = "destroy_deposed"
    <2>1. \A o, p \in Target(n) : o = p
      BY <1>1, <1>2, LeftBehindAlone DEF Target
    <2>2. Target(n) = LeftBehind(input.st[n.addr])
      BY <1>2 DEF Target
    <2>3. Target(n) \subseteq DOMAIN LiveAtStart(input)
      BY <1>1, <2>2 DEF LiveAtStart
    <2> QED BY <1>1, <2>1, <2>2, <2>3, RecordedObjects
  <1>3. CASE n.kind # "destroy_deposed"
    <2>1. Target(n) = {input.st[n.addr].obj} /\ n.kind \in {"destroy", "replace"}
      BY <1>3, NodeFacts DEF Target, Deletes
    <2>2. ~Gone(input, n.addr)
      BY <2>1, NodeFacts
    <2>3. input.st[n.addr].obj \in DOMAIN LiveAtStart(input)
      BY <1>1, <2>2 DEF LiveAtStart
    <2> QED BY <1>1, <2>1, <2>3, RecordedObjects
  <1> QED BY <1>2, <1>3

-----------------------------------------------------------------------------
(***************************************************************************)
(* What an operation that is out, or about to be, finds at its address:    *)
(* the record planning saw, or what the other phase of its replacement     *)
(* made of it.                                                             *)
(***************************************************************************)
LEMMA DeposedKnown ==
  ASSUME MemInv, NEW a \in DOMAIN mem
  PROVE  /\ Shaped(mem[a]) /\ LeftBehind(mem[a]) = DeposedAt(a)
         /\ mem[a].deposed \in Seq(DeposedAt(a))
         /\ mem[a].deposed # <<>> => Head(mem[a].deposed) \in DeposedAt(a)
  <1>1. mem[a].deposed \in Seq(DeposedAt(a))
    BY DEF MemInv
  <1>2. \A S, s : s \in Seq(S) /\ s # <<>> => Head(s) \in S
    OBVIOUS
  <1> QED BY <1>1, <1>2 DEF MemInv

LEMMA SeesWhole ==
  ASSUME LoopInv, CleanupsAlone, MemInv, NEW n \in nodes, status[n] = "dispatched",
         n.kind \in {"update", "forget", "destroy"} \/ (n.kind = "replace" /\ (n.cbd <=> n.phase = "create"))
  PROVE  /\ n.addr \in DOMAIN mem /\ ~Created(n.addr) /\ ~Removed(n.addr) /\ ~Cleaned(n.addr)
         /\ n.addr \in DOMAIN input.st
         /\ mem[n.addr].obj = input.st[n.addr].obj
         /\ LeftBehind(input.st[n.addr]) = {} /\ DeposedAt(n.addr) = {}
  <1>1. n.addr \in DOMAIN input.st
    BY NodeFacts
  <1>2. LeftBehind(input.st[n.addr]) = {}
    BY <1>1, LeftBehindAlone
  <1>3. \A m \in nodes : m.addr = n.addr => status[m] # "done"
    <2> SUFFICES ASSUME NEW m \in nodes, m.addr = n.addr, status[m] = "done" PROVE FALSE
      OBVIOUS
    <2>1. m # n
      OBVIOUS
    <2>2. n.kind = "replace"
      BY <2>1, AloneAt
    <2>3. PICK d \in nodes, c \in nodes :
            /\ d.addr = n.addr /\ d.phase = "destroy" /\ c.addr = n.addr /\ c.phase = "create"
            /\ n = d \/ n = c
            /\ IF n.cbd THEN c \in Preds(d) ELSE d \in Preds(c)
      BY <2>2, BothPhases
    <2>4. m \in {d, c}
      BY <2>3, NodeFacts, OneMakes
    <2>5. n \in Preds(m)
      BY <2>1, <2>2, <2>3, <2>4
    <2>6. status[n] = "done"
      BY <2>5 DEF LoopInv, WalkInv, DispatchedAfterPreds
    <2> QED BY <2>6
  <1>4. ~Created(n.addr) /\ ~Removed(n.addr) /\ ~Cleaned(n.addr)
    BY <1>3 DEF Created, Removed, Cleaned
  <1> QED BY <1>1, <1>2, <1>4 DEF MemInv, DeposedAt

\* The old object of a replacement that made the new one first, or one left
\* behind by an earlier run.
LEMMA SeesDeposed ==
  ASSUME LoopInv, CleanupsAlone, MemInv, NEW n \in nodes, status[n] = "dispatched", TakesDeposed(n)
  PROVE  /\ n.addr \in DOMAIN mem /\ ~Cleaned(n.addr) /\ ~Removed(n.addr)
         /\ n.addr \in DOMAIN input.st
         /\ DeposedAt(n.addr) = Target(n)
  <1>0. n.addr \in DOMAIN input.st /\ n.phase = "destroy"
    BY NodeFacts, NodeDoes
  <1>1. ~Cleaned(n.addr)
    <2> SUFFICES ASSUME NEW m \in nodes, m.addr = n.addr, TakesDeposed(m), status[m] = "done"
                 PROVE  FALSE
      BY DEF Cleaned
    <2>1. m = n
      BY <1>0, NodeDoes, OneMakes
    <2> QED BY <2>1
  <1>2. ~Removed(n.addr)
    <2> SUFFICES ASSUME NEW m \in nodes, m.addr = n.addr, IsRemoval(m), status[m] = "done"
                 PROVE  FALSE
      BY DEF Removed
    <2>1. m = n
      BY <1>0, NodeDoes, OneMakes
    <2> QED BY <2>1
  <1>3. n.addr \in DOMAIN mem
    BY <1>0, <1>2 DEF MemInv
  <1>4. DeposedAt(n.addr) = Target(n)
    <2>1. CASE n.kind = "destroy_deposed"
      <3>1. ~Created(n.addr)
        BY <2>1, AloneAt, NodeDoes DEF Created
      <3> QED BY <1>1, <2>1, <3>1 DEF DeposedAt, Target
    <2>2. CASE n.kind # "destroy_deposed"
      <3>1. n.kind = "replace" /\ n.cbd
        BY <2>2 DEF TakesDeposed
      <3>2. PICK c \in nodes : /\ c.addr = n.addr /\ c.kind = "replace" /\ c.phase = "create"
                               /\ c.cbd /\ c \in Preds(n)
        <4>1. PICK d \in nodes, c \in nodes :
                 /\ d.addr = n.addr /\ d.kind = "replace" /\ d.phase = "destroy" /\ d.cbd = n.cbd
                 /\ c.addr = n.addr /\ c.kind = "replace" /\ c.phase = "create" /\ c.cbd = n.cbd
                 /\ n = d \/ n = c
                 /\ IF n.cbd THEN c \in Preds(d) ELSE d \in Preds(c)
          BY <3>1, BothPhases
        <4>2. n = d
          BY <1>0, <4>1
        <4> QED BY <3>1, <4>1, <4>2
      <3>3. status[c] = "done"
        BY <3>2 DEF LoopInv, WalkInv, DispatchedAfterPreds
      <3>4. Created(n.addr) /\ SetsAside(n.addr)
        BY <3>2, <3>3, NodeDoes DEF Created, SetsAside
      <3> QED BY <1>1, <2>2, <3>4 DEF DeposedAt, Target
    <2> QED BY <2>1, <2>2
  <1> QED BY <1>0, <1>1, <1>2, <1>3, <1>4

\* Nothing has been made yet where something is about to be.
LEMMA SeesNothingMade ==
  ASSUME LoopInv, CleanupsAlone, NEW n \in nodes, status[n] = "dispatched", Makes(n)
  PROVE  ~Created(n.addr)
  <1> SUFFICES ASSUME NEW m \in nodes, m.addr = n.addr, Makes(m), status[m] = "done" PROVE FALSE
    BY DEF Created
  <1>1. m = n
    BY NodeDoes, OneMakes
  <1> QED BY <1>1

\* A deletion deletes what it is there to delete.
LEMMA CurrentIsTarget ==
  ASSUME LoopInv, CleanupsAlone, MemInv, NEW n \in nodes, status[n] = "dispatched", Deletes(n),
         NEW snapshot, n.addr \in DOMAIN snapshot <=> n.addr \in DOMAIN mem,
         n.addr \in DOMAIN mem => snapshot[n.addr] = mem[n.addr],
         ~CannotCall(n, snapshot)
  PROVE  Target(n) = {CurrentObj(n, snapshot)}
  <1>1. CurrentObj(n, snapshot) # NoObj
    BY DEF CannotCall, Deletes
  <1>2. CASE TakesDeposed(n)
    <2>1. n.addr \in DOMAIN mem /\ DeposedAt(n.addr) = Target(n)
      BY <1>2, SeesDeposed
    <2>2. CurrentObj(n, snapshot) = Head(mem[n.addr].deposed) /\ mem[n.addr].deposed # <<>>
      BY <1>1, <1>2, <2>1 DEF CurrentObj
    <2>3. CurrentObj(n, snapshot) \in Target(n)
      BY <2>1, <2>2, DeposedKnown
    <2> QED BY <2>3, OneTarget
  <1>3. CASE ~TakesDeposed(n)
    <2>1. n.kind = "destroy" \/ (n.kind = "replace" /\ (n.cbd <=> n.phase = "create"))
      BY <1>3, NodeFacts, NodeDoes DEF Deletes
    <2>2. n.addr \in DOMAIN mem /\ mem[n.addr].obj = input.st[n.addr].obj
      BY <2>1, SeesWhole
    <2>3. CurrentObj(n, snapshot) = input.st[n.addr].obj
      BY <1>3, <2>2 DEF CurrentObj
    <2>4. n.kind # "destroy_deposed"
      BY <2>1
    <2> QED BY <2>3, <2>4 DEF Target
  <1> QED BY <1>2, <1>3

-----------------------------------------------------------------------------
(***************************************************************************)
(* The first state.                                                        *)
(***************************************************************************)
LEMMA AgreeInit == ExecInit => AgreeInv
  <1> SUFFICES ASSUME ExecInit
               PROVE  MemInv /\ MadeInv /\ CloudInv /\ ReleasedInv /\ SnapshotInv /\ OutcomesInv
    BY DEF AgreeInv
  <1>1. /\ \A n \in nodes : status[n] # "done"
        /\ InFlight = {} /\ mem = input.st /\ cloud = LiveAtStart(input)
        /\ Addr \subseteq DOMAIN made /\ \A a \in Addr : made[a] = 0
        /\ released = {}
    BY DEF ExecInit, InFlight
  <1>2. LoopInv
    BY LoopInit
  <1>3. \A a : ~Created(a) /\ ~Removed(a) /\ ~Cleaned(a)
    BY <1>1 DEF Created, Removed, Cleaned
  <1>4. \A n \in nodes : ~Took(n)
    BY <1>1 DEF Took
  <1>5. MemInv
    <2>1. \A a \in DOMAIN mem : DeposedAt(a) = LeftBehind(mem[a])
      BY <1>1, <1>3 DEF DeposedAt
    <2> QED BY <1>1, <1>2, <1>3, <2>1, RecordedObjects DEF MemInv
  <1>6. MadeInv
    BY <1>1, <1>4 DEF MadeInv
  <1>7. CloudInv
    <2>1. \A o : ~Taken(o)
      BY <1>4 DEF Taken
    <2> QED BY <1>1, <2>1 DEF CloudInv
  <1>8. ReleasedInv /\ SnapshotInv /\ OutcomesInv
    BY <1>1 DEF ReleasedInv, SnapshotInv, OutcomesInv
  <1> QED BY <1>5, <1>6, <1>7, <1>8

-----------------------------------------------------------------------------
(***************************************************************************)
(* The steps that neither call nor record anything.                        *)
(***************************************************************************)
\* What is recorded is read off the nodes that are done.
LEMMA RecordingSame ==
  ASSUME UNCHANGED <<nodes, input>>,
         \A n \in nodes : status'[n] = "done" <=> status[n] = "done"
  PROVE  /\ \A a : /\ Created(a)' = Created(a) /\ Removed(a)' = Removed(a)
                   /\ Cleaned(a)' = Cleaned(a) /\ SetsAside(a)' = SetsAside(a)
                   /\ DeposedAt(a)' = DeposedAt(a)
         /\ mem' = mem /\ MemInv => MemInv'
         /\ released' = released /\ ReleasedInv => ReleasedInv'
  <1>1. ASSUME NEW a
        PROVE  /\ Created(a)' <=> Created(a)
               /\ Removed(a)' <=> Removed(a)
               /\ Cleaned(a)' <=> Cleaned(a)
               /\ SetsAside(a)' <=> SetsAside(a)
    BY DEF Created, Removed, Cleaned, SetsAside
  <1>2. \A a : /\ Created(a)' = Created(a) /\ Removed(a)' = Removed(a)
               /\ Cleaned(a)' = Cleaned(a) /\ SetsAside(a)' = SetsAside(a)
    BY <1>1 DEF Created, Removed, Cleaned, SetsAside
  <1>3. \A a : DeposedAt(a)' = DeposedAt(a)
    BY <1>2 DEF DeposedAt
  <1>4. mem' = mem /\ MemInv => MemInv'
    BY <1>2, <1>3 DEF MemInv
  <1>5. released' = released /\ ReleasedInv => ReleasedInv'
    BY DEF ReleasedInv
  <1> QED BY <1>2, <1>3, <1>4, <1>5

LEMMA TakenSame ==
  ASSUME UNCHANGED <<nodes, input>>, \A n \in nodes : Deletes(n) => (Took(n)' <=> Took(n))
  PROVE  \A o : Taken(o)' <=> Taken(o)
  BY DEF Taken, Target

LEMMA AgreeQuiet ==
  ASSUME LoopInv, AgreeInv, owner # "dead",
         UNCHANGED <<nodes, edges, status, input, plan, mem, cloud, made, released, failed,
                     persistFailed>>,
         \A n \in InFlight : worker[n].at # "called" => n \in InFlight' /\ worker'[n] = worker[n],
         \A n \in InFlight' : \/ n \in InFlight /\ worker'[n] = worker[n]
                              \/ worker'[n].at = "called" /\ worker'[n].snapshot = mem
  PROVE  AgreeInv'
  <1> SUFFICES ASSUME CleanupsAlone'
               PROVE  (MemInv /\ MadeInv /\ CloudInv /\ ReleasedInv /\ SnapshotInv /\ OutcomesInv)'
    BY DEF AgreeInv
  <1>1. CleanupsAlone
    BY DEF CleanupsAlone
  <1>2. MemInv /\ MadeInv /\ CloudInv /\ ReleasedInv /\ SnapshotInv /\ OutcomesInv
    BY <1>1 DEF AgreeInv
  <1>3. \A n \in nodes : (Took(n)' <=> Took(n)) /\ (MadeBy(n)' <=> MadeBy(n))
    BY DEF Took, MadeBy
  <1>4. MemInv' /\ ReleasedInv'
    BY <1>2, RecordingSame
  <1>5. MadeInv'
    BY <1>2, <1>3 DEF MadeInv
  <1>6. CloudInv'
    <2>1. \A o : Taken(o)' <=> Taken(o)
      BY <1>3, TakenSame
    <2> QED BY <1>2, <2>1 DEF CloudInv
  <1>7. SnapshotInv'
    BY <1>2 DEF SnapshotInv
  <1>8. OutcomesInv'
    BY <1>2 DEF OutcomesInv, OutcomeIs
  <1> QED BY <1>4, <1>5, <1>6, <1>7, <1>8

-----------------------------------------------------------------------------
(***************************************************************************)
(* A worker's call, by what it is for.                                     *)
(***************************************************************************)
LEMMA Carried ==
  ASSUME NEW n \in InFlight, Execute(n)
  PROVE  LET snapshot == worker[n].snapshot
             a == n.addr
         IN \/ worker'[n].at = "error" /\ UNCHANGED <<cloud, made>>
            \/ /\ ~CannotCall(n, snapshot) /\ Makes(n) /\ worker'[n].at \in {"ok", "no_state"}
               /\ made' = [made EXCEPT ![a] = @ + 1]
               /\ DOMAIN cloud' = DOMAIN cloud \cup {<<a, made[a] + 1>>}
               /\ worker'[n].at = "ok" => \E attrs :
                    worker'[n].record = NewRecord(n, OpAt(n), <<a, made[a] + 1>>, attrs, snapshot)
            \/ /\ ~CannotCall(n, snapshot) /\ n.kind = "update"
               /\ worker'[n].at \in {"ok", "no_state"}
               /\ UNCHANGED made /\ DOMAIN cloud' = DOMAIN cloud
               /\ worker'[n].at = "ok" => \E attrs :
                    worker'[n].record =
                      NewRecord(n, OpAt(n), CurrentObj(n, snapshot), attrs, snapshot)
            \/ /\ ~CannotCall(n, snapshot) /\ Deletes(n) /\ worker'[n].at = "ok"
               /\ UNCHANGED made /\ DOMAIN cloud' = DOMAIN cloud \ {CurrentObj(n, snapshot)}
            \/ /\ n.kind = "forget" /\ worker'[n].at = "ok" /\ UNCHANGED <<cloud, made>>
  <1> DEFINE snapshot == worker[n].snapshot
             op == OpAt(n)
             obj == <<n.addr, made[n.addr] + 1>>
             attrs == ResolveAfter(op, snapshot)
  <1>1. \A outcome, record : Returns(n, outcome, record) =>
          worker'[n].at = outcome /\ worker'[n].record = record
    <2> TAKE outcome, record
    <2> HAVE Returns(n, outcome, record)
    <2>1. worker'[n] = [at |-> outcome, record |-> record]
      BY DEF Returns, InFlight
    <2> QED BY <2>1
  <1>2. CASE Returns(n, "error", NoRecord) /\ UNCHANGED cloudVars
    BY <1>1, <1>2 DEF cloudVars
  <1>3. CASE ~CannotCall(n, snapshot) /\ NeedsDesired(n) /\ n.kind # "update"
             /\ CallCreate(n, op, snapshot)
    <2>1. made' = [made EXCEPT ![n.addr] = @ + 1]
      BY <1>3 DEF CallCreate
    <2>2. DOMAIN cloud' = DOMAIN cloud \cup {obj}
      BY <1>3 DEF CallCreate
    <2>3. \/ Returns(n, "ok", NewRecord(n, op, obj, attrs, snapshot))
          \/ Returns(n, "no_state", NoRecord)
      BY <1>3 DEF CallCreate
    <2>4. /\ worker'[n].at \in {"ok", "no_state"}
          /\ worker'[n].at = "ok" => worker'[n].record = NewRecord(n, op, obj, attrs, snapshot)
      BY <1>1, <2>3
    <2> HIDE DEF attrs
    <2> QED BY <1>3, <2>1, <2>2, <2>4 DEF Makes
  <1>4. CASE ~CannotCall(n, snapshot) /\ n.kind = "update" /\ CallUpdate(n, op, snapshot)
    <2>1. made' = made /\ DOMAIN cloud' = DOMAIN cloud
      BY <1>4 DEF CallUpdate
    <2>2. \/ Returns(n, "ok", NewRecord(n, op, CurrentObj(n, snapshot), attrs, snapshot))
          \/ Returns(n, "no_state", NoRecord)
      BY <1>4 DEF CallUpdate
    <2>3. /\ worker'[n].at \in {"ok", "no_state"}
          /\ worker'[n].at = "ok" =>
               worker'[n].record = NewRecord(n, op, CurrentObj(n, snapshot), attrs, snapshot)
      BY <1>1, <2>2
    <2> HIDE DEF attrs
    <2> QED BY <1>4, <2>1, <2>3
  <1>5. CASE ~CannotCall(n, snapshot) /\ n.phase = "destroy" /\ n.kind # "forget"
             /\ CallDelete(n, snapshot)
    <2>1. made' = made /\ DOMAIN cloud' = DOMAIN cloud \ {CurrentObj(n, snapshot)}
      BY <1>5 DEF CallDelete, Without
    <2>2. worker'[n].at = "ok"
      BY <1>1, <1>5 DEF CallDelete
    <2> QED BY <1>5, <2>1, <2>2 DEF Deletes
  <1>6. CASE n.kind = "forget" /\ Returns(n, "ok", NoRecord) /\ UNCHANGED cloudVars
    BY <1>1, <1>6 DEF cloudVars
  <1> QED BY <1>2, <1>3, <1>4, <1>5, <1>6 DEF Execute

\* The record a call brings is of the object it made or changed.
LEMMA BroughtRecord ==
  ASSUME LoopInv, CleanupsAlone, MemInv, MadeInv, OutcomeInv, SnapshotInv,
         NEW n \in InFlight, owner # "dead", Execute(n), worker'[n].at = "ok", NeedsDesired(n)
  PROVE  OutcomeIs(n, worker'[n].record)
  <1>0. n \in nodes /\ status[n] = "dispatched" /\ n.addr \in Addr
    BY NodeFacts DEF LoopInv, ExecTypeOK, HandedOut, Dispatched
  <1>1. worker[n].at = "called" /\ n.phase = "create"
    BY <1>0, NodeDoes DEF Execute
  <1>2. ~Deletes(n) /\ n.kind # "forget"
    BY <1>0, <1>1, NodeFacts DEF Deletes
  <1>3. \A obj, attrs, snapshot :
          LET rec == NewRecord(n, OpAt(n), obj, attrs, snapshot)
          IN /\ Shaped(rec) /\ rec.obj = obj
             /\ rec.deposed = IF n.kind = "update" THEN snapshot[n.addr].deposed ELSE <<>>
    BY DEF NewRecord, Shaped
  <1>4. CASE Makes(n)
    <2>1. n.kind # "update"
      BY <1>4 DEF Makes
    <2>2. made[n.addr] = 0
      <3>1. \A m \in nodes : m.addr = n.addr /\ Makes(m) => m = n
        BY <1>0, <1>1, NodeDoes, OneMakes
      <3>2. ~MadeBy(n)
        BY <1>0, <1>1 DEF MadeBy, OutcomeInv
      <3> QED BY <1>0, <3>1, <3>2 DEF MadeInv
    <2>3. made[n.addr] + 1 = 1
      BY <2>2
    <2>4. \E attrs : worker'[n].record =
            NewRecord(n, OpAt(n), <<n.addr, made[n.addr] + 1>>, attrs, worker[n].snapshot)
      BY <1>2, <2>1, Carried
    <2> QED BY <1>3, <2>1, <2>3, <2>4 DEF OutcomeIs
  <1>5. CASE ~Makes(n)
    <2>1. n.kind = "update"
      BY <1>5 DEF Makes
    <2>2. n.addr \in DOMAIN mem /\ mem[n.addr].obj = input.st[n.addr].obj
      BY <1>0, <2>1, SeesWhole
    <2>3. n.addr \in DOMAIN worker[n].snapshot /\ worker[n].snapshot[n.addr] = mem[n.addr]
      BY <1>1, <2>2 DEF SnapshotInv
    <2>4. CurrentObj(n, worker[n].snapshot) = mem[n.addr].obj
      BY <2>1, <2>3 DEF CurrentObj, TakesDeposed
    <2>5. \E attrs : worker'[n].record =
            NewRecord(n, OpAt(n), CurrentObj(n, worker[n].snapshot), attrs, worker[n].snapshot)
      BY <1>2, <1>5, <2>1, Carried
    <2> QED BY <1>3, <2>1, <2>2, <2>3, <2>4, <2>5 DEF OutcomeIs
  <1> QED BY <1>4, <1>5

LEMMA AgreeExecute ==
  ASSUME LoopInv, OutcomeInv, AgreeInv, NEW n \in InFlight, Execute(n)
  PROVE  AgreeInv'
  <1>0. /\ UNCHANGED <<nodes, edges, status, input, plan, mem, owner, released, failed, persistFailed>>
        /\ InFlight' = InFlight /\ worker'[n].at \in {"ok", "error", "no_state"}
        /\ worker[n].at = "called" /\ \A m \in InFlight : m # n => worker'[m] = worker[m]
    BY Worked DEF Execute, walkVars, runVars, stateVars, stopVars, resultVars
  <1> SUFFICES ASSUME CleanupsAlone', owner # "dead"
               PROVE  (MemInv /\ MadeInv /\ CloudInv /\ ReleasedInv /\ SnapshotInv /\ OutcomesInv)'
    BY <1>0 DEF AgreeInv
  <1>1. CleanupsAlone
    BY <1>0 DEF CleanupsAlone
  <1>2. MemInv /\ MadeInv /\ CloudInv /\ ReleasedInv /\ SnapshotInv /\ OutcomesInv
    BY <1>1 DEF AgreeInv
  <1>3. n \in nodes /\ status[n] = "dispatched" /\ n.addr \in Addr
    BY NodeFacts DEF LoopInv, ExecTypeOK, HandedOut, Dispatched
  <1>4. ~Took(n) /\ ~MadeBy(n)
    BY <1>0, <1>3 DEF Took, MadeBy, OutcomeInv
  <1>5. /\ Took(n)' <=> worker'[n].at = "ok"
        /\ MadeBy(n)' <=> worker'[n].at \in {"ok", "no_state"}
        /\ \A m \in nodes : m # n => (Took(m)' <=> Took(m)) /\ (MadeBy(m)' <=> MadeBy(m))
    <2>1. n \in InFlight' /\ status'[n] = "dispatched" /\ n \notin failed'
      BY <1>0, <1>3 DEF OutcomeInv
    <2> QED BY <1>0, <2>1 DEF Took, MadeBy
  <1>6. MemInv' /\ ReleasedInv'
    BY <1>0, <1>2, RecordingSame
  <1>7. SnapshotInv'
    BY <1>0, <1>2 DEF SnapshotInv
  <1>8. OutcomesInv'
    <2>1. \A m \in InFlight : worker'[m].at = "ok" /\ NeedsDesired(m) => OutcomeIs(m, worker'[m].record)
      <3> TAKE m \in InFlight
      <3> HAVE worker'[m].at = "ok" /\ NeedsDesired(m)
      <3>1. CASE m = n
        BY <1>1, <1>2, <3>1, BroughtRecord
      <3>2. CASE m # n
        BY <1>0, <1>2, <3>2 DEF OutcomesInv
      <3> QED BY <3>1, <3>2
    <2>2. \A m \in InFlight' : worker'[m].at = "ok" /\ NeedsDesired(m) =>
             /\ Shaped(worker'[m].record)
             /\ worker'[m].record.obj = IF m.kind = "update" THEN input'.st[m.addr].obj ELSE <<m.addr, 1>>
             /\ worker'[m].record.deposed = IF m.kind = "update" THEN mem'[m.addr].deposed ELSE <<>>
      BY <1>0, <2>1 DEF OutcomeIs
    <2> QED BY <2>2 DEF OutcomesInv, OutcomeIs
  <1>9. MadeInv' /\ CloudInv'
    <2>1. CASE worker'[n].at = "error" /\ UNCHANGED <<cloud, made>>
      <3>1. \A m \in nodes : (Took(m)' <=> Took(m)) /\ (MadeBy(m)' <=> MadeBy(m))
        BY <1>4, <1>5, <2>1
      <3>2. \A o : Taken(o)' <=> Taken(o)
        BY <1>0, <3>1, TakenSame
      <3> QED BY <1>0, <1>2, <2>1, <3>1, <3>2 DEF MadeInv, CloudInv
    <2>2. CASE /\ Makes(n) /\ worker'[n].at \in {"ok", "no_state"}
               /\ made' = [made EXCEPT ![n.addr] = @ + 1]
               /\ DOMAIN cloud' = DOMAIN cloud \cup {<<n.addr, made[n.addr] + 1>>}
      <3>1. \A m \in nodes : m.addr = n.addr /\ Makes(m) => m = n
        BY <1>1, <1>3, <2>2, NodeDoes, OneMakes
      <3>2. made[n.addr] = 0
        BY <1>2, <1>3, <1>4, <3>1 DEF MadeInv
      <3>3. made[n.addr] + 1 = 1
        BY <3>2
      <3>4. /\ \A a \in Addr : made'[a] = IF a = n.addr THEN 1 ELSE made[a]
            /\ Addr \subseteq DOMAIN made'
        <4>1. Addr \subseteq DOMAIN made
          BY <1>2 DEF MadeInv
        <4> QED BY <1>3, <2>2, <3>3, <4>1
      <3>5. MadeInv'
        BY <1>0, <1>2, <1>3, <1>5, <2>2, <3>1, <3>4 DEF MadeInv
      <3>6. ~Deletes(n)
        BY <1>3, <2>2, NodeDoes DEF Deletes
      <3>7. \A o : Taken(o)' <=> Taken(o)
        BY <1>0, <1>5, <3>6, TakenSame
      <3>8. CloudInv'
        BY <1>0, <1>2, <1>3, <2>2, <3>3, <3>4, <3>7 DEF CloudInv
      <3> QED BY <3>5, <3>8
    <2>3. CASE ~Deletes(n) /\ ~Makes(n) /\ UNCHANGED made /\ DOMAIN cloud' = DOMAIN cloud
      <3>1. MadeInv'
        BY <1>0, <1>2, <1>4, <1>5, <2>3 DEF MadeInv
      <3>2. \A o : Taken(o)' <=> Taken(o)
        BY <1>0, <1>5, <2>3, TakenSame
      <3> QED BY <1>0, <1>2, <2>3, <3>1, <3>2 DEF CloudInv
    <2>4. CASE /\ ~CannotCall(n, worker[n].snapshot) /\ Deletes(n) /\ worker'[n].at = "ok"
               /\ UNCHANGED made
               /\ DOMAIN cloud' = DOMAIN cloud \ {CurrentObj(n, worker[n].snapshot)}
      <3>1. ~Makes(n)
        BY <1>3, <2>4, NodeDoes DEF Deletes
      <3>2. MadeInv'
        BY <1>0, <1>2, <1>4, <1>5, <2>4, <3>1 DEF MadeInv
      <3> DEFINE x == CurrentObj(n, worker[n].snapshot)
      <3>3. Target(n) = {x}
        BY <1>0, <1>1, <1>2, <1>3, <2>4, CurrentIsTarget DEF SnapshotInv
      <3> HIDE DEF x
      <3>4. x[1] = n.addr /\ \A b : x # <<b, 1>>
        BY <1>1, <1>3, <2>4, <3>3, OneTarget
      <3>5. \A m \in nodes : Target(m)' = Target(m)
        BY <1>0 DEF Target
      <3>6. \A o : Taken(o)' <=> Taken(o) \/ o = x
        <4> TAKE o
        <4>1. CASE o = x
          <5>1. Taken(o)'
            BY <1>0, <1>3, <1>5, <2>4, <3>3, <3>4, <3>5, <4>1 DEF Taken
          <5> QED BY <4>1, <5>1
        <4>2. CASE o # x
          <5>1. \A m \in nodes : o \in Target(m) => (Took(m)' <=> Took(m))
            BY <1>5, <3>3, <4>2
          <5> QED BY <1>0, <3>5, <4>2, <5>1 DEF Taken
        <4> QED BY <4>1, <4>2
      <3>7. CloudInv'
        BY <1>0, <1>2, <2>4, <3>4, <3>6 DEF CloudInv, x
      <3> QED BY <3>2, <3>7
    <2>5. /\ n.kind = "update" => ~Deletes(n) /\ ~Makes(n)
          /\ n.kind = "forget" => ~Deletes(n) /\ ~Makes(n)
      BY <1>3, NodeFacts DEF Deletes, Makes, NeedsDesired
    <2>6. UNCHANGED <<cloud, made>> => DOMAIN cloud' = DOMAIN cloud /\ UNCHANGED made
      OBVIOUS
    <2> HIDE DEF MadeInv, CloudInv
    <2> QED BY <2>1, <2>2, <2>3, <2>4, <2>5, <2>6, Carried
  <1> QED BY <1>6, <1>7, <1>8, <1>9

-----------------------------------------------------------------------------
(***************************************************************************)
(* A result.  A failure records nothing; a success moves one entry to what *)
(* the operation did (apply.go:262-340).                                   *)
(***************************************************************************)
LEMMA AgreeFailure ==
  ASSUME LoopInv, OutcomeInv, AgreeInv, NEW n \in InFlight, Receive(n), worker[n].at # "ok"
  PROVE  AgreeInv'
  <1>0. /\ RecordFailure(n) /\ owner = "receive" /\ worker[n].at # "called"
        /\ InFlight' = InFlight \ {n} /\ \A m \in InFlight' : worker'[m] = worker[m]
        /\ UNCHANGED <<input, plan, cloud, made, mem>>
        /\ persistFailed' = persistFailed \/ persistFailed' = TRUE
        /\ worker[n].at = "no_state" => persistFailed' = TRUE
    BY Received
  <1>1. /\ failed' = failed \cup {n} /\ UNCHANGED <<nodes, edges, released>>
        /\ status[n] = "dispatched" /\ Skip(n)
        /\ status' = [m \in nodes |-> IF m \in Visited(n) THEN "skipped" ELSE status[m]]
    BY <1>0 DEF RecordFailure, Skip
  <1>2. n \in nodes
    BY DEF LoopInv, ExecTypeOK
  <1>3. \A m \in nodes : status'[m] = "done" <=> status[m] = "done"
    <2>1. \A m \in Visited(n) : m # n => status[m] \in {"unstarted", "skipped"}
      BY <1>1, <1>2, VisitedUnstarted DEF LoopInv
    <2> QED BY <1>1, <2>1
  <1> SUFFICES ASSUME CleanupsAlone'
               PROVE  (MemInv /\ MadeInv /\ CloudInv /\ ReleasedInv /\ SnapshotInv /\ OutcomesInv)'
    BY DEF AgreeInv
  <1>4. CleanupsAlone
    BY <1>0 DEF CleanupsAlone
  <1>5. MemInv /\ MadeInv /\ CloudInv /\ ReleasedInv /\ SnapshotInv /\ OutcomesInv
    BY <1>0, <1>4 DEF AgreeInv
  <1>6. \A m \in nodes : Took(m)' <=> Took(m)
    BY <1>0, <1>1, <1>3 DEF Took
  <1>7. \A m \in nodes : MadeBy(m) => MadeBy(m)'
    <2> TAKE m \in nodes
    <2> HAVE MadeBy(m)
    <2>1. CASE status[m] = "done"
      BY <1>3, <2>1 DEF MadeBy
    <2>2. CASE m \in failed /\ persistFailed
      BY <1>0, <1>1, <2>2 DEF MadeBy
    <2>3. CASE m \in InFlight /\ worker[m].at \in {"ok", "no_state"} /\ m # n
      BY <1>0, <2>3 DEF MadeBy
    <2>4. CASE m = n /\ worker[m].at \in {"ok", "no_state"}
      BY <1>0, <1>1, <2>4 DEF MadeBy
    <2> QED BY <2>1, <2>2, <2>3, <2>4 DEF MadeBy
  <1>8. MemInv' /\ ReleasedInv'
    BY <1>0, <1>1, <1>3, <1>5, RecordingSame
  <1>9. MadeInv'
    BY <1>0, <1>1, <1>5, <1>6, <1>7 DEF MadeInv
  <1>10. CloudInv'
    <2>1. \A o : Taken(o)' <=> Taken(o)
      BY <1>0, <1>1, <1>6, TakenSame
    <2> QED BY <1>0, <1>5, <2>1 DEF CloudInv
  <1>11. SnapshotInv' /\ OutcomesInv'
    BY <1>0, <1>5 DEF SnapshotInv, OutcomesInv, OutcomeIs
  <1> QED BY <1>8, <1>9, <1>10, <1>11

\* Nothing set aside has been deleted where something is about to be made.
LEMMA SeesNothingCleaned ==
  ASSUME LoopInv, CleanupsAlone, MemInv, NEW n \in nodes, status[n] = "dispatched", Makes(n)
  PROVE  ~Cleaned(n.addr)
  <1> SUFFICES ASSUME NEW m \in nodes, m.addr = n.addr, TakesDeposed(m), status[m] = "done"
               PROVE  FALSE
    BY DEF Cleaned
  <1>1. m # n
    OBVIOUS
  <1>2. m.kind = "replace" /\ n.kind = "replace" /\ m.cbd = n.cbd
    BY <1>1, PhasesAtOneAddress
  <1>3. n.cbd /\ n.phase = "create"
    BY <1>2, NodeDoes DEF TakesDeposed
  <1>4. ~Cleaned(n.addr)
    BY <1>2, <1>3, SeesWhole
  <1> QED BY <1>4 DEF Cleaned

\* What a success leaves at its own address, and that it leaves the others.
LEMMA RecordedAt ==
  ASSUME LoopInv, CleanupsAlone, MemInv, OutcomesInv, NEW n \in InFlight, n \in nodes,
         status[n] = "dispatched", worker[n].at = "ok", mem' = Recorded(n, worker[n])
  PROVE  LET a == n.addr
         IN /\ \A b : b # a => (b \in DOMAIN mem' <=> b \in DOMAIN mem)
            /\ \A b \in DOMAIN mem : b # a => mem'[b] = mem[b]
            /\ IsRemoval(n) <=> a \notin DOMAIN mem'
            /\ TakesDeposed(n) =>
                 /\ a \in DOMAIN mem /\ Shaped(mem'[a])
                 /\ mem'[a].obj = mem[a].obj /\ mem'[a].deposed = <<>>
            /\ Makes(n) =>
                 /\ Shaped(mem'[a]) /\ mem'[a].obj = <<a, 1>>
                 /\ mem'[a].deposed = IF n.cbd THEN <<input.st[a].obj>> ELSE <<>>
            /\ n.kind = "update" =>
                 /\ a \in DOMAIN mem /\ Shaped(mem'[a])
                 /\ mem'[a].obj = mem[a].obj /\ mem'[a].deposed = mem[a].deposed
  <1> DEFINE a == n.addr
  <1>1. \A rec : /\ DOMAIN WithEntry(mem, a, rec) = DOMAIN mem \cup {a}
                 /\ WithEntry(mem, a, rec)[a] = rec
                 /\ \A b \in DOMAIN mem : b # a => WithEntry(mem, a, rec)[b] = mem[b]
    BY DEF WithEntry
  <1>2. CASE IsRemoval(n)
    <2>1. mem' = Without(mem, a)
      BY <1>2 DEF Recorded
    <2>2. DOMAIN mem' = DOMAIN mem \ {a} /\ \A b \in DOMAIN mem : b # a => mem'[b] = mem[b]
      BY <2>1 DEF Without
    <2>3. ~TakesDeposed(n) /\ ~Makes(n) /\ n.kind # "update"
      BY <1>2, NodeFacts, NodeDoes
    <2> QED BY <1>2, <2>2, <2>3
  <1>3. CASE TakesDeposed(n)
    <2>1. a \in DOMAIN mem
      BY <1>3, SeesDeposed
    <2>2. ~IsRemoval(n) /\ ~Makes(n) /\ n.kind # "update"
      BY <1>3, NodeFacts, NodeDoes
    <2> DEFINE rec == [mem[a] EXCEPT !.deposed = <<>>]
    <2>3. mem' = WithEntry(mem, a, rec)
      BY <1>3, <2>1, <2>2 DEF Recorded
    <2>4. Shaped(rec) /\ rec.obj = mem[a].obj /\ rec.deposed = <<>>
      BY <2>1, DeposedKnown DEF Shaped
    <2> HIDE DEF rec
    <2> QED BY <1>1, <2>1, <2>2, <2>3, <2>4
  <1>4. CASE NeedsDesired(n)
    <2>1. ~IsRemoval(n) /\ ~TakesDeposed(n)
      BY <1>4, NodeDoes
    <2> DEFINE rec == worker[n].record
    <2>2. OutcomeIs(n, rec)
      BY <1>4 DEF OutcomesInv
    <2>3. CASE n.kind = "replace" /\ n.cbd
      <3>1. a \in DOMAIN mem /\ mem[a].obj = input.st[a].obj
        BY <1>4, <2>3, NodeDoes, SeesWhole
      <3> DEFINE aside == [rec EXCEPT !.deposed = Append(@, mem[a].obj)]
      <3>2. mem' = WithEntry(mem, a, aside)
        BY <2>1, <2>3, <3>1 DEF Recorded
      <3>3. Shaped(aside) /\ aside.obj = <<a, 1>> /\ aside.deposed = Append(<<>>, mem[a].obj)
        BY <2>2, <2>3 DEF OutcomeIs, Shaped
      <3>4. Append(<<>>, mem[a].obj) = <<input.st[a].obj>>
        BY <3>1
      <3> HIDE DEF aside
      <3> QED BY <1>1, <2>1, <2>3, <3>2, <3>3, <3>4
    <2>4. CASE ~(n.kind = "replace" /\ n.cbd)
      <3>1. mem' = WithEntry(mem, a, rec)
        BY <2>1, <2>4 DEF Recorded
      <3>2. Makes(n) => ~n.cbd /\ n.kind # "update"
        BY <2>4, NodeFacts DEF Makes
      <3>3. n.kind = "update" => a \in DOMAIN mem /\ mem[a].obj = input.st[a].obj
        BY SeesWhole
      <3> HIDE DEF rec
      <3> QED BY <1>1, <2>1, <2>2, <3>1, <3>2, <3>3 DEF OutcomeIs
    <2> QED BY <2>3, <2>4
  <1>5. IsRemoval(n) \/ TakesDeposed(n) \/ NeedsDesired(n)
    BY NodeFacts, NodeDoes
  <1> QED BY <1>2, <1>3, <1>4, <1>5

\* One of the things an address can have recorded is new.
LEMMA NewlyRecorded ==
  ASSUME NEW n \in nodes, UNCHANGED <<nodes, input>>,
         \A m \in nodes : status'[m] = "done" <=> m = n \/ status[m] = "done"
  PROVE  \A a : /\ Created(a)' <=> Created(a) \/ (a = n.addr /\ Makes(n))
                /\ Removed(a)' <=> Removed(a) \/ (a = n.addr /\ IsRemoval(n))
                /\ Cleaned(a)' <=> Cleaned(a) \/ (a = n.addr /\ TakesDeposed(n))
                /\ SetsAside(a)' <=> SetsAside(a)
  <1> TAKE a
  <1>1. Created(a)' <=> Created(a) \/ (a = n.addr /\ Makes(n))
    BY DEF Created
  <1>2. Removed(a)' <=> Removed(a) \/ (a = n.addr /\ IsRemoval(n))
    BY DEF Removed
  <1>3. Cleaned(a)' <=> Cleaned(a) \/ (a = n.addr /\ TakesDeposed(n))
    BY DEF Cleaned
  <1>4. SetsAside(a)' <=> SetsAside(a)
    BY DEF SetsAside
  <1> QED BY <1>1, <1>2, <1>3, <1>4

LEMMA DeposedLists ==
  ASSUME NEW rs, NEW o
  PROVE  /\ rs.deposed = <<>> => LeftBehind(rs) = {} /\ rs.deposed \in Seq({})
         /\ rs.deposed = <<o>> => LeftBehind(rs) = {o} /\ rs.deposed \in Seq({o})
  <1>1. <<>> \in Seq({}) /\ {<<>>[i] : i \in DOMAIN <<>>} = {}
    OBVIOUS
  <1>2. <<o>> \in Seq({o})
    OBVIOUS
  <1>3. {<<o>>[i] : i \in DOMAIN <<o>>} = {o}
    <2>1. DOMAIN <<o>> = {1} /\ <<o>>[1] = o
      OBVIOUS
    <2> QED BY <2>1
  <1> QED BY <1>1, <1>2, <1>3 DEF LeftBehind

LEMMA MemSuccess ==
  ASSUME LoopInv, CleanupsAlone, MemInv, OutcomesInv, NEW n \in InFlight, n \in nodes,
         status[n] = "dispatched", worker[n].at = "ok", mem' = Recorded(n, worker[n]),
         UNCHANGED <<nodes, input>>,
         \A m \in nodes : status'[m] = "done" <=> m = n \/ status[m] = "done"
  PROVE  MemInv'
  <1> DEFINE a == n.addr
  <1>1. /\ \A b : b # a => (b \in DOMAIN mem' <=> b \in DOMAIN mem)
        /\ \A b \in DOMAIN mem : b # a => mem'[b] = mem[b]
        /\ IsRemoval(n) <=> a \notin DOMAIN mem'
        /\ TakesDeposed(n) =>
             /\ a \in DOMAIN mem /\ Shaped(mem'[a])
             /\ mem'[a].obj = mem[a].obj /\ mem'[a].deposed = <<>>
        /\ Makes(n) =>
             /\ Shaped(mem'[a]) /\ mem'[a].obj = <<a, 1>>
             /\ mem'[a].deposed = IF n.cbd THEN <<input.st[a].obj>> ELSE <<>>
        /\ n.kind = "update" =>
             /\ a \in DOMAIN mem /\ Shaped(mem'[a])
             /\ mem'[a].obj = mem[a].obj /\ mem'[a].deposed = mem[a].deposed
    BY RecordedAt
  <1>2. \A b : /\ Created(b)' <=> Created(b) \/ (b = a /\ Makes(n))
               /\ Removed(b)' <=> Removed(b) \/ (b = a /\ IsRemoval(n))
               /\ Cleaned(b)' <=> Cleaned(b) \/ (b = a /\ TakesDeposed(n))
               /\ SetsAside(b)' <=> SetsAside(b)
    BY NewlyRecorded
  <1>3. \A b : DeposedAt(b)' =
          IF Cleaned(b)' THEN {}
          ELSE IF Created(b)' THEN (IF SetsAside(b) THEN {input.st[b].obj} ELSE {})
          ELSE LeftBehind(input.st[b])
    BY <1>2 DEF DeposedAt
  <1>4. \A b : b # a => DeposedAt(b)' = DeposedAt(b)
    BY <1>2, <1>3 DEF DeposedAt
  <1>5. IsRemoval(n) \/ TakesDeposed(n) \/ Makes(n) \/ n.kind = "update"
    BY NodeFacts, NodeDoes
  <1>6. /\ a \in DOMAIN mem' <=> Created(a)' \/ (a \in DOMAIN input.st /\ ~Removed(a)')
        /\ a \in DOMAIN mem' =>
             /\ Shaped(mem'[a])
             /\ mem'[a].obj = IF Created(a)' THEN <<a, 1>> ELSE input.st[a].obj
             /\ LeftBehind(mem'[a]) = DeposedAt(a)' /\ mem'[a].deposed \in Seq(DeposedAt(a)')
    <2>1. CASE IsRemoval(n)
      <3>1. ~Makes(n)
        BY <2>1, NodeDoes
      <3>2. ~Created(a)
        BY <2>1, NodeFacts, SeesWhole DEF IsRemoval
      <3> QED BY <1>1, <1>2, <2>1, <3>1, <3>2
    <2>2. CASE TakesDeposed(n)
      <3>1. ~Makes(n) /\ ~IsRemoval(n)
        BY <2>2, NodeDoes
      <3>2. a \in DOMAIN mem /\ mem[a].obj = IF Created(a) THEN <<a, 1>> ELSE input.st[a].obj
        BY <1>1, <2>2 DEF MemInv
      <3>3. Created(a) \/ (a \in DOMAIN input.st /\ ~Removed(a))
        BY <3>2 DEF MemInv
      <3>4. Cleaned(a)' /\ DeposedAt(a)' = {}
        BY <1>2, <1>3, <2>2
      <3>5. LeftBehind(mem'[a]) = {} /\ mem'[a].deposed \in Seq({})
        BY <1>1, <2>2, DeposedLists
      <3> QED BY <1>1, <1>2, <2>2, <3>1, <3>2, <3>3, <3>4, <3>5
    <2>3. CASE Makes(n)
      <3>1. ~IsRemoval(n) /\ ~TakesDeposed(n)
        BY <2>3, NodeDoes
      <3>2. Created(a)' /\ ~Cleaned(a)'
        BY <1>2, <2>3, <3>1, SeesNothingCleaned
      <3>3. SetsAside(a) <=> n.cbd
        <4>1. \A m \in nodes : m.addr = a /\ Makes(m) => m = n
          BY <2>3, NodeDoes, OneMakes
        <4> QED BY <2>3, <4>1 DEF SetsAside
      <3>4. DeposedAt(a)' = IF n.cbd THEN {input.st[a].obj} ELSE {}
        BY <1>3, <3>2, <3>3
      <3>5. LeftBehind(mem'[a]) = DeposedAt(a)' /\ mem'[a].deposed \in Seq(DeposedAt(a)')
        <4>1. CASE n.cbd
          <5>1. mem'[a].deposed = <<input.st[a].obj>>
            BY <1>1, <2>3, <4>1
          <5>2. LeftBehind(mem'[a]) = {input.st[a].obj} /\ mem'[a].deposed \in Seq({input.st[a].obj})
            BY <5>1, DeposedLists
          <5> QED BY <3>4, <4>1, <5>2
        <4>2. CASE ~n.cbd
          <5>1. mem'[a].deposed = <<>>
            BY <1>1, <2>3, <4>2
          <5>2. LeftBehind(mem'[a]) = {} /\ mem'[a].deposed \in Seq({})
            BY <5>1, DeposedLists
          <5> QED BY <3>4, <4>2, <5>2
        <4> QED BY <4>1, <4>2
      <3> QED BY <1>1, <2>3, <3>1, <3>2, <3>5
    <2>4. CASE n.kind = "update"
      <3>1. ~Makes(n) /\ ~IsRemoval(n) /\ ~TakesDeposed(n)
        BY <2>4, NodeFacts, NodeDoes
      <3>2. a \in DOMAIN mem /\ ~Created(a) /\ ~Removed(a) /\ a \in DOMAIN input.st
        BY <2>4, SeesWhole
      <3>3. DeposedAt(a)' = DeposedAt(a)
        BY <1>2, <1>3, <3>1 DEF DeposedAt
      <3>4. LeftBehind(mem'[a]) = LeftBehind(mem[a])
        BY <1>1, <2>4 DEF LeftBehind
      <3>5. /\ mem[a].obj = input.st[a].obj /\ LeftBehind(mem[a]) = DeposedAt(a)
            /\ mem[a].deposed \in Seq(DeposedAt(a))
        BY <3>2 DEF MemInv
      <3> QED BY <1>1, <1>2, <2>4, <3>1, <3>2, <3>3, <3>4, <3>5
    <2> QED BY <1>5, <2>1, <2>2, <2>3, <2>4
  <1>7. \A b : b # a =>
          /\ b \in DOMAIN mem' <=> Created(b)' \/ (b \in DOMAIN input.st /\ ~Removed(b)')
          /\ b \in DOMAIN mem' =>
               /\ Shaped(mem'[b])
               /\ mem'[b].obj = IF Created(b)' THEN <<b, 1>> ELSE input.st[b].obj
               /\ LeftBehind(mem'[b]) = DeposedAt(b)' /\ mem'[b].deposed \in Seq(DeposedAt(b)')
    BY <1>1, <1>2, <1>4 DEF MemInv
  <1> HIDE DEF a
  <1>8. /\ \A b : b \in DOMAIN mem' <=> Created(b)' \/ (b \in DOMAIN input.st /\ ~Removed(b)')
        /\ \A b \in DOMAIN mem' :
             /\ Shaped(mem'[b])
             /\ mem'[b].obj = IF Created(b)' THEN <<b, 1>> ELSE input.st[b].obj
             /\ LeftBehind(mem'[b]) = DeposedAt(b)' /\ mem'[b].deposed \in Seq(DeposedAt(b)')
    BY <1>6, <1>7
  <1> QED BY <1>8 DEF MemInv, Shaped

LEMMA AgreeSuccess ==
  ASSUME LoopInv, OutcomeInv, AgreeInv, NEW n \in InFlight, Receive(n), worker[n].at = "ok"
  PROVE  AgreeInv'
  <1>0. /\ RecordSuccess(n) /\ mem' = Recorded(n, worker[n]) /\ owner = "receive"
        /\ InFlight' = InFlight \ {n} /\ \A m \in InFlight' : worker'[m] = worker[m]
        /\ UNCHANGED <<input, plan, cloud, made>>
        /\ persistFailed' = persistFailed \/ persistFailed' = TRUE
    BY Received
  <1>1. /\ UNCHANGED <<nodes, edges, failed>> /\ status[n] = "dispatched"
        /\ released' = IF n.kind = "forget" /\ n.addr \in DOMAIN mem
                       THEN released \cup {mem[n.addr].obj} ELSE released
        /\ status' = [m \in nodes |-> IF m = n THEN "done"
                                      ELSE IF m \in NewlyReady(n) THEN "dispatched"
                                      ELSE status[m]]
    BY <1>0 DEF RecordSuccess, Done
  <1>2. n \in nodes /\ \A m \in InFlight : m \in nodes /\ status[m] = "dispatched"
    BY <1>0 DEF LoopInv, ExecTypeOK, HandedOut, Dispatched
  <1>3. \A m \in nodes : status'[m] = "done" <=> m = n \/ status[m] = "done"
    <2>1. \A m \in NewlyReady(n) : status[m] = "unstarted"
      BY DEF NewlyReady, DecrementedBy
    <2> QED BY <1>1, <2>1
  <1> SUFFICES ASSUME CleanupsAlone'
               PROVE  (MemInv /\ MadeInv /\ CloudInv /\ ReleasedInv /\ SnapshotInv /\ OutcomesInv)'
    BY DEF AgreeInv
  <1>4. CleanupsAlone
    BY <1>0 DEF CleanupsAlone
  <1>5. MemInv /\ MadeInv /\ CloudInv /\ ReleasedInv /\ SnapshotInv /\ OutcomesInv
    BY <1>0, <1>4 DEF AgreeInv
  <1>6. \A m \in nodes : (Took(m)' <=> Took(m)) /\ (MadeBy(m) => MadeBy(m)')
    BY <1>0, <1>1, <1>2, <1>3 DEF Took, MadeBy
  <1>7. MemInv'
    BY <1>0, <1>1, <1>2, <1>3, <1>4, <1>5, MemSuccess
  <1>8. MadeInv'
    BY <1>0, <1>1, <1>5, <1>6 DEF MadeInv
  <1>9. CloudInv'
    <2>1. \A o : Taken(o)' <=> Taken(o)
      BY <1>0, <1>1, <1>6, TakenSame
    <2> QED BY <1>0, <1>5, <2>1 DEF CloudInv
  <1>10. ReleasedInv'
    <2>1. n.kind = "forget" => n.addr \in DOMAIN mem /\ mem[n.addr].obj = input.st[n.addr].obj
      BY <1>1, <1>2, <1>4, <1>5, SeesWhole
    <2>2. \A o : o \in released' <=> o \in released \/ (n.kind = "forget" /\ o = input.st[n.addr].obj)
      BY <1>1, <2>1
    <2>3. \A o : o \in released' <=>
            \E m \in nodes : m.kind = "forget" /\ (m = n \/ status[m] = "done")
                             /\ o = input.st[m.addr].obj
      BY <1>2, <1>5, <2>2 DEF ReleasedInv
    <2> QED BY <1>0, <1>1, <1>3, <2>3 DEF ReleasedInv
  <1>11. \A m \in InFlight' :
           /\ m \in InFlight /\ m.addr # n.addr /\ worker'[m] = worker[m]
           /\ m.addr \in DOMAIN mem' <=> m.addr \in DOMAIN mem
           /\ m.addr \in DOMAIN mem => mem'[m.addr] = mem[m.addr]
    <2>1. \A m \in InFlight' : m \in InFlight /\ m.addr # n.addr
      BY <1>0, <1>1, <1>2, <1>4, OneOutPerAddress
    <2>2. /\ \A b : b # n.addr => (b \in DOMAIN mem' <=> b \in DOMAIN mem)
          /\ \A b \in DOMAIN mem : b # n.addr => mem'[b] = mem[b]
      BY <1>0, <1>1, <1>2, <1>4, <1>5, RecordedAt
    <2> QED BY <1>0, <2>1, <2>2
  <1>12. SnapshotInv'
    BY <1>5, <1>11 DEF SnapshotInv
  <1>13. OutcomesInv'
    <2>1. \A m \in InFlight' : m.kind = "update" => mem'[m.addr].deposed = mem[m.addr].deposed
      BY <1>2, <1>4, <1>5, <1>11, SeesWhole
    <2>2. \A m \in InFlight' : worker'[m].at = "ok" /\ NeedsDesired(m) =>
             /\ Shaped(worker'[m].record)
             /\ worker'[m].record.obj = IF m.kind = "update" THEN input'.st[m.addr].obj ELSE <<m.addr, 1>>
             /\ worker'[m].record.deposed = IF m.kind = "update" THEN mem'[m.addr].deposed ELSE <<>>
      BY <1>0, <1>5, <1>11, <2>1 DEF OutcomesInv, OutcomeIs
    <2> QED BY <2>2 DEF OutcomesInv, OutcomeIs
  <1> QED BY <1>7, <1>8, <1>9, <1>10, <1>12, <1>13

LEMMA AgreeNext ==
  LoopInv /\ OutcomeInv /\ AgreeInv /\ [ExecNext]_execVars => AgreeInv'
  <1> SUFFICES ASSUME LoopInv, OutcomeInv, AgreeInv, [ExecNext]_execVars PROVE AgreeInv'
    OBVIOUS
  <1>1. CASE Crash
    BY <1>1 DEF Crash, AgreeInv
  <1>2. CASE owner = "dead"
    <2>1. owner' = "dead"
      BY <1>2 DEF ExecNext, Top, Schedule, Execute, Receive, Cancel, Crash, Running, execVars
    <2> QED BY <2>1 DEF AgreeInv
  <1>3. CASE owner # "dead" /\ (Top \/ Cancel \/ UNCHANGED execVars)
    <2>1. UNCHANGED <<nodes, edges, status, input, plan, mem, cloud, made, released, failed,
                      persistFailed, worker>>
      BY <1>3 DEF Top, Cancel, execVars, walkVars, runVars, cloudVars, stateVars, stopVars, resultVars
    <2>2. InFlight' = InFlight
      BY <2>1 DEF InFlight
    <2> QED BY <1>3, <2>1, <2>2, AgreeQuiet
  <1>4. CASE owner # "dead" /\ Schedule
    <2>1. UNCHANGED <<nodes, edges, status, input, plan, mem, cloud, made, released, failed,
                      persistFailed>>
      BY <1>4 DEF Schedule, walkVars, runVars, cloudVars, stateVars, stopVars, resultVars
    <2>2. PICK L \in SUBSET DOMAIN queue : Launch(L)
      BY <1>4 DEF Schedule
    <2>3. /\ InFlight \subseteq InFlight'
          /\ \A n \in InFlight' : worker'[n] = IF n \in InFlight THEN worker[n] ELSE Called
      BY <1>4, <2>2, Launched
    <2>4. Called.at = "called" /\ Called.snapshot = mem
      BY DEF Called
    <2> QED BY <1>4, <2>1, <2>3, <2>4, AgreeQuiet
  <1>5. ASSUME NEW n \in InFlight, Execute(n) PROVE AgreeInv'
    BY <1>5, AgreeExecute
  <1>6. ASSUME NEW n \in InFlight, Receive(n) PROVE AgreeInv'
    BY <1>6, AgreeFailure, AgreeSuccess
  <1> QED BY <1>1, <1>2, <1>3, <1>4, <1>5, <1>6 DEF ExecNext, InFlight

-----------------------------------------------------------------------------
(***************************************************************************)
(* What exists is named, and what is named exists.                         *)
(***************************************************************************)
\* A replacement that made its new object: by create-before-destroy it has
\* set the old one aside, otherwise it deleted it first.
LEMMA MakerDone ==
  ASSUME LoopInv, CleanupsAlone, NEW n \in nodes, Makes(n), status[n] = "done",
         n.addr \in DOMAIN input.st, ~Gone(input, n.addr)
  PROVE  /\ n.kind = "replace" /\ (n.cbd <=> SetsAside(n.addr))
         /\ ~n.cbd => Taken(input.st[n.addr].obj)
  <1>1. n.kind = "replace" /\ n.phase = "create"
    BY NodeFacts, NodeDoes
  <1>2. n.cbd <=> SetsAside(n.addr)
    <2>1. \A m \in nodes : m.addr = n.addr /\ Makes(m) => m = n
      BY NodeDoes, OneMakes
    <2> QED BY <2>1 DEF SetsAside
  <1>3. ASSUME ~n.cbd PROVE Taken(input.st[n.addr].obj)
    <2>1. PICK d \in nodes : /\ d.addr = n.addr /\ d.kind = "replace" /\ d.phase = "destroy"
                             /\ d \in Preds(n)
      <3>1. PICK d \in nodes, c \in nodes :
              /\ d.addr = n.addr /\ d.kind = "replace" /\ d.phase = "destroy"
              /\ c.addr = n.addr /\ c.phase = "create"
              /\ n = d \/ n = c
              /\ IF n.cbd THEN c \in Preds(d) ELSE d \in Preds(c)
        BY <1>1, BothPhases
      <3>2. n = c
        BY <1>1, <3>1
      <3> QED BY <1>3, <3>1, <3>2
    <2>2. status[d] = "done"
      BY <2>1 DEF LoopInv, WalkInv, DispatchedAfterPreds
    <2>3. Deletes(d) /\ Took(d) /\ input.st[n.addr].obj \in Target(d)
      BY <2>1, <2>2 DEF Deletes, Took, Target
    <2>4. input.st[n.addr].obj[1] = n.addr
      BY RecordedObjects
    <2> QED BY <2>1, <2>3, <2>4 DEF Taken
  <1> QED BY <1>1, <1>2, <1>3

LEMMA LiveIsRecorded ==
  ASSUME LoopInv, NEW o \in DOMAIN LiveAtStart(input)
  PROVE  \E a \in DOMAIN input.st :
           /\ o[1] = a
           /\ (o = input.st[a].obj /\ ~Gone(input, a)) \/ o \in LeftBehind(input.st[a])
  <1>1. \E a \in DOMAIN input.st :
          (o = input.st[a].obj /\ ~Gone(input, a)) \/ o \in LeftBehind(input.st[a])
    BY DEF LiveAtStart
  <1> QED BY <1>1, RecordedObjects

\* An object that exists is named or released, or is the new object of an
\* operation that is out or was reported failed.
Brought(o) ==
  \E n \in nodes :
    /\ Makes(n) /\ o = <<n.addr, 1>> /\ made[n.addr] = 1
    /\ \/ n \in failed /\ persistFailed
       \/ n \in InFlight /\ worker[n].at \in {"ok", "no_state"}

LEMMA ExistingIsSomewhere ==
  ASSUME LoopInv, AgreeInv, CleanupsAlone, owner # "dead", NEW o \in DOMAIN cloud
  PROVE  o \in Names(mem) \cup released \/ Brought(o)
  <1>0. MemInv /\ MadeInv /\ CloudInv /\ ReleasedInv
    BY DEF AgreeInv
  <1>1. \A a \in DOMAIN mem : o = mem[a].obj \/ o \in DeposedAt(a) => o \in Names(mem)
    <2> TAKE a \in DOMAIN mem
    <2>1. {mem[a].obj} \cup LeftBehind(mem[a]) \subseteq Names(mem)
      BY DEF Names
    <2>2. LeftBehind(mem[a]) = DeposedAt(a)
      BY <1>0 DEF MemInv
    <2> QED BY <2>1, <2>2
  <1>2. ASSUME NEW a \in Addr, o = <<a, 1>>, made[a] = 1
        PROVE  o \in Names(mem) \/ Brought(o)
    <2>1. PICK n \in nodes : n.addr = a /\ Makes(n) /\ MadeBy(n)
      BY <1>0, <1>2 DEF MadeInv
    <2>2. CASE status[n] = "done"
      <3>1. Created(a)
        BY <2>1, <2>2 DEF Created
      <3>2. a \in DOMAIN mem /\ mem[a].obj = <<a, 1>>
        BY <1>0, <3>1 DEF MemInv
      <3> QED BY <1>1, <1>2, <3>2
    <2>3. CASE status[n] # "done"
      BY <1>2, <2>1, <2>3 DEF MadeBy, Brought
    <2> QED BY <2>2, <2>3
  <1>3. ASSUME o \in DOMAIN LiveAtStart(input), ~Taken(o)
        PROVE  o \in Names(mem) \cup released
    <2>1. PICK a \in DOMAIN input.st :
            /\ o[1] = a
            /\ (o = input.st[a].obj /\ ~Gone(input, a)) \/ o \in LeftBehind(input.st[a])
      BY <1>3, LiveIsRecorded
    <2>2. CASE o = input.st[a].obj /\ ~Gone(input, a)
      <3>1. CASE Created(a)
        <4>1. PICK n \in nodes : n.addr = a /\ Makes(n) /\ status[n] = "done"
          BY <3>1 DEF Created
        <4>2. n.kind = "replace" /\ n.cbd /\ SetsAside(a)
          BY <1>3, <2>2, <4>1, MakerDone
        <4>3. ~Cleaned(a)
          <5> SUFFICES ASSUME NEW m \in nodes, m.addr = a, TakesDeposed(m), status[m] = "done"
                       PROVE  FALSE
            BY DEF Cleaned
          <5>1. m # n
            BY <4>1, NodeDoes
          <5>2. m.kind = "replace"
            BY <4>1, <5>1, PhasesAtOneAddress
          <5>3. Deletes(m) /\ Took(m) /\ o \in Target(m)
            BY <2>2, <5>2, NodeDoes DEF Took, Target
          <5> QED BY <1>3, <2>1, <5>3 DEF Taken
        <4>4. o \in DeposedAt(a)
          BY <2>2, <3>1, <4>2, <4>3 DEF DeposedAt
        <4> QED BY <1>0, <1>1, <3>1, <4>4 DEF MemInv
      <3>2. CASE ~Created(a) /\ ~Removed(a)
        BY <1>0, <1>1, <2>2, <3>2 DEF MemInv
      <3>3. CASE Removed(a)
        <4>1. PICK m \in nodes : m.addr = a /\ IsRemoval(m) /\ status[m] = "done"
          BY <3>3 DEF Removed
        <4>2. CASE m.kind = "forget"
          BY <1>0, <2>2, <4>1, <4>2 DEF ReleasedInv
        <4>3. CASE m.kind # "forget"
          <5>1. Deletes(m) /\ Took(m) /\ o \in Target(m)
            BY <2>2, <4>1, <4>3, NodeDoes DEF Deletes, Took, Target, TakesDeposed
          <5> QED BY <1>3, <2>1, <4>1, <5>1 DEF Taken
        <4> QED BY <4>2, <4>3
      <3> QED BY <3>1, <3>2, <3>3
    <2>3. CASE o \in LeftBehind(input.st[a])
      <3>1. \A m \in nodes : m.addr = a => m.kind = "destroy_deposed"
        BY <2>3, LeftBehindAlone
      <3>2. ~Created(a) /\ ~Removed(a)
        BY <3>1, NodeFacts DEF Created, Removed, Makes, IsRemoval, NeedsDesired
      <3>3. ~Cleaned(a)
        <4> SUFFICES ASSUME NEW m \in nodes, m.addr = a, TakesDeposed(m), status[m] = "done"
                     PROVE  FALSE
          BY DEF Cleaned
        <4>1. Deletes(m) /\ Took(m) /\ o \in Target(m)
          BY <2>3, <3>1, NodeDoes DEF Took, Target
        <4> QED BY <1>3, <2>1, <4>1 DEF Taken
      <3>4. o \in DeposedAt(a)
        BY <2>3, <3>2, <3>3 DEF DeposedAt
      <3> QED BY <1>0, <1>1, <2>1, <3>2, <3>4 DEF MemInv
    <2> QED BY <2>1, <2>2, <2>3
  <1>4. \/ \E a \in Addr : o = <<a, 1>> /\ made[a] = 1
        \/ o \in DOMAIN LiveAtStart(input) /\ ~Taken(o)
    BY <1>0 DEF CloudInv
  <1> QED BY <1>2, <1>3, <1>4

LEMMA ExistingIsNamed ==
  ASSUME LoopInv, AgreeInv, CleanupsAlone
  PROVE  EveryObjectIsNamed
  <1> SUFFICES ASSUME owner # "dead", NEW o \in DOMAIN cloud, Brought(o)
               PROVE  o \in InHand \cup Unreported
    BY ExistingIsSomewhere DEF EveryObjectIsNamed
  <1>1. PICK n \in nodes :
          /\ Makes(n) /\ o = <<n.addr, 1>>
          /\ \/ n \in failed
             \/ n \in InFlight /\ worker[n].at \in {"ok", "no_state"}
    BY DEF Brought
  <1>2. NeedsDesired(n) /\ n.kind # "update" /\ n.addr = o[1]
    BY <1>1 DEF Makes
  <1>3. CASE n \in failed \/ (n \in InFlight /\ worker[n].at = "no_state")
    BY <1>2, <1>3 DEF Unreported
  <1>4. CASE n \in InFlight /\ worker[n].at = "ok"
    <2>1. worker[n].record.obj = o
      BY <1>1, <1>2, <1>4 DEF AgreeInv, OutcomesInv, OutcomeIs
    <2> QED BY <1>4, <2>1 DEF InHand
  <1> QED BY <1>1, <1>3, <1>4

\* A deletion that has been carried out of what is still named is one whose
\* result has not been received.
LEMMA TakenYetNamed ==
  ASSUME LoopInv, CleanupsAlone, NEW a \in DOMAIN input.st, NEW o, Taken(o), o[1] = a,
         \/ ~Created(a) /\ ~Removed(a) /\ o = input.st[a].obj
         \/ ~Created(a) /\ ~Cleaned(a) /\ o \in LeftBehind(input.st[a])
         \/ Created(a) /\ SetsAside(a) /\ ~Cleaned(a)
  PROVE  \E m \in InFlight :
           worker[m].at = "ok" /\ m.addr = o[1] /\ m.phase = "destroy" /\ m.kind # "forget"
  <1>1. PICK m \in nodes : m.addr = a /\ Deletes(m) /\ Took(m) /\ o \in Target(m)
    BY DEF Taken
  <1>2. SUFFICES ASSUME status[m] = "done" PROVE FALSE
    BY <1>1 DEF Took, Deletes
  <1>3. TakesDeposed(m) => Cleaned(a)
    BY <1>1, <1>2 DEF Cleaned
  <1>4. ~TakesDeposed(m) => Removed(a)
    BY <1>1, <1>2, NodeDoes DEF Removed, Deletes
  <1>5. CASE ~Created(a) /\ ~Removed(a) /\ o = input.st[a].obj
    <2>1. TakesDeposed(m)
      BY <1>4, <1>5
    <2>2. CASE m.kind = "destroy_deposed"
      BY <1>1, <1>5, <2>2, RecordedObjects DEF Target
    <2>3. CASE m.kind # "destroy_deposed"
      <3>1. m.kind = "replace" /\ m.cbd /\ m.phase = "destroy"
        BY <2>1, <2>3 DEF TakesDeposed
      <3>2. PICK c \in nodes : c.addr = a /\ c.kind = "replace" /\ c.phase = "create" /\ c \in Preds(m)
        <4>1. PICK d \in nodes, c \in nodes :
                /\ d.addr = m.addr /\ d.phase = "destroy"
                /\ c.addr = m.addr /\ c.kind = "replace" /\ c.phase = "create"
                /\ m = d \/ m = c
                /\ IF m.cbd THEN c \in Preds(d) ELSE d \in Preds(c)
          BY <3>1, BothPhases
        <4>2. m = d
          BY <3>1, <4>1
        <4> QED BY <1>1, <3>1, <4>1, <4>2
      <3>3. status[c] = "done"
        BY <1>2, <3>2 DEF LoopInv, WalkInv, DispatchedAfterPreds
      <3> QED BY <1>5, <3>2, <3>3, NodeDoes DEF Created
    <2> QED BY <2>2, <2>3
  <1>6. CASE ~Created(a) /\ ~Cleaned(a) /\ o \in LeftBehind(input.st[a])
    <2>1. m.kind = "destroy_deposed"
      BY <1>1, <1>6, LeftBehindAlone
    <2> QED BY <1>3, <1>6, <2>1 DEF TakesDeposed
  <1>7. CASE Created(a) /\ SetsAside(a) /\ ~Cleaned(a)
    <2>1. PICK n \in nodes : n.addr = a /\ Makes(n) /\ n.cbd
      BY <1>7 DEF SetsAside
    <2>2. m # n
      BY <1>1, <2>1, NodeDoes DEF Deletes
    <2>3. m.kind = "replace" /\ m.cbd
      BY <1>1, <2>1, <2>2, PhasesAtOneAddress
    <2> QED BY <1>1, <1>3, <1>7, <2>3 DEF TakesDeposed, Deletes
  <1> QED BY <1>5, <1>6, <1>7

LEMMA NamedIsReal ==
  ASSUME LoopInv, AgreeInv, CleanupsAlone
  PROVE  RecordsAreReal
  <1> SUFFICES ASSUME owner # "dead", NEW o \in Names(mem)
               PROVE  o \in DOMAIN cloud \cup BeingDeleted \cup GoneBefore
    BY DEF RecordsAreReal
  <1>0. MemInv /\ MadeInv /\ CloudInv
    BY DEF AgreeInv
  <1>1. PICK a \in DOMAIN mem : o = mem[a].obj \/ o \in DeposedAt(a)
    BY <1>0 DEF MemInv, Names
  <1>2. /\ Created(a) \/ (a \in DOMAIN input.st /\ ~Removed(a))
        /\ mem[a].obj = IF Created(a) THEN <<a, 1>> ELSE input.st[a].obj
    BY <1>0 DEF MemInv
  <1>3. ASSUME o \in DOMAIN LiveAtStart(input), a \in DOMAIN input.st, o[1] = a,
               \/ ~Created(a) /\ ~Removed(a) /\ o = input.st[a].obj
               \/ ~Created(a) /\ ~Cleaned(a) /\ o \in LeftBehind(input.st[a])
               \/ Created(a) /\ SetsAside(a) /\ ~Cleaned(a)
        PROVE  o \in DOMAIN cloud \cup BeingDeleted
    <2>1. CASE Taken(o)
      BY <1>3, <2>1, TakenYetNamed DEF BeingDeleted
    <2>2. CASE ~Taken(o)
      BY <1>0, <1>3, <2>2 DEF CloudInv
    <2> QED BY <2>1, <2>2
  <1>4. CASE Created(a)
    <2>1. PICK n \in nodes : n.addr = a /\ Makes(n) /\ status[n] = "done"
      BY <1>4 DEF Created
    <2>2. a \in Addr /\ Took(n)
      BY <2>1, NodeFacts DEF Took
    <2>3. CASE o = mem[a].obj
      BY <1>0, <1>2, <1>4, <2>1, <2>2, <2>3 DEF MadeInv, CloudInv
    <2>4. CASE o \in DeposedAt(a)
      <3>1. ~Cleaned(a) /\ SetsAside(a) /\ o = input.st[a].obj
        BY <1>4, <2>4 DEF DeposedAt
      <3>2. PICK m \in nodes : m.addr = a /\ Makes(m) /\ m.cbd
        BY <3>1 DEF SetsAside
      <3>3. a \in DOMAIN input.st /\ ~Gone(input, a)
        BY <3>2, NodeFacts
      <3>4. o \in DOMAIN LiveAtStart(input) /\ o[1] = a
        BY <3>1, <3>3, RecordedObjects DEF LiveAtStart
      <3> QED BY <1>3, <1>4, <3>1, <3>3, <3>4
    <2> QED BY <1>1, <2>3, <2>4
  <1>5. CASE ~Created(a)
    <2>1. a \in DOMAIN input.st /\ ~Removed(a)
      BY <1>2, <1>5
    <2>2. CASE o = mem[a].obj
      <3>1. o = input.st[a].obj /\ o[1] = a
        BY <1>2, <1>5, <2>1, <2>2, RecordedObjects
      <3>2. CASE Gone(input, a)
        BY <2>1, <3>1, <3>2 DEF GoneBefore
      <3>3. CASE ~Gone(input, a)
        <4>1. o \in DOMAIN LiveAtStart(input)
          BY <2>1, <3>1, <3>3 DEF LiveAtStart
        <4> QED BY <1>3, <1>5, <2>1, <3>1, <4>1
      <3> QED BY <3>2, <3>3
    <2>3. CASE o \in DeposedAt(a)
      <3>1. ~Cleaned(a) /\ o \in LeftBehind(input.st[a])
        BY <1>5, <2>3 DEF DeposedAt
      <3>2. o \in DOMAIN LiveAtStart(input) /\ o[1] = a
        BY <2>1, <3>1, RecordedObjects DEF LiveAtStart
      <3> QED BY <1>3, <1>5, <2>1, <3>1, <3>2
    <2> QED BY <1>1, <2>2, <2>3
  <1> QED BY <1>4, <1>5

(***************************************************************************)
(* apply.go:249-340, docs/configuration.md:325-335.  At every point of     *)
(* every run but a crash's, whatever the plan, the order of completions,   *)
(* the failed calls and the failed writes: every object that exists is     *)
(* named in state, or held by a worker whose result will name it, or was   *)
(* released, or was reported as made and not described; and everything     *)
(* state names exists, but for what a worker has just deleted.             *)
(***************************************************************************)
THEOREM StateAgreesWithProviders == ExecSpec => [](CleanupsAlone => StateNamesWhatExists)
  <1> DEFINE I == LoopInv /\ OutcomeInv /\ ReportInv /\ AgreeInv
  <1>1. ExecInit => I
    BY LoopInit, ReportInit, AgreeInit
  <1>2. I /\ [ExecNext]_execVars => I'
    BY LoopNext, ReportNext, AgreeNext
  <1>3. I => (CleanupsAlone => StateNamesWhatExists)
    BY ExistingIsNamed, NamedIsReal DEF StateNamesWhatExists
  <1> QED BY <1>1, <1>2, <1>3, PTL DEF ExecSpec

-----------------------------------------------------------------------------
(***************************************************************************)
(* How far the state on disk is behind.  Only an address with a call out,  *)
(* with a record the backend did not take, or with an object made and not  *)
(* described can differ; and from the first of the last two on nothing is  *)
(* launched, so that there are never more of them than may be out at once. *)
(***************************************************************************)
SameEntry(a) ==
  /\ a \in DOMAIN mem <=> a \in DOMAIN disk
  /\ a \in DOMAIN mem => mem[a] = disk[a]

LostMake(a) == \E n \in failed : n.addr = a /\ Makes(n) /\ made[a] = 1

Outs == {n.addr : n \in InFlight}

Unsettled == {a \in Addr : a \in Outs \/ ~SameEntry(a) \/ LostMake(a)}

OwnNames(st) == \A b \in DOMAIN st : \A o \in {st[b].obj} \cup LeftBehind(st[b]) : o[1] = b

SettledInv ==
  /\ ~persistFailed => disk = mem
  /\ OwnNames(disk)
  /\ Cardinality(Unsettled) <= Parallelism

LagInv ==
  CleanupsAlone =>
    /\ owner = "dead" => InFlight = {} /\ DiskLag
    /\ owner # "dead" => SettledInv

LEMMA RecordsNameTheirOwn ==
  ASSUME LoopInv, CleanupsAlone, MemInv
  PROVE  OwnNames(mem)
  <1> SUFFICES ASSUME NEW b \in DOMAIN mem, NEW o \in {mem[b].obj} \cup LeftBehind(mem[b])
               PROVE  o[1] = b
    BY DEF OwnNames
  <1>1. /\ o = mem[b].obj \/ o \in DeposedAt(b)
        /\ mem[b].obj = IF Created(b) THEN <<b, 1>> ELSE input.st[b].obj
        /\ Created(b) \/ b \in DOMAIN input.st
    BY DEF MemInv
  <1>2. CASE o = mem[b].obj
    BY <1>1, <1>2, RecordedObjects
  <1>3. CASE o \in DeposedAt(b)
    <2>1. SetsAside(b) => b \in DOMAIN input.st
      BY NodeFacts DEF SetsAside
    <2>2. b \in DOMAIN input.st /\ o \in {input.st[b].obj} \cup LeftBehind(input.st[b])
      BY <1>1, <1>3, <2>1 DEF DeposedAt
    <2> QED BY <2>2, RecordedObjects
  <1> QED BY <1>1, <1>2, <1>3

\* What was gone before the run is not there again.
LEMMA GoneStaysGone ==
  ASSUME LoopInv, CloudInv, NEW o \in GoneBefore
  PROVE  o \notin DOMAIN cloud
  <1>1. PICK b \in DOMAIN input.st : o = input.st[b].obj /\ Gone(input, b)
    BY DEF GoneBefore
  <1>2. o[1] = b /\ o \notin LeftBehind(input.st[b]) /\ \A a : o # <<a, 1>>
    BY <1>1, RecordedObjects
  <1>3. o \notin DOMAIN LiveAtStart(input)
    BY <1>1, <1>2, LiveIsRecorded
  <1> QED BY <1>2, <1>3 DEF CloudInv

\* What was released is not named any more.
LEMMA ReleasedUnnamed ==
  ASSUME LoopInv, CleanupsAlone, MemInv, ReleasedInv, NEW o \in released
  PROVE  o \notin Names(mem)
  <1>1. PICK n \in nodes : n.kind = "forget" /\ status[n] = "done" /\ o = input.st[n.addr].obj
    BY DEF ReleasedInv
  <1>2. o[1] = n.addr
    BY <1>1, NodeFacts, RecordedObjects
  <1>3. Removed(n.addr)
    BY <1>1 DEF Removed, IsRemoval
  <1>4. ~Created(n.addr)
    <2>1. \A m \in nodes : m.addr = n.addr => m = n
      BY <1>1, AloneAt
    <2>2. ~Makes(n)
      BY <1>1 DEF Makes, NeedsDesired
    <2> QED BY <2>1, <2>2 DEF Created
  <1>5. n.addr \notin DOMAIN mem
    BY <1>3, <1>4 DEF MemInv
  <1> QED BY <1>2, <1>5, RecordsNameTheirOwn DEF Names, OwnNames

\* An address that has settled is on disk as it is.
LEMMA SettledAgrees ==
  ASSUME LoopInv, AgreeInv, CleanupsAlone, owner # "dead", OwnNames(disk),
         NEW a \in Addr, a \notin Unsettled
  PROVE  ObjectsOf(a, DOMAIN cloud \ released) = ObjectsOf(a, Names(disk) \ GoneBefore)
  <1>0. MemInv /\ MadeInv /\ CloudInv /\ ReleasedInv
    BY DEF AgreeInv
  <1>1. SameEntry(a) /\ ~LostMake(a) /\ \A n \in InFlight : n.addr # a
    BY DEF Unsettled, Outs
  <1>2. \A o : o[1] = a => (o \in Names(mem) <=> o \in Names(disk))
    <2>1. OwnNames(mem)
      BY <1>0, RecordsNameTheirOwn
    <2>2. \A st, o : OwnNames(st) /\ o[1] = a =>
            (o \in Names(st) <=> a \in DOMAIN st /\ o \in {st[a].obj} \cup LeftBehind(st[a]))
      BY DEF OwnNames, Names
    <2> QED BY <1>1, <2>1, <2>2 DEF SameEntry
  <1>3. ASSUME NEW o \in DOMAIN cloud \ released, o[1] = a
        PROVE  o \in Names(disk) \ GoneBefore
    <2>1. ~Brought(o)
      BY <1>1, <1>3 DEF Brought, LostMake
    <2> QED BY <1>0, <1>2, <1>3, <2>1, ExistingIsSomewhere, GoneStaysGone
  <1>4. ASSUME NEW o \in Names(disk) \ GoneBefore, o[1] = a
        PROVE  o \in DOMAIN cloud \ released
    <2>1. o \in Names(mem)
      BY <1>2, <1>4
    <2>2. o \notin BeingDeleted
      BY <1>1, <1>4 DEF BeingDeleted
    <2> QED BY <1>0, <1>4, <2>1, <2>2, NamedIsReal, ReleasedUnnamed DEF RecordsAreReal
  <1> QED BY <1>3, <1>4 DEF ObjectsOf

LEMMA SettledIsNear ==
  ASSUME LoopInv, AgreeInv, CleanupsAlone, owner # "dead", SettledInv
  PROVE  DiskLag
  <1> DEFINE lag == {a \in Addr :
               ObjectsOf(a, DOMAIN cloud \ released) # ObjectsOf(a, Names(disk) \ GoneBefore)}
  <1>1. lag \in SUBSET Unsettled
    BY SettledAgrees DEF SettledInv
  <1> HIDE DEF lag
  <1>2. Unsettled \in SUBSET Addr
    BY DEF Unsettled
  <1>3. IsFiniteSet(Unsettled) /\ Cardinality(Unsettled) \in Nat
    BY <1>2, FS_Subset, FS_CardinalityType, PlannerAssumption
  <1>4. IsFiniteSet(lag) /\ Cardinality(lag) <= Cardinality(Unsettled)
    BY <1>1, <1>3, FS_Subset
  <1>5. Cardinality(lag) \in Nat
    BY <1>4, FS_CardinalityType
  <1>6. Cardinality(lag) <= Parallelism
    BY <1>3, <1>4, <1>5, ExecutorAssumption DEF SettledInv
  <1> QED BY <1>6 DEF DiskLag, lag

\* No more addresses have a call out than there are calls.
LEMMA OutsBounded ==
  ASSUME NEW F, IsFiniteSet(F), Cardinality(F) <= Parallelism,
         NEW S \in SUBSET {n.addr : n \in F}
  PROVE  Cardinality(S) <= Parallelism
  <1> DEFINE T == {n.addr : n \in F}
             at == [n \in F |-> n.addr]
  <1>1. at \in Surjection(F, T)
    BY DEF Surjection
  <1> HIDE DEF at, T
  <1>2. IsFiniteSet(T) /\ Cardinality(T) <= Cardinality(F)
    BY <1>1, FS_Surjection
  <1>3. S \in SUBSET T
    BY DEF T
  <1>4. IsFiniteSet(S) /\ Cardinality(S) <= Cardinality(T)
    BY <1>2, <1>3, FS_Subset
  <1>5. Cardinality(S) \in Nat /\ Cardinality(T) \in Nat /\ Cardinality(F) \in Nat
    BY <1>2, <1>4, FS_CardinalityType
  <1> QED BY <1>2, <1>4, <1>5, ExecutorAssumption

\* While everything could be recorded, only what is out is not settled.
LEMMA SettledWhileRecorded ==
  ASSUME LoopInv, OutcomeInv, AgreeInv, CleanupsAlone, owner # "dead", ~persistFailed, disk = mem
  PROVE  Unsettled \subseteq Outs
  <1> SUFFICES ASSUME NEW a \in Addr, LostMake(a) PROVE a \in Outs
    BY DEF Unsettled, SameEntry
  <1>1. PICK n \in failed : n.addr = a /\ Makes(n) /\ made[a] = 1
    BY DEF LostMake
  <1>2. n \in nodes /\ status[n] = "skipped"
    BY <1>1 DEF OutcomeInv
  <1>3. PICK m \in nodes : m.addr = a /\ Makes(m) /\ MadeBy(m)
    BY <1>1 DEF AgreeInv, MadeInv
  <1>4. m = n
    BY <1>1, <1>2, <1>3, NodeDoes, OneMakes
  <1>5. n \in InFlight
    BY <1>2, <1>3, <1>4 DEF MadeBy
  <1> QED BY <1>1, <1>5 DEF Outs

Known ==
  /\ LoopInv /\ OutcomeInv /\ AgreeInv /\ StopInv /\ ConcurrencyBounded
  /\ CleanupsAlone /\ owner # "dead" => OwnNames(mem)

LEMMA FewerUnsettled ==
  ASSUME Unsettled' \subseteq Unsettled, Cardinality(Unsettled) <= Parallelism
  PROVE  Cardinality(Unsettled') <= Parallelism
  <1> DEFINE A == Unsettled
             B == Unsettled'
  <1>1. A \in SUBSET Addr /\ B \in SUBSET A
    BY DEF Unsettled
  <1> HIDE DEF A, B
  <1>2. IsFiniteSet(A) /\ IsFiniteSet(B) /\ Cardinality(B) <= Cardinality(A)
    BY <1>1, FS_Subset, PlannerAssumption
  <1>3. Cardinality(A) \in Nat /\ Cardinality(B) \in Nat
    BY <1>2, FS_CardinalityType
  <1> QED BY <1>2, <1>3, ExecutorAssumption DEF A, B

LEMMA LagInit == ExecInit => LagInv
  <1> SUFFICES ASSUME ExecInit, CleanupsAlone PROVE SettledInv
    BY DEF LagInv, ExecInit
  <1>1. LoopInv /\ AgreeInv
    BY LoopInit, AgreeInit
  <1>2. disk = mem /\ InFlight = {} /\ failed = {} /\ owner # "dead"
    BY DEF ExecInit, InFlight
  <1>3. OwnNames(disk)
    BY <1>1, <1>2, RecordsNameTheirOwn DEF AgreeInv
  <1>4. Unsettled = {}
    BY <1>2 DEF Unsettled, Outs, SameEntry, LostMake
  <1>5. Cardinality({}) = 0
    BY FS_EmptySet
  <1> QED BY <1>2, <1>3, <1>4, <1>5, ExecutorAssumption DEF SettledInv

LEMMA LagPass ==
  ASSUME Known, Known', LagInv, CleanupsAlone, owner # "dead", Schedule
  PROVE  SettledInv'
  <1>0. /\ owner = "pass"
        /\ UNCHANGED <<nodes, input, mem, disk, made, failed, persistFailed, stopping>>
    BY DEF Schedule, walkVars, runVars, cloudVars, stateVars, stopVars, resultVars
  <1>1. SettledInv
    BY DEF LagInv
  <1>2. PICK L \in SUBSET DOMAIN queue : Launches(L) /\ Launch(L)
    BY DEF Schedule
  <1>3. InFlight' = InFlight \cup {queue[i] : i \in L}
    BY <1>2, Launched DEF Known
  <1>4. \A a : (SameEntry(a)' <=> SameEntry(a)) /\ (LostMake(a)' <=> LostMake(a))
    BY <1>0 DEF SameEntry, LostMake
  <1>5. CASE persistFailed
    <2>1. L = {}
      BY <1>0, <1>2, <1>5 DEF Launches, Known, StopInv
    <2>2. Outs' = Outs
      BY <1>3, <2>1 DEF Outs
    <2>3. Unsettled' = Unsettled
      BY <1>4, <2>2 DEF Unsettled
    <2> QED BY <1>0, <1>1, <1>5, <2>3 DEF SettledInv, OwnNames
  <1>6. CASE ~persistFailed
    <2>1. Unsettled \subseteq Outs
      BY <1>1, <1>6, SettledWhileRecorded DEF SettledInv, Known
    <2>2. Outs \subseteq Outs'
      BY <1>3 DEF Outs
    <2>3. Unsettled' \subseteq Outs'
      BY <1>4, <2>1, <2>2 DEF Unsettled
    <2>4. IsFiniteSet(InFlight') /\ Cardinality(InFlight') <= Parallelism
      <3>1. IsFiniteSet(nodes)
        BY NodesFinite DEF Known, LoopInv, WalkInv, WalkTypeOK
      <3>2. InFlight' \in SUBSET nodes
        BY <1>0 DEF Known, LoopInv, ExecTypeOK
      <3>3. IsFiniteSet(InFlight')
        BY <3>1, <3>2, FS_Subset
      <3> QED BY <3>3 DEF Known, ConcurrencyBounded
    <2>5. Unsettled' \in SUBSET {n.addr : n \in InFlight'}
      BY <2>3 DEF Outs
    <2>6. Cardinality(Unsettled') <= Parallelism
      BY <2>4, <2>5, OutsBounded
    <2> QED BY <1>0, <1>1, <1>6, <2>6 DEF SettledInv, OwnNames
  <1> QED BY <1>5, <1>6

LEMMA LagExecute ==
  ASSUME Known, LagInv, CleanupsAlone, owner # "dead", NEW n \in InFlight, Execute(n)
  PROVE  SettledInv'
  <1>0. /\ InFlight' = InFlight /\ UNCHANGED <<nodes, input, mem, disk, failed, persistFailed>>
    BY Worked DEF Execute, walkVars, runVars, stateVars, stopVars, resultVars
  <1>1. SettledInv /\ Addr \subseteq DOMAIN made
    BY DEF LagInv, Known, AgreeInv, MadeInv
  <1>2. \A a \in Addr : a # n.addr => made'[a] = made[a]
    <2>1. UNCHANGED made \/ made' = [made EXCEPT ![n.addr] = @ + 1]
      BY Carried
    <2> QED BY <1>1, <2>1
  <1>3. Unsettled' \subseteq Unsettled
    <2>1. \A a \in Addr : a # n.addr => (LostMake(a)' <=> LostMake(a))
      BY <1>0, <1>2 DEF LostMake
    <2>2. \A a : SameEntry(a)' <=> SameEntry(a)
      BY <1>0 DEF SameEntry
    <2>3. Outs' = Outs /\ n.addr \in Outs
      BY <1>0 DEF Outs
    <2> QED BY <2>1, <2>2, <2>3 DEF Unsettled
  <1> QED BY <1>0, <1>1, <1>3, FewerUnsettled DEF SettledInv, OwnNames

LEMMA LagReceive ==
  ASSUME Known, Known', LagInv, CleanupsAlone, owner # "dead", NEW n \in InFlight, Receive(n)
  PROVE  SettledInv'
  <1>0. /\ owner = "receive" /\ owner' = "top" /\ InFlight' = InFlight \ {n}
        /\ UNCHANGED <<input, plan, made>>
        /\ \/ /\ worker[n].at \in {"error", "no_state"}
              /\ failed' = failed \cup {n} /\ UNCHANGED <<mem, disk>>
              /\ persistFailed' = persistFailed \/ persistFailed' = TRUE
           \/ /\ worker[n].at = "ok" /\ failed' = failed /\ mem' = Recorded(n, worker[n])
              /\ \/ disk' = mem' /\ persistFailed' = persistFailed
                 \/ UNCHANGED disk /\ persistFailed' = TRUE
    BY Received DEF RecordFailure, RecordSuccess
  <1>1. SettledInv /\ MemInv /\ OutcomesInv /\ LoopInv
    BY DEF LagInv, Known, AgreeInv
  <1>2. CleanupsAlone'
    BY <1>0 DEF CleanupsAlone
  <1>3. OwnNames(mem)'
    BY <1>0, <1>2 DEF Known
  <1>4. n \in nodes /\ status[n] = "dispatched"
    BY DEF Known, LoopInv, ExecTypeOK, HandedOut, Dispatched
  <1>5. \A a : a # n.addr => (a \in DOMAIN mem' <=> a \in DOMAIN mem)
                             /\ (a \in DOMAIN mem => mem'[a] = mem[a])
    BY <1>0, <1>1, <1>4, RecordedAt
  <1>6. Unsettled' \subseteq Unsettled
    <2>1. \A a \in Addr : a # n.addr /\ LostMake(a)' => LostMake(a)
      BY <1>0 DEF LostMake
    <2>2. \A a : a # n.addr /\ SameEntry(a) => SameEntry(a)'
      <3>1. CASE disk' = mem'
        BY <3>1 DEF SameEntry
      <3>2. CASE disk' = disk
        BY <1>5, <3>2 DEF SameEntry
      <3> QED BY <1>0, <3>1, <3>2
    <2>3. Outs' \subseteq Outs /\ n.addr \in Outs
      BY <1>0 DEF Outs
    <2> QED BY <2>1, <2>2, <2>3 DEF Unsettled
  <1>7. ~persistFailed' => disk' = mem'
    BY <1>0, <1>1 DEF SettledInv
  <1>8. OwnNames(disk)'
    BY <1>0, <1>1, <1>3 DEF SettledInv, OwnNames
  <1> QED BY <1>1, <1>6, <1>7, <1>8, FewerUnsettled DEF SettledInv

LEMMA LagNext == Known /\ Known' /\ LagInv /\ [ExecNext]_execVars => LagInv'
  <1> SUFFICES ASSUME Known, Known', LagInv, [ExecNext]_execVars, CleanupsAlone'
               PROVE  /\ owner' = "dead" => InFlight' = {} /\ DiskLag'
                      /\ owner' # "dead" => SettledInv'
    BY DEF LagInv
  <1>1. UNCHANGED plan
    BY DEF ExecNext, Top, Schedule, Execute, Receive, Cancel, Crash, execVars, runVars
  <1>2. CleanupsAlone
    BY <1>1 DEF CleanupsAlone
  <1>3. UNCHANGED <<cloud, released, disk, input>> => (DiskLag' <=> DiskLag)
    BY DEF DiskLag, GoneBefore
  <1>4. CASE UNCHANGED execVars
    <2>1. /\ UNCHANGED <<cloud, released, disk, input>>
          /\ UNCHANGED <<mem, owner, persistFailed, made, failed, worker>>
      BY <1>4 DEF execVars, runVars, cloudVars, stateVars, stopVars, resultVars
    <2>2. InFlight' = InFlight
      BY <2>1 DEF InFlight
    <2>3. Unsettled' = Unsettled
      BY <2>1, <2>2 DEF Unsettled, Outs, SameEntry, LostMake
    <2> QED BY <1>2, <1>3, <2>1, <2>2, <2>3 DEF LagInv, SettledInv, OwnNames
  <1>5. CASE Crash
    <2>1. /\ UNCHANGED <<cloud, released, disk, input>> /\ owner # "dead"
          /\ owner' = "dead" /\ InFlight' = {}
      BY <1>5 DEF Crash, Running, runVars, cloudVars, stateVars, resultVars, InFlight
    <2>2. DiskLag
      BY <1>2, <2>1, SettledIsNear DEF LagInv, Known
    <2> QED BY <1>3, <2>1, <2>2
  <1>6. CASE (Top \/ Cancel)
    <2>1. /\ UNCHANGED <<mem, disk, persistFailed, made, failed, worker>>
          /\ owner # "dead" /\ owner' # "dead"
      BY <1>6 DEF Top, Cancel, Running, cloudVars, stateVars, resultVars
    <2>2. InFlight' = InFlight
      BY <2>1 DEF InFlight
    <2>3. Unsettled' = Unsettled
      BY <2>1, <2>2 DEF Unsettled, Outs, SameEntry, LostMake
    <2> QED BY <1>2, <2>1, <2>3 DEF LagInv, SettledInv, OwnNames
  <1>7. CASE Schedule
    <2>1. owner # "dead" /\ owner' # "dead"
      BY <1>7 DEF Schedule
    <2> QED BY <1>2, <1>7, <2>1, LagPass
  <1>8. ASSUME NEW n \in InFlight, Execute(n)
        PROVE  owner' # "dead" /\ SettledInv'
    <2>1. owner # "dead" /\ owner' = owner
      BY <1>2, <1>8 DEF LagInv, Execute
    <2> QED BY <1>2, <1>8, <2>1, LagExecute
  <1>9. ASSUME NEW n \in InFlight, Receive(n)
        PROVE  owner' # "dead" /\ SettledInv'
    <2>1. owner # "dead" /\ owner' # "dead"
      BY <1>9, Received
    <2> QED BY <1>2, <1>9, <2>1, LagReceive
  <1> QED BY <1>4, <1>5, <1>6, <1>7, <1>8, <1>9 DEF ExecNext, InFlight

(***************************************************************************)
(* apply.go:69-80, 255-261, 568-583.  At every instant of every run, a     *)
(* crash's included: no more calls are out than --parallelism and each     *)
(* provider's ceiling allow, and the state on disk differs from what       *)
(* exists at no more than that many addresses.                             *)
(***************************************************************************)
THEOREM RunStaysWithinLimits == ExecSpec => [](CleanupsAlone => WithinLimits)
  <1> DEFINE Base == LoopInv /\ OutcomeInv /\ ReportInv /\ AgreeInv /\ StopInv /\ ConcurrencyBounded
  <1>1. ExecInit => Base
    BY LoopInit, ReportInit, AgreeInit, StopInit, LimitsInit
  <1>2. Base /\ [ExecNext]_execVars => Base'
    BY LoopNext, ReportNext, AgreeNext, StopNext, LimitsNext
  <1>3. Base => Known
    BY RecordsNameTheirOwn DEF Known, AgreeInv
  <1>4. Known /\ LagInv => (CleanupsAlone => WithinLimits)
    BY SettledIsNear DEF Known, LagInv, WithinLimits
  <1> QED BY <1>1, <1>2, <1>3, <1>4, LagInit, LagNext, PTL DEF ExecSpec

-----------------------------------------------------------------------------
(***************************************************************************)
(* The plan a run executes, address by address.                            *)
(***************************************************************************)
Planned == LoopInv /\ CleanupsAlone /\ PlanErrors(input) = {}

Addressed == DOMAIN input.cfg \cup DOMAIN input.st

\* What the plan holds at an address, as it was decided.
SameAs(op, d) ==
  /\ op.kind = d.kind /\ op.obj = d.obj /\ op.after = d.after /\ op.cbd = d.cbd
  /\ op.guards = d.guards /\ op.dependsOn = d.dependsOn

LEMMA PlannedOp ==
  ASSUME NEW inp, NEW a \in DOMAIN Decide(inp)
  PROVE  LET d == Decide(inp)[a]
             op == [d EXCEPT !.dependents = DependentsOf(inp, a, d.kind)]
         IN /\ op.addr = a /\ SameAs(op, d) /\ op.dependents = DependentsOf(inp, a, d.kind)
            /\ op.kind # "destroy_deposed"
  <1>1. a \in DOMAIN inp.cfg \cup DOMAIN inp.st
    BY DEF Decide
  <1>2. PICK kind, obj, after, rc : Decide(inp)[a] = Operation(a, kind, obj, after, rc)
    BY <1>1, DecidedAt
  <1>3. Decide(inp)[a].kind # "destroy_deposed"
    BY <1>1, DecidedAt
  <1> QED BY <1>2, <1>3 DEF Operation, SameAs

LEMMA PlannedAt ==
  ASSUME Planned, NEW a \in Addressed
  PROVE  \E op \in plan :
           /\ op.addr = a /\ SameAs(op, Decide(input)[a])
           /\ op.kind \in {"create", "replace", "update", "noop", "forget", "destroy"}
           /\ op.dependents = DependentsOf(input, a, op.kind)
  <1>1. plan = Compute(input) /\ PlanErrors(input) = {}
    BY DEF Planned, LoopInv, ExecTypeOK
  <1>2. a \in DOMAIN Decide(input) /\ Decide(input)[a].kind # "refused"
    BY <1>1 DEF PlanErrors, Addressed, Decide
  <1> DEFINE d == Decide(input)[a]
             op == [d EXCEPT !.dependents = DependentsOf(input, a, d.kind)]
  <1>3. op \in plan
    BY <1>1, <1>2 DEF Compute
  <1>4. op.addr = a /\ SameAs(op, d) /\ op.dependents = DependentsOf(input, a, d.kind)
    BY <1>2, PlannedOp
  <1>5. d.kind \in {"create", "replace", "update", "noop", "forget", "destroy"}
    BY <1>2, DecidedAt DEF Addressed
  <1> HIDE DEF op, d
  <1>6. op.kind = d.kind
    BY <1>4 DEF SameAs
  <1> QED BY <1>3, <1>4, <1>5, <1>6 DEF d

\* A node that is no cleanup is executed from what was decided for its address.
LEMMA OpOfNode ==
  ASSUME Planned, NEW n \in nodes, n.kind # "destroy_deposed"
  PROVE  /\ n.addr \in Addressed /\ OpAt(n) \in plan /\ OpAt(n).addr = n.addr
         /\ OpAt(n).kind = n.kind /\ SameAs(OpAt(n), Decide(input)[n.addr])
         /\ n.kind \in {"create", "replace", "update", "forget", "destroy"}
         /\ n.cbd <=> n.kind = "replace" /\ OpAt(n).cbd
         /\ OpAt(n).dependents = DependentsOf(input, n.addr, n.kind)
  <1> DEFINE a == n.addr
  <1>0. input \in Inputs /\ plan = Compute(input) /\ nodes = ExecNodes(Compute(input))
        /\ OneOperationPerAddress(plan) /\ CleanupsAlone
    BY DEF Planned, LoopInv, ExecTypeOK
  <1>1. PICK op \in plan : /\ op.addr = a /\ op.kind = n.kind /\ n.kind # "noop"
                           /\ n.cbd = (op.kind = "replace" /\ op.cbd)
                           /\ Facts(input, op)
    BY <1>0, NodeOfPlan
  <1>2. a \in Addressed
    <2>1. op \notin DeposedOps(input)
      <3> SUFFICES ASSUME op \in DeposedOps(input) PROVE FALSE
        OBVIOUS
      <3>1. \E b, o : op = Operation(b, "destroy_deposed", o, NoAttrs, NoLifecycle)
        BY DEF DeposedOps
      <3> QED BY <1>1, <3>1 DEF Operation
    <2>2. PICK b \in DOMAIN Decide(input) :
            op = [Decide(input)[b] EXCEPT !.dependents = DependentsOf(input, b, Decide(input)[b].kind)]
      BY <1>0, <2>1 DEF Compute
    <2>3. op.addr = b
      BY <2>2, PlannedOp
    <2> QED BY <1>1, <2>2, <2>3 DEF Addressed, Decide
  <1>3. PICK q \in plan : /\ q.addr = a /\ SameAs(q, Decide(input)[a])
                          /\ q.kind \in {"create", "replace", "update", "noop", "forget", "destroy"}
                          /\ q.dependents = DependentsOf(input, a, q.kind)
    BY <1>2, PlannedAt
  <1>4. op = q
    BY <1>0, <1>1, <1>3 DEF OneOperationPerAddress
  <1>5. OpAt(n) = op
    <2> DEFINE here == {p \in plan : p.addr = a}
               cleanups == {p \in here : p.kind = "destroy_deposed"}
    <2>1. cleanups = {}
      BY <1>0, <1>1 DEF CleanupsAlone
    <2>2. \A p \in here : p = op
      BY <1>0, <1>1, <2>1 DEF OneOperationPerAddress
    <2>3. op \in here
      BY <1>1
    <2>4. OpAt(n) = CHOOSE p \in here : TRUE
      BY <2>1 DEF OpAt, LastAt
    <2> HIDE DEF here, cleanups
    <2> QED BY <2>2, <2>3, <2>4
  <1> HIDE DEF a
  <1> QED BY <1>1, <1>2, <1>3, <1>4, <1>5 DEF a, Facts

\* What was decided is carried out by its nodes.
LEMMA NodesAt ==
  ASSUME Planned, NEW a \in Addressed, NEW ph \in Phases(Decide(input)[a])
  PROVE  \E n \in nodes : n.addr = a /\ n.kind = Decide(input)[a].kind /\ n.phase = ph
  <1>0. nodes = ExecNodes(plan)
    BY DEF Planned, LoopInv, ExecTypeOK
  <1>1. PICK op \in plan : op.addr = a /\ SameAs(op, Decide(input)[a])
    BY PlannedAt
  <1>2. op.kind = Decide(input)[a].kind
    BY <1>1 DEF SameAs
  <1>3. ph \in Phases(op)
    BY <1>2 DEF Phases
  <1>4. OpNode(op, ph) \in nodes
    BY <1>0, <1>3 DEF ExecNodes
  <1>5. OpNode(op, ph).addr = a /\ OpNode(op, ph).kind = op.kind /\ OpNode(op, ph).phase = ph
    BY <1>1 DEF OpNode
  <1> QED BY <1>2, <1>4, <1>5

\* The edges between a node's address and one that depends on it.
LEMMA EdgesTo ==
  ASSUME Planned, NEW t \in nodes, t.kind # "destroy_deposed", NEW d \in OpAt(t).dependents,
         NEW n \in nodes, n.addr = d, n.kind # "destroy_deposed"
  PROVE  /\ t.phase = "create" /\ n.phase = "create" => t \in Preds(n)
         /\ t.phase = "destroy" /\ n.phase = "destroy" => n \in Preds(t)
         /\ OpAt(t).cbd /\ t.phase = "destroy" /\ n.phase = "create" => n \in Preds(t)
  <1>0. plan = Compute(input) /\ nodes = ExecNodes(plan) /\ edges = ExecEdges(plan)
    BY DEF Planned, LoopInv, ExecTypeOK
  <1> DEFINE op == OpAt(t)
  <1>1. op \in plan /\ op.addr = t.addr /\ op.kind # "noop"
    BY OpOfNode
  <1>2. IndexedDependents(plan, op.addr) = op.dependents
    BY <1>1 DEF IndexedDependents, OpAt
  <1>3. AddEdges(plan, op.addr, d, op.cbd) \subseteq edges
    BY <1>0, <1>1, <1>2 DEF ExecEdges
  <1>4. t \in Has(plan, op.addr, t.phase) /\ n \in Has(plan, d, n.phase)
    BY <1>0, <1>1 DEF Has
  <1> HIDE DEF op
  <1>5. /\ Has(plan, op.addr, "create") \X Has(plan, d, "create") \subseteq edges
        /\ Has(plan, d, "destroy") \X Has(plan, op.addr, "destroy") \subseteq edges
        /\ op.cbd => Has(plan, d, "create") \X Has(plan, op.addr, "destroy") \subseteq edges
    BY <1>3 DEF AddEdges
  <1>6. t.phase = "create" /\ n.phase = "create" => <<t, n>> \in edges
    BY <1>4, <1>5
  <1>7. t.phase = "destroy" /\ n.phase = "destroy" => <<n, t>> \in edges
    BY <1>4, <1>5
  <1>8. op.cbd /\ t.phase = "destroy" /\ n.phase = "create" => <<n, t>> \in edges
    BY <1>4, <1>5
  <1> QED BY <1>6, <1>7, <1>8 DEF Preds, op

-----------------------------------------------------------------------------
(***************************************************************************)
(* Deciding in dependency order.  What is in scope is defined by itself;   *)
(* such a function exists because references close no cycle: of the sets   *)
(* of addresses closed under reference that have one, the largest is all   *)
(* addresses, or it could be extended by an address that refers to nothing *)
(* outside.                                                                *)
(***************************************************************************)
LEMMA NoneAllDepend ==
  ASSUME NEW rs, ~HasCycle(DOMAIN rs, Edges(rs)), NEW S \in SUBSET DOMAIN rs,
         \A a \in S : \E b \in S : b \in rs[a].deps
  PROVE  S = {}
  BY DEF HasCycle, Edges

RefsOf(inp, a) == IF a \in DOMAIN inp.cfg THEN inp.cfg[a].refs ELSE {}
ScopedOn(inp, S, f) == f = [a \in S |-> KnownID(OperationFor(inp, a, References(inp, a, f)))]
Scoped(inp) == {S \in SUBSET Addr : /\ \A a \in S : RefsOf(inp, a) \subseteq S
                                    /\ \E f : ScopedOn(inp, S, f)}

LEMMA ReferencesLocal ==
  ASSUME NEW inp, NEW a, NEW f, NEW g, \A b \in RefsOf(inp, a) : f[b] = g[b]
  PROVE  References(inp, a, f) = References(inp, a, g)
  BY DEF References, RefsOf

LEMMA ScopeExtends ==
  ASSUME NEW inp, NEW S \in Scoped(inp), NEW a \in Addr \ S, RefsOf(inp, a) \subseteq S
  PROVE  S \cup {a} \in Scoped(inp)
  <1>1. PICK f : ScopedOn(inp, S, f)
    BY DEF Scoped
  <1> DEFINE new == KnownID(OperationFor(inp, a, References(inp, a, f)))
             g == [b \in S \cup {a} |-> IF b = a THEN new ELSE f[b]]
             T == S \cup {a}
  <1>2. \A b \in S : g[b] = f[b]
    OBVIOUS
  <1>3. \A b \in T : RefsOf(inp, b) \subseteq S
    BY DEF Scoped
  <1>4. \A b \in T : References(inp, b, g) = References(inp, b, f)
    <2> HIDE DEF g, T
    <2> QED BY <1>2, <1>3, ReferencesLocal
  <1>5. \A b \in S : f[b] = KnownID(OperationFor(inp, b, References(inp, b, f)))
    BY <1>1 DEF ScopedOn
  <1>6. \A b \in T : g[b] = KnownID(OperationFor(inp, b, References(inp, b, g)))
    <2> SUFFICES ASSUME NEW b \in T PROVE g[b] = KnownID(OperationFor(inp, b, References(inp, b, f)))
      BY <1>4
    <2> QED BY <1>5
  <1>7. g = [b \in T |-> g[b]]
    OBVIOUS
  <1>8. ScopedOn(inp, T, g)
    <2> HIDE DEF g, T
    <2> QED BY <1>6, <1>7 DEF ScopedOn
  <1> QED BY <1>3, <1>8 DEF Scoped

LEMMA ScopeExists ==
  ASSUME NEW inp, Compiles(inp.cfg), DOMAIN inp.cfg \subseteq Addr
  PROVE  ScopedOn(inp, Addr, InScope(inp))
  <1> DEFINE Outside == {Addr \ S : S \in Scoped(inp)}
  <1>1. {} \in Scoped(inp)
    <2>1. ScopedOn(inp, {}, [a \in {} |-> NoObj])
      BY DEF ScopedOn
    <2> QED BY <2>1 DEF Scoped
  <1>2. Outside # {} /\ Outside \subseteq FiniteSubsetsOf(Addr)
    BY <1>1, FS_Subset, PlannerAssumption DEF FiniteSubsetsOf
  <1>3. PICK R \in Outside : \A Q \in Outside : <<Q, R>> \notin StrictSubsetOrdering(Addr)
    <2> HIDE DEF Outside
    <2> QED BY <1>2, FS_StrictSubsetOrderingWellFounded, WFMin, PlannerAssumption
  <1>4. PICK S \in Scoped(inp) : R = Addr \ S
    BY <1>3
  <1>5. \A a \in R : ~(RefsOf(inp, a) \subseteq S)
    <2> SUFFICES ASSUME NEW a \in R, RefsOf(inp, a) \subseteq S PROVE FALSE
      OBVIOUS
    <2>1. S \cup {a} \in Scoped(inp)
      BY <1>4, ScopeExtends
    <2>2. Addr \ (S \cup {a}) \in Outside
      BY <2>1
    <2>3. <<Addr \ (S \cup {a}), R>> \in StrictSubsetOrdering(Addr)
      BY <1>4 DEF StrictSubsetOrdering
    <2> QED BY <1>3, <2>2, <2>3
  <1>6. R = {}
    <2>1. R \subseteq Addr /\ \A a \in R : \E b \in R : a \in DOMAIN inp.cfg /\ b \in inp.cfg[a].deps
      <3> SUFFICES ASSUME NEW a \in R PROVE \E b \in R : a \in DOMAIN inp.cfg /\ b \in inp.cfg[a].deps
        BY <1>4
      <3>1. PICK b \in RefsOf(inp, a) : b \notin S
        BY <1>5
      <3>2. a \in DOMAIN inp.cfg /\ b \in inp.cfg[a].refs
        BY <3>1 DEF RefsOf
      <3>3. b \in inp.cfg[a].deps /\ b \in DOMAIN inp.cfg
        BY <3>2 DEF Compiles
      <3> QED BY <1>4, <3>1, <3>2, <3>3
    <2>2. R \in SUBSET DOMAIN inp.cfg
      BY <2>1
    <2> QED BY <2>1, <2>2, NoneAllDepend DEF Compiles
  <1>7. S = Addr
    BY <1>4, <1>6 DEF Scoped
  <1>8. \E f : ScopedOn(inp, Addr, f)
    BY <1>7 DEF Scoped
  <1>9. InScope(inp) = CHOOSE f : ScopedOn(inp, Addr, f)
    BY DEF InScope, ScopedOn
  <1> QED BY <1>8, <1>9

\* An address sees of another what was decided for it.
LEMMA ScopeIsDecided ==
  ASSUME NEW inp, Compiles(inp.cfg), DOMAIN inp.cfg \subseteq Addr, NEW b \in DOMAIN inp.cfg
  PROVE  InScope(inp)[b] = KnownID(Decide(inp)[b])
  BY ScopeExists DEF ScopedOn, Decide

-----------------------------------------------------------------------------
(***************************************************************************)
(* What configuration asks for once the plan has been carried out.         *)
(***************************************************************************)
Renewed(inp, b) == Decide(inp)[b].kind \in {"create", "replace"}

\* The object that is current at the end.
Final(inp, b) == IF Renewed(inp, b) THEN <<b, 1>> ELSE inp.st[b].obj

Agrees(inp, attrs, a) ==
  /\ attrs.mut = inp.cfg[a].mut /\ attrs.imm = inp.cfg[a].imm
  /\ DOMAIN attrs.ref = inp.cfg[a].refs
  /\ \A b \in inp.cfg[a].refs : attrs.ref[b] = Final(inp, b)

Wanted(inp, a) ==
  [mut |-> inp.cfg[a].mut, imm |-> inp.cfg[a].imm, ref |-> References(inp, a, InScope(inp))]

LEMMA ConfiguredAt ==
  ASSUME NEW inp, NEW a \in DOMAIN inp.cfg, Decide(inp)[a].kind # "refused"
  PROVE  /\ ~ReadFailed(inp, a)
         /\ Decide(inp)[a].kind = ConfiguredKind(inp, a, Wanted(inp, a))
         /\ Decide(inp)[a].after = Wanted(inp, a) /\ Decide(inp)[a].cbd = inp.cfg[a].cbd
         /\ Decide(inp)[a].guards = inp.cfg[a].guards
         /\ Decide(inp)[a].dependsOn = inp.cfg[a].deps
         /\ Decide(inp)[a].obj = IF a \in DOMAIN inp.st THEN inp.st[a].obj ELSE NoObj
  <1>1. Decide(inp)[a] = OperationFor(inp, a, References(inp, a, InScope(inp)))
    BY DEF Decide
  <1>2. ~ReadFailed(inp, a)
    BY <1>1 DEF OperationFor, Refused, Operation
  <1>3. Decide(inp)[a] =
          Operation(a, ConfiguredKind(inp, a, Wanted(inp, a)),
                    IF a \in DOMAIN inp.st THEN inp.st[a].obj ELSE NoObj,
                    Wanted(inp, a), inp.cfg[a])
    BY <1>1, <1>2 DEF OperationFor, Wanted
  <1> HIDE DEF Wanted
  <1> QED BY <1>2, <1>3 DEF Operation

LEMMA UnconfiguredAt ==
  ASSUME NEW inp, NEW a \in DOMAIN inp.st \ DOMAIN inp.cfg, Decide(inp)[a].kind # "refused"
  PROVE  Decide(inp)[a].kind \in {"destroy", "forget"} /\ Decide(inp)[a].after = NoAttrs
  <1>1. Decide(inp)[a] = OperationFor(inp, a, References(inp, a, InScope(inp)))
    BY DEF Decide
  <1>2. Decide(inp)[a] = RemovalOperation(inp, a)
    BY <1>1 DEF OperationFor, Refused, Operation
  <1> QED BY <1>2 DEF RemovalOperation, RemovalKind, Operation

\* What is decided about an address of a plan that is executed.
LEMMA DecidedKinds ==
  ASSUME Planned, NEW a \in Addressed
  PROVE  /\ Decide(input)[a].kind # "refused"
         /\ a \in DOMAIN input.cfg => Decide(input)[a].kind \in {"create", "replace", "update", "noop"}
         /\ a \notin DOMAIN input.cfg => a \in DOMAIN input.st /\ Decide(input)[a].kind \in {"destroy", "forget"}
  <1>1. Decide(input)[a].kind # "refused"
    BY DEF Planned, PlanErrors, Addressed
  <1>2. \A want : ConfiguredKind(input, a, want) \in {"create", "refused", "replace", "update", "noop"}
    BY DEF ConfiguredKind
  <1>3. a \in DOMAIN input.cfg => Decide(input)[a].kind \in {"create", "replace", "update", "noop"}
    BY <1>1, <1>2, ConfiguredAt
  <1>4. a \notin DOMAIN input.cfg => a \in DOMAIN input.st /\ Decide(input)[a].kind \in {"destroy", "forget"}
    BY <1>1, UnconfiguredAt DEF Addressed
  <1> QED BY <1>1, <1>3, <1>4

\* What is created or replaced has a node that makes it.
LEMMA MakerOf ==
  ASSUME Planned, NEW b \in Addressed
  PROVE  Renewed(input, b) <=> \E n \in nodes : n.addr = b /\ Makes(n)
  <1>1. ASSUME NEW n \in nodes, n.addr = b, Makes(n) PROVE Renewed(input, b)
    <2>1. n.kind \in {"create", "replace"}
      BY <1>1 DEF Makes, NeedsDesired
    <2> QED BY <1>1, <2>1, OpOfNode DEF SameAs, Renewed
  <1>2. ASSUME Renewed(input, b) PROVE \E n \in nodes : n.addr = b /\ Makes(n)
    <2>1. "create" \in Phases(Decide(input)[b])
      BY <1>2 DEF Phases, Renewed
    <2>2. PICK n \in nodes : n.addr = b /\ n.kind = Decide(input)[b].kind /\ n.phase = "create"
      BY <2>1, NodesAt
    <2> QED BY <1>2, <2>2 DEF Renewed, Makes, NeedsDesired
  <1> QED BY <1>1, <1>2

\* What is decided about an address, in scope for those that refer to it.
LEMMA SeenOf ==
  ASSUME Planned, NEW b \in DOMAIN input.cfg
  PROVE  /\ Renewed(input, b) => InScope(input)[b] = NoObj
         /\ ~Renewed(input, b) =>
              /\ b \in DOMAIN input.st /\ ~Gone(input, b)
              /\ InScope(input)[b] = input.st[b].obj /\ InScope(input)[b] # NoObj
              /\ \A n \in nodes : n.addr = b => n.kind \in {"update", "destroy_deposed"}
  <1>0. input \in Inputs /\ Compiles(input.cfg) /\ DOMAIN input.cfg \subseteq Addr /\ b \in Addressed
        /\ LoopInv
    BY InputsAssumption DEF Planned, LoopInv, ExecTypeOK, Addressed
  <1>1. InScope(input)[b] = KnownID(Decide(input)[b])
    BY <1>0, ScopeIsDecided
  <1>2. Decide(input)[b].kind \in {"create", "replace", "update", "noop"}
    BY <1>0, DecidedKinds
  <1>3. CASE Renewed(input, b)
    BY <1>0, <1>1, <1>3 DEF Renewed, KnownID
  <1>4. CASE ~Renewed(input, b)
    <2>1. Decide(input)[b].kind \in {"update", "noop"}
      BY <1>2, <1>4 DEF Renewed
    <2>2. b \in DOMAIN input.st /\ ~Gone(input, b)
      BY <2>1, ConfiguredAt DEF ConfiguredKind
    <2>3. InScope(input)[b] = input.st[b].obj
      BY <1>1, <2>1, <2>2, ConfiguredAt DEF KnownID
    <2>4. input.st[b].obj # NoObj
      <3>1. input.st[b].obj \in {b} \X (Nat \ {1})
        BY <1>0, <2>2, InputsAssumption DEF IsRecordOf
      <3>2. \A p \in {b} \X (Nat \ {1}) : p = <<p[1], p[2]>>
        OBVIOUS
      <3>3. <<input.st[b].obj[1], input.st[b].obj[2]>> # <<>>
        OBVIOUS
      <3> QED BY <3>1, <3>2, <3>3 DEF NoObj
    <2>5. \A n \in nodes : n.addr = b => n.kind \in {"update", "destroy_deposed"}
      BY <1>0, <2>1, OpOfNode DEF SameAs
    <2> QED BY <1>4, <2>2, <2>3, <2>4, <2>5
  <1> QED BY <1>3, <1>4

LEMMA RefsConfigured ==
  ASSUME Planned, NEW a \in DOMAIN input.cfg
  PROVE  /\ input.cfg[a].refs \subseteq input.cfg[a].deps /\ input.cfg[a].deps \subseteq DOMAIN input.cfg
         /\ Wanted(input, a).ref = [b \in input.cfg[a].refs |-> InScope(input)[b]]
         /\ Wanted(input, a).mut = input.cfg[a].mut /\ Wanted(input, a).imm = input.cfg[a].imm
         /\ DOMAIN input.cfg \subseteq Addr
  BY InputsAssumption DEF Planned, LoopInv, ExecTypeOK, Compiles, Wanted, References

\* An address with nothing to do is as it will be asked for again.
LEMMA NoopAgrees ==
  ASSUME Planned, NEW a \in DOMAIN input.cfg, Decide(input)[a].kind = "noop"
  PROVE  /\ a \in DOMAIN input.st /\ ~Gone(input, a) /\ Agrees(input, ActualAttrs(input, a), a)
         /\ \A b \in input.cfg[a].refs : ~Renewed(input, b)
         /\ ChangedBookkeeping(input.cfg[a], input.st[a]) = {}
  <1>1. /\ ConfiguredKind(input, a, Wanted(input, a)) = "noop"
    BY ConfiguredAt
  <1>2. /\ a \in DOMAIN input.st /\ ~Gone(input, a)
        /\ ChangedAttrs(Wanted(input, a), ActualAttrs(input, a)) = {}
        /\ ChangedBookkeeping(input.cfg[a], input.st[a]) = {}
    BY <1>1 DEF ConfiguredKind
  <1> DEFINE want == Wanted(input, a)
             got == ActualAttrs(input, a)
  <1>3. /\ want["mut"] = got["mut"] /\ want["imm"] = got["imm"]
        /\ DOMAIN want.ref = DOMAIN got.ref
        /\ \A b \in DOMAIN want.ref : want.ref[b] # NoObj /\ want.ref[b] = got.ref[b]
    <2> HIDE DEF want, got
    <2> QED BY <1>2 DEF ChangedAttrs, want, got
  <1>4. DOMAIN want.ref = input.cfg[a].refs /\ \A b \in input.cfg[a].refs : want.ref[b] = InScope(input)[b]
    BY RefsConfigured
  <1>5. \A b \in input.cfg[a].refs : ~Renewed(input, b) /\ got.ref[b] = Final(input, b)
    BY <1>3, <1>4, RefsConfigured, SeenOf DEF Final
  <1>6. got.mut = input.cfg[a].mut /\ got.imm = input.cfg[a].imm
    BY <1>3, RefsConfigured
  <1> QED BY <1>2, <1>3, <1>4, <1>5, <1>6 DEF Agrees

\* What a node that makes or changes an object is executed with.
LEMMA DesiredOf ==
  ASSUME Planned, NEW n \in nodes, NeedsDesired(n)
  PROVE  /\ n.addr \in DOMAIN input.cfg /\ n.kind # "destroy_deposed"
         /\ OpAt(n).after = Wanted(input, n.addr)
         /\ OpAt(n).guards = input.cfg[n.addr].guards
         /\ OpAt(n).dependsOn = input.cfg[n.addr].deps
  <1>1. n.kind \in {"create", "update", "replace"}
    BY DEF NeedsDesired
  <1>2. n.addr \in Addressed /\ SameAs(OpAt(n), Decide(input)[n.addr]) /\ OpAt(n).kind = n.kind
    BY <1>1, OpOfNode
  <1>3. n.addr \in DOMAIN input.cfg /\ Decide(input)[n.addr].kind # "refused"
    BY <1>1, <1>2, DecidedKinds DEF SameAs
  <1> QED BY <1>1, <1>2, <1>3, ConfiguredAt DEF SameAs

\* With the new objects it refers to in the snapshot, it is what is asked for.
LEMMA ResolvedAgrees ==
  ASSUME Planned, NEW n \in nodes, NeedsDesired(n), NEW snapshot,
         \A b \in input.cfg[n.addr].refs : Renewed(input, b) => snapshot[b].obj = <<b, 1>>
  PROVE  Agrees(input, ResolveAfter(OpAt(n), snapshot), n.addr)
  <1> DEFINE a == n.addr
             after == Wanted(input, a)
             got == ResolveAfter(OpAt(n), snapshot)
  <1>1. a \in DOMAIN input.cfg /\ OpAt(n).after = after
    BY DesiredOf
  <1>2. got = [after EXCEPT !.ref = [b \in DOMAIN after.ref |->
                 IF after.ref[b] # NoObj THEN after.ref[b] ELSE snapshot[b].obj]]
    BY <1>1 DEF ResolveAfter
  <1>3. got.mut = after.mut /\ got.imm = after.imm
        /\ got.ref = [b \in DOMAIN after.ref |->
                        IF after.ref[b] # NoObj THEN after.ref[b] ELSE snapshot[b].obj]
    BY <1>2 DEF Wanted
  <1>4. after.ref = [b \in input.cfg[a].refs |-> InScope(input)[b]]
        /\ after.mut = input.cfg[a].mut /\ after.imm = input.cfg[a].imm
        /\ input.cfg[a].refs \subseteq DOMAIN input.cfg
    BY <1>1, RefsConfigured
  <1> HIDE DEF got, after
  <1>5. \A b \in input.cfg[a].refs : got.ref[b] = Final(input, b)
    <2> TAKE b \in input.cfg[a].refs
    <2>1. got.ref[b] = IF InScope(input)[b] # NoObj THEN InScope(input)[b] ELSE snapshot[b].obj
      BY <1>3, <1>4
    <2>2. CASE Renewed(input, b)
      BY <1>4, <2>1, <2>2, SeenOf DEF Final
    <2>3. CASE ~Renewed(input, b)
      BY <1>4, <2>1, <2>3, SeenOf DEF Final
    <2> QED BY <2>2, <2>3
  <1>6. DOMAIN got.ref = input.cfg[a].refs
    BY <1>3, <1>4
  <1> QED BY <1>3, <1>4, <1>5, <1>6 DEF Agrees, got

\* What it refers to is made before.
LEMMA MakerBefore ==
  ASSUME Planned, NEW n \in nodes, NeedsDesired(n), NEW c \in nodes, Makes(c),
         c.addr \in input.cfg[n.addr].deps
  PROVE  c \in Preds(n)
  <1>1. n.addr \in DOMAIN input.cfg /\ n.kind # "destroy_deposed"
    BY DesiredOf
  <1>2. n.phase = "create" /\ c.phase = "create"
    BY NodeDoes DEF Planned
  <1>3. c.kind \in {"create", "replace"}
    BY DEF Makes, NeedsDesired
  <1>4. OpAt(c).dependents = DependentsOf(input, c.addr, c.kind)
    BY <1>3, OpOfNode
  <1>5. n.addr \in OpAt(c).dependents
    BY <1>1, <1>3, <1>4 DEF DependentsOf
  <1> QED BY <1>1, <1>2, <1>3, <1>5, EdgesTo


-----------------------------------------------------------------------------
(***************************************************************************)
(* What an object is like and what its record says of it, by which         *)
(* operation wrote it last.                                                *)
(***************************************************************************)
PredsDone(n) == \A m \in Preds(n) : status[m] = "done"

\* The object a node makes or changes.
Written(n) == IF n.kind = "update" THEN input.st[n.addr].obj ELSE <<n.addr, 1>>

Configured(a) == \E n \in nodes : n.addr = a /\ NeedsDesired(n) /\ status[n] = "done"

Stamped(inp, rec, a) ==
  Agrees(inp, rec.attrs, a) /\ rec.deps = inp.cfg[a].deps /\ rec.guards = inp.cfg[a].guards

AsRecorded(inp, rec, a) ==
  /\ a \in DOMAIN inp.st
  /\ rec.attrs = inp.st[a].attrs /\ rec.deps = inp.st[a].deps /\ rec.guards = inp.st[a].guards

\* A worker about to make or change an object sees the new ones it refers to.
RefsSeen ==
  \A n \in InFlight : worker[n].at = "called" /\ NeedsDesired(n) =>
    \A b \in input.cfg[n.addr].refs : Renewed(input, b) => worker[n].snapshot[b].obj = <<b, 1>>

CloudAttrs ==
  \A o \in DOMAIN cloud :
    \/ \E n \in nodes : /\ NeedsDesired(n) /\ o = Written(n) /\ PredsDone(n)
                        /\ Agrees(input, cloud[o], n.addr)
    \/ /\ o \in DOMAIN LiveAtStart(input) /\ cloud[o] = LiveAtStart(input)[o]
       /\ \A n \in nodes : NeedsDesired(n) /\ o = Written(n) => ~Took(n)

BroughtStamped ==
  \A n \in InFlight : worker[n].at = "ok" /\ NeedsDesired(n) =>
    Stamped(input, worker[n].record, n.addr)

MemAttrs ==
  \A a \in DOMAIN mem :
    /\ Configured(a) => Stamped(input, mem[a], a)
    /\ ~Configured(a) => AsRecorded(input, mem[a], a)

AppliedIsDone ==
  \A a \in DOMAIN applied :
    applied[a] \/ \E n \in nodes : n.addr = a /\ status[n] = "done" /\ ~IsRemoval(n)

AttrsInv ==
  /\ PlanErrors(input) = {}
  /\ failed = {} => skipped = {}
  /\ CleanupsAlone /\ owner # "dead" =>
       RefsSeen /\ CloudAttrs /\ BroughtStamped /\ MemAttrs /\ AppliedIsDone

-----------------------------------------------------------------------------
(***************************************************************************)
(* What a node that is started refers to is there.                         *)
(***************************************************************************)
LEMMA FinalIsRecorded ==
  ASSUME Planned, MemInv, NEW b \in DOMAIN input.cfg, Renewed(input, b) => Created(b)
  PROVE  b \in DOMAIN mem /\ mem[b].obj = Final(input, b)
  <1>1. CASE Renewed(input, b)
    BY <1>1 DEF MemInv, Final
  <1>2. CASE ~Renewed(input, b)
    <2>1. b \in DOMAIN input.st /\ \A n \in nodes : n.addr = b => n.kind \in {"update", "destroy_deposed"}
      BY <1>2, SeenOf
    <2>2. ~Created(b) /\ ~Removed(b)
      BY <2>1 DEF Created, Removed, Makes, NeedsDesired, IsRemoval
    <2> QED BY <1>2, <2>1, <2>2 DEF MemInv, Final
  <1> QED BY <1>1, <1>2

LEMMA RefsCurrent ==
  ASSUME Planned, MemInv, NEW n \in nodes, NeedsDesired(n), PredsDone(n)
  PROVE  \A b \in input.cfg[n.addr].refs :
           b \in DOMAIN mem /\ mem[b].obj = Final(input, b) /\ (Renewed(input, b) => Created(b))
  <1>1. n.addr \in DOMAIN input.cfg
    BY DesiredOf
  <1> TAKE b \in input.cfg[n.addr].refs
  <1>2. b \in input.cfg[n.addr].deps /\ b \in DOMAIN input.cfg
    BY <1>1, RefsConfigured
  <1>3. Renewed(input, b) => Created(b)
    <2> HAVE Renewed(input, b)
    <2>1. PICK c \in nodes : c.addr = b /\ Makes(c)
      BY <1>2, MakerOf DEF Addressed
    <2>2. c \in Preds(n)
      BY <1>2, <2>1, MakerBefore
    <2> QED BY <2>1, <2>2 DEF PredsDone, Created
  <1> QED BY <1>2, <1>3, FinalIsRecorded

LEMMA StartedPredsDone ==
  ASSUME LoopInv, OutcomeInv, NEW n \in nodes, status[n] \in {"dispatched", "done"} \/ n \in failed
  PROVE  PredsDone(n)
  BY DEF LoopInv, WalkInv, DispatchedAfterPreds, OutcomeInv, PredsDone

-----------------------------------------------------------------------------
(***************************************************************************)
(* The first state.                                                        *)
(***************************************************************************)
LEMMA AttrsInit == ExecInit => AttrsInv
  <1> SUFFICES ASSUME ExecInit PROVE AttrsInv
    OBVIOUS
  <1>1. /\ \A n \in nodes : status[n] # "done"
        /\ InFlight = {} /\ mem = input.st /\ cloud = LiveAtStart(input)
        /\ PlanErrors(input) = {} /\ skipped = {} /\ DOMAIN applied = {}
    BY DEF ExecInit, InFlight
  <1>2. \A n \in nodes : ~Took(n)
    BY <1>1 DEF Took
  <1>3. CloudAttrs
    BY <1>1, <1>2 DEF CloudAttrs
  <1>4. MemAttrs
    <2>1. \A a : ~Configured(a)
      BY <1>1 DEF Configured
    <2> QED BY <1>1, <2>1 DEF MemAttrs, AsRecorded
  <1> QED BY <1>1, <1>3, <1>4 DEF AttrsInv, RefsSeen, BroughtStamped, AppliedIsDone

-----------------------------------------------------------------------------
(***************************************************************************)
(* The steps that neither call nor record anything.                        *)
(***************************************************************************)
LEMMA AttrsQuiet ==
  ASSUME LoopInv, LoopInv', OutcomeInv, AgreeInv, AttrsInv, owner # "dead", owner' # "dead",
         UNCHANGED <<nodes, edges, status, input, plan, mem, cloud, applied, failed, skipped>>,
         \A n \in InFlight : worker[n].at # "called" => n \in InFlight' /\ worker'[n] = worker[n],
         \A n \in InFlight' : \/ n \in InFlight /\ worker'[n] = worker[n]
                              \/ worker'[n].at = "called" /\ worker'[n].snapshot = mem
  PROVE  AttrsInv'
  <1> SUFFICES ASSUME CleanupsAlone'
               PROVE  (RefsSeen /\ CloudAttrs /\ BroughtStamped /\ MemAttrs /\ AppliedIsDone)'
    BY DEF AttrsInv
  <1>1. CleanupsAlone
    BY DEF CleanupsAlone
  <1>2. /\ RefsSeen /\ CloudAttrs /\ BroughtStamped /\ MemAttrs /\ AppliedIsDone
        /\ MemInv /\ Planned
    BY <1>1 DEF AgreeInv, AttrsInv, Planned
  <1>3. \A n \in nodes : (Took(n)' <=> Took(n)) /\ (PredsDone(n)' <=> PredsDone(n))
                         /\ Written(n)' = Written(n)
    BY DEF Took, PredsDone, Preds, Written
  <1>4. RefsSeen'
    <2> SUFFICES ASSUME NEW n \in InFlight', worker'[n].at = "called", NeedsDesired(n),
                        NEW b \in input.cfg[n.addr].refs, Renewed(input, b)
                 PROVE  worker'[n].snapshot[b].obj = <<b, 1>>
      BY DEF RefsSeen
    <2>1. CASE n \in InFlight /\ worker'[n] = worker[n]
      BY <1>2, <2>1 DEF RefsSeen
    <2>2. CASE worker'[n].snapshot = mem
      <3>1. n \in nodes /\ status[n] = "dispatched"
        BY DEF LoopInv, ExecTypeOK, HandedOut, Dispatched
      <3>2. PredsDone(n)
        BY <3>1, StartedPredsDone
      <3>3. mem[b].obj = Final(input, b)
        BY <1>2, <3>1, <3>2, RefsCurrent
      <3> QED BY <2>2, <3>3 DEF Final
    <2> QED BY <2>1, <2>2
  <1>5. CloudAttrs'
    BY <1>2, <1>3 DEF CloudAttrs
  <1>6. BroughtStamped'
    BY <1>2 DEF BroughtStamped
  <1>7. MemAttrs' /\ AppliedIsDone'
    <2>1. \A a : Configured(a)' <=> Configured(a)
      BY DEF Configured
    <2>2. MemAttrs'
      BY <1>2, <2>1 DEF MemAttrs
    <2> QED BY <1>2, <2>2 DEF AppliedIsDone
  <1> QED BY <1>4, <1>5, <1>6, <1>7

-----------------------------------------------------------------------------
(***************************************************************************)
(* A worker's call.                                                        *)
(***************************************************************************)
\* What a call leaves of the objects, and what it brings back about them.
LEMMA CarriedAttrs ==
  ASSUME LoopInv, NEW n \in InFlight, Execute(n)
  PROVE  LET snapshot == worker[n].snapshot
             obj == IF n.kind = "update" THEN CurrentObj(n, snapshot) ELSE <<n.addr, made[n.addr] + 1>>
             attrs == ResolveAfter(OpAt(n), snapshot)
         IN \/ /\ NeedsDesired(n)
               /\ \A o \in DOMAIN cloud' : cloud'[o] = IF o = obj THEN attrs ELSE cloud[o]
               /\ worker'[n].at = "ok" =>
                    worker'[n].record = NewRecord(n, OpAt(n), obj, attrs, snapshot)
               /\ worker'[n].at \in {"ok", "no_state"}
               /\ \A o \in DOMAIN cloud' : o = obj \/ o \in DOMAIN cloud
            \/ /\ \A o \in DOMAIN cloud' : o \in DOMAIN cloud /\ cloud'[o] = cloud[o]
               /\ ~NeedsDesired(n) \/ worker'[n].at = "error"
  <1> DEFINE snapshot == worker[n].snapshot
             op == OpAt(n)
             new == <<n.addr, made[n.addr] + 1>>
             old == CurrentObj(n, snapshot)
             attrs == ResolveAfter(op, snapshot)
  <1>1. \A outcome, record : Returns(n, outcome, record) =>
          worker'[n].at = outcome /\ worker'[n].record = record
    <2> TAKE outcome, record
    <2> HAVE Returns(n, outcome, record)
    <2>1. worker'[n] = [at |-> outcome, record |-> record]
      BY DEF Returns, InFlight
    <2> QED BY <2>1
  <1>2. CASE Returns(n, "error", NoRecord) /\ UNCHANGED cloudVars
    BY <1>1, <1>2 DEF cloudVars
  <1>3. CASE NeedsDesired(n) /\ n.kind # "update" /\ CallCreate(n, op, snapshot)
    <2>1. cloud' = [o \in DOMAIN cloud \cup {new} |-> IF o = new THEN attrs ELSE cloud[o]]
      BY <1>3 DEF CallCreate
    <2>2. \/ Returns(n, "ok", NewRecord(n, op, new, attrs, snapshot))
          \/ Returns(n, "no_state", NoRecord)
      BY <1>3 DEF CallCreate
    <2> HIDE DEF attrs, new
    <2>3. \A o \in DOMAIN cloud' : /\ cloud'[o] = IF o = new THEN attrs ELSE cloud[o]
                                   /\ o = new \/ o \in DOMAIN cloud
      BY <2>1
    <2>4. /\ worker'[n].at \in {"ok", "no_state"}
          /\ worker'[n].at = "ok" => worker'[n].record = NewRecord(n, op, new, attrs, snapshot)
      BY <1>1, <2>2
    <2> QED BY <1>3, <2>3, <2>4 DEF attrs, new
  <1>4. CASE n.kind = "update" /\ CallUpdate(n, op, snapshot)
    <2>1. cloud' = [cloud EXCEPT ![old] = attrs]
      BY <1>4 DEF CallUpdate
    <2>2. \/ Returns(n, "ok", NewRecord(n, op, old, attrs, snapshot))
          \/ Returns(n, "no_state", NoRecord)
      BY <1>4 DEF CallUpdate
    <2> HIDE DEF attrs, old
    <2>3. \A o \in DOMAIN cloud' : /\ cloud'[o] = IF o = old THEN attrs ELSE cloud[o]
                                   /\ o \in DOMAIN cloud
      BY <2>1
    <2>4. /\ worker'[n].at \in {"ok", "no_state"}
          /\ worker'[n].at = "ok" => worker'[n].record = NewRecord(n, op, old, attrs, snapshot)
      BY <1>1, <2>2
    <2> QED BY <1>4, <2>3, <2>4 DEF attrs, old, NeedsDesired
  <1>5. CASE n.phase = "destroy" /\ n.kind # "forget" /\ ~NeedsDesired(n) /\ CallDelete(n, snapshot)
    <2>1. cloud' = [o \in DOMAIN cloud \ {old} |-> cloud[o]]
      BY <1>5 DEF CallDelete, Without
    <2> QED BY <1>5, <2>1
  <1>6. CASE n.kind = "forget" /\ UNCHANGED cloudVars
    BY <1>6 DEF cloudVars, NeedsDesired
  <1>7. n.phase = "destroy" => ~NeedsDesired(n)
    BY NodeDoes DEF LoopInv, ExecTypeOK
  <1> QED BY <1>2, <1>3, <1>4, <1>5, <1>6, <1>7 DEF Execute

\* It is about the object of its own address.
LEMMA WritesItsOwn ==
  ASSUME LoopInv, CleanupsAlone, MemInv, MadeInv, OutcomeInv, SnapshotInv,
         NEW n \in InFlight, owner # "dead", Execute(n), NeedsDesired(n)
  PROVE  Written(n) = IF n.kind = "update" THEN CurrentObj(n, worker[n].snapshot)
                      ELSE <<n.addr, made[n.addr] + 1>>
  <1>0. n \in nodes /\ status[n] = "dispatched" /\ n.addr \in Addr
    BY NodeFacts DEF LoopInv, ExecTypeOK, HandedOut, Dispatched
  <1>1. worker[n].at = "called" /\ n.phase = "create"
    BY <1>0, NodeDoes DEF Execute
  <1>2. CASE n.kind # "update"
    <2>1. \A m \in nodes : m.addr = n.addr /\ Makes(m) => m = n
      BY <1>0, <1>1, NodeDoes, OneMakes
    <2>2. ~MadeBy(n)
      BY <1>0, <1>1 DEF MadeBy, OutcomeInv
    <2>3. made[n.addr] = 0
      BY <1>0, <2>1, <2>2 DEF MadeInv
    <2>4. made[n.addr] + 1 = 1
      BY <2>3
    <2> QED BY <1>2, <2>4 DEF Written
  <1>3. CASE n.kind = "update"
    <2>1. n.addr \in DOMAIN mem /\ mem[n.addr].obj = input.st[n.addr].obj
      BY <1>0, <1>3, SeesWhole
    <2>2. n.addr \in DOMAIN worker[n].snapshot /\ worker[n].snapshot[n.addr] = mem[n.addr]
      BY <1>1, <2>1 DEF SnapshotInv
    <2>3. CurrentObj(n, worker[n].snapshot) = mem[n.addr].obj
      BY <1>3, <2>2 DEF CurrentObj, TakesDeposed
    <2> QED BY <1>3, <2>1, <2>3 DEF Written
  <1> QED BY <1>2, <1>3

LEMMA AttrsExecute ==
  ASSUME LoopInv, OutcomeInv, AgreeInv, AttrsInv, NEW n \in InFlight, Execute(n)
  PROVE  AttrsInv'
  <1>0. /\ UNCHANGED <<nodes, edges, status, input, plan, mem, owner, applied, failed, skipped>>
        /\ InFlight' = InFlight /\ worker'[n].at \in {"ok", "error", "no_state"}
        /\ worker[n].at = "called" /\ \A m \in InFlight : m # n => worker'[m] = worker[m]
    BY Worked DEF Execute, walkVars, runVars, stateVars, stopVars, resultVars
  <1> SUFFICES ASSUME CleanupsAlone', owner # "dead"
               PROVE  (RefsSeen /\ CloudAttrs /\ BroughtStamped /\ MemAttrs /\ AppliedIsDone)'
    BY <1>0 DEF AttrsInv
  <1>1. CleanupsAlone
    BY <1>0 DEF CleanupsAlone
  <1>2. /\ RefsSeen /\ CloudAttrs /\ BroughtStamped /\ MemAttrs /\ AppliedIsDone
        /\ MemInv /\ MadeInv /\ SnapshotInv /\ Planned
    BY <1>1 DEF AgreeInv, AttrsInv, Planned
  <1>3. n \in nodes /\ status[n] = "dispatched" /\ PredsDone(n)
    BY StartedPredsDone DEF LoopInv, ExecTypeOK, HandedOut, Dispatched
  <1>4. /\ Took(n)' <=> worker'[n].at = "ok"
        /\ \A m \in nodes : m # n => (Took(m)' <=> Took(m))
        /\ \A m \in nodes : (PredsDone(m)' <=> PredsDone(m)) /\ Written(m)' = Written(m)
    <2>1. ~Took(n) /\ n \in InFlight' /\ status'[n] = "dispatched"
      BY <1>0, <1>3 DEF Took
    <2> QED BY <1>0, <2>1 DEF Took, PredsDone, Preds, Written
  <1> DEFINE snapshot == worker[n].snapshot
             attrs == ResolveAfter(OpAt(n), snapshot)
  <1>5. NeedsDesired(n) => Agrees(input, attrs, n.addr)
    BY <1>0, <1>2, <1>3, ResolvedAgrees DEF RefsSeen
  <1>6. \/ /\ NeedsDesired(n)
           /\ \A o \in DOMAIN cloud' : cloud'[o] = IF o = Written(n) THEN attrs ELSE cloud[o]
           /\ worker'[n].at = "ok" =>
                worker'[n].record = NewRecord(n, OpAt(n), Written(n), attrs, snapshot)
           /\ \A o \in DOMAIN cloud' : o = Written(n) \/ o \in DOMAIN cloud
        \/ /\ \A o \in DOMAIN cloud' : o \in DOMAIN cloud /\ cloud'[o] = cloud[o]
           /\ ~NeedsDesired(n) \/ worker'[n].at = "error"
    BY <1>1, <1>2, CarriedAttrs, WritesItsOwn
  <1> HIDE DEF attrs, snapshot
  <1>7. RefsSeen'
    BY <1>0, <1>2 DEF RefsSeen
  <1>8. MemAttrs' /\ AppliedIsDone'
    <2>1. \A a : Configured(a)' <=> Configured(a)
      BY <1>0 DEF Configured
    <2>2. MemAttrs'
      BY <1>0, <1>2, <2>1 DEF MemAttrs
    <2> QED BY <1>0, <1>2, <2>2 DEF AppliedIsDone
  <1>9. BroughtStamped'
    <2>1. ASSUME worker'[n].at = "ok", NeedsDesired(n)
          PROVE  Stamped(input, worker'[n].record, n.addr)
      <3>1. worker'[n].record = NewRecord(n, OpAt(n), Written(n), attrs, snapshot)
        BY <1>6, <2>1
      <3>2. /\ worker'[n].record.attrs = attrs
            /\ worker'[n].record.deps = OpAt(n).dependsOn /\ worker'[n].record.guards = OpAt(n).guards
        BY <3>1 DEF NewRecord
      <3> QED BY <1>2, <1>3, <1>5, <2>1, <3>2, DesiredOf DEF Stamped
    <2>2. \A m \in InFlight : worker'[m].at = "ok" /\ NeedsDesired(m) =>
            Stamped(input, worker'[m].record, m.addr)
      BY <1>0, <1>2, <2>1 DEF BroughtStamped
    <2> QED BY <1>0, <2>2 DEF BroughtStamped
  <1>10. CloudAttrs'
    <2> SUFFICES ASSUME NEW o \in DOMAIN cloud'
                 PROVE  \/ \E m \in nodes : /\ NeedsDesired(m) /\ o = Written(m) /\ PredsDone(m)
                                            /\ Agrees(input, cloud'[o], m.addr)
                        \/ /\ o \in DOMAIN LiveAtStart(input) /\ cloud'[o] = LiveAtStart(input)[o]
                           /\ \A m \in nodes : NeedsDesired(m) /\ o = Written(m) => ~Took(m)'
      BY <1>0, <1>4 DEF CloudAttrs
    <2>1. CASE NeedsDesired(n) /\ o = Written(n) /\ cloud'[o] = attrs
      BY <1>3, <1>5, <2>1
    <2>2. CASE /\ o \in DOMAIN cloud /\ cloud'[o] = cloud[o]
               /\ NeedsDesired(n) /\ o = Written(n) => worker'[n].at = "error"
      <3>1. \A m \in nodes : NeedsDesired(m) /\ o = Written(m) /\ Took(m)' => Took(m)
        BY <1>4, <2>2
      <3> QED BY <1>2, <2>2, <3>1 DEF CloudAttrs
    <2> QED BY <1>6, <2>1, <2>2
  <1> QED BY <1>7, <1>8, <1>9, <1>10

-----------------------------------------------------------------------------
(***************************************************************************)
(* A result.                                                               *)
(***************************************************************************)
LEMMA AttrsFailure ==
  ASSUME LoopInv, OutcomeInv, AgreeInv, AttrsInv, NEW n \in InFlight, Receive(n), worker[n].at # "ok"
  PROVE  AttrsInv'
  <1>0. /\ RecordFailure(n) /\ owner = "receive" /\ worker[n].at # "called"
        /\ InFlight' = InFlight \ {n} /\ \A m \in InFlight' : worker'[m] = worker[m]
        /\ UNCHANGED <<input, plan, cloud, mem>>
    BY Received
  <1>1. /\ failed' = failed \cup {n} /\ UNCHANGED <<nodes, edges>>
        /\ applied' = Without(applied, n.addr)
        /\ status[n] = "dispatched"
        /\ status' = [m \in nodes |-> IF m \in Visited(n) THEN "skipped" ELSE status[m]]
    BY <1>0 DEF RecordFailure, Skip
  <1>2. n \in nodes
    BY DEF LoopInv, ExecTypeOK
  <1>3. \A m \in nodes : status'[m] = "done" <=> status[m] = "done"
    <2>1. \A m \in Visited(n) : m # n => status[m] \in {"unstarted", "skipped"}
      BY <1>1, <1>2, VisitedUnstarted DEF LoopInv
    <2> QED BY <1>1, <2>1
  <1> SUFFICES ASSUME CleanupsAlone'
               PROVE  (RefsSeen /\ CloudAttrs /\ BroughtStamped /\ MemAttrs /\ AppliedIsDone)'
    BY <1>0, <1>1 DEF AttrsInv
  <1>4. CleanupsAlone
    BY <1>0 DEF CleanupsAlone
  <1>5. RefsSeen /\ CloudAttrs /\ BroughtStamped /\ MemAttrs /\ AppliedIsDone
    BY <1>0, <1>4 DEF AttrsInv
  <1>6. \A m \in nodes : /\ Took(m)' <=> Took(m)
                         /\ PredsDone(m) => PredsDone(m)'
                         /\ Written(m)' = Written(m)
    BY <1>0, <1>1, <1>3 DEF Took, PredsDone, Preds, Written
  <1>7. RefsSeen' /\ BroughtStamped'
    BY <1>0, <1>5 DEF RefsSeen, BroughtStamped
  <1>8. CloudAttrs'
    BY <1>0, <1>1, <1>5, <1>6 DEF CloudAttrs
  <1>9. MemAttrs'
    <2>1. \A a : Configured(a)' <=> Configured(a)
      BY <1>1, <1>3 DEF Configured
    <2> QED BY <1>0, <1>5, <2>1 DEF MemAttrs
  <1>10. AppliedIsDone'
    <2>1. \A a \in DOMAIN applied' : a \in DOMAIN applied /\ applied'[a] = applied[a]
      BY <1>1 DEF Without
    <2> QED BY <1>1, <1>3, <1>5, <2>1 DEF AppliedIsDone
  <1> QED BY <1>7, <1>8, <1>9, <1>10

\* What a success leaves of the record at its own address.
LEMMA RecordedAttrs ==
  ASSUME LoopInv, CleanupsAlone, MemInv, OutcomesInv, NEW n \in InFlight, n \in nodes,
         status[n] = "dispatched", worker[n].at = "ok", mem' = Recorded(n, worker[n])
  PROVE  LET a == n.addr
             rec == IF NeedsDesired(n) THEN worker[n].record ELSE mem[a]
         IN a \in DOMAIN mem' =>
              /\ NeedsDesired(n) \/ a \in DOMAIN mem
              /\ mem'[a].attrs = rec.attrs /\ mem'[a].deps = rec.deps /\ mem'[a].guards = rec.guards
  <1> DEFINE a == n.addr
  <1> SUFFICES ASSUME a \in DOMAIN mem'
               PROVE  LET rec == IF NeedsDesired(n) THEN worker[n].record ELSE mem[a]
                      IN /\ NeedsDesired(n) \/ a \in DOMAIN mem
                         /\ mem'[a].attrs = rec.attrs /\ mem'[a].deps = rec.deps
                         /\ mem'[a].guards = rec.guards
    OBVIOUS
  <1>1. \A rec : WithEntry(mem, a, rec)[a] = rec
    BY DEF WithEntry
  <1>2. \A rec, d : Shaped(rec) =>
          LET r == [rec EXCEPT !.deposed = d]
          IN r.attrs = rec.attrs /\ r.deps = rec.deps /\ r.guards = rec.guards
    BY DEF Shaped
  <1>3. ~IsRemoval(n)
    BY RecordedAt
  <1>4. CASE NeedsDesired(n)
    <2>1. ~TakesDeposed(n) /\ Shaped(worker[n].record)
      BY <1>4, NodeDoes DEF OutcomesInv, OutcomeIs
    <2> DEFINE rec == worker[n].record
               aside == [rec EXCEPT !.deposed = Append(@, mem[a].obj)]
    <2>2. mem' = WithEntry(mem, a, aside) \/ mem' = WithEntry(mem, a, rec)
      BY <1>3, <2>1 DEF Recorded
    <2>3. aside.attrs = rec.attrs /\ aside.deps = rec.deps /\ aside.guards = rec.guards
      BY <1>2, <2>1
    <2> HIDE DEF aside
    <2>4. mem'[a] = aside \/ mem'[a] = rec
      BY <1>1, <2>2
    <2> QED BY <1>4, <2>3, <2>4
  <1>5. CASE TakesDeposed(n)
    <2>1. a \in DOMAIN mem /\ Shaped(mem[a])
      BY <1>5, SeesDeposed, DeposedKnown
    <2> DEFINE rec == [mem[a] EXCEPT !.deposed = <<>>]
    <2>2. mem' = WithEntry(mem, a, rec)
      BY <1>3, <1>5, <2>1 DEF Recorded
    <2>3. rec.attrs = mem[a].attrs /\ rec.deps = mem[a].deps /\ rec.guards = mem[a].guards
      BY <1>2, <2>1
    <2>4. ~NeedsDesired(n)
      BY <1>5, NodeDoes
    <2> HIDE DEF rec
    <2>5. mem'[a] = rec
      BY <1>1, <2>2
    <2> QED BY <2>1, <2>3, <2>4, <2>5
  <1> QED BY <1>3, <1>4, <1>5, NodeFacts, NodeDoes

LEMMA AttrsSuccess ==
  ASSUME LoopInv, OutcomeInv, AgreeInv, AttrsInv, NEW n \in InFlight, Receive(n), worker[n].at = "ok"
  PROVE  AttrsInv'
  <1>0. /\ RecordSuccess(n) /\ mem' = Recorded(n, worker[n]) /\ owner = "receive"
        /\ InFlight' = InFlight \ {n} /\ \A m \in InFlight' : worker'[m] = worker[m]
        /\ UNCHANGED <<input, plan, cloud>>
    BY Received
  <1>1. /\ UNCHANGED <<nodes, edges, failed, skipped>> /\ status[n] = "dispatched"
        /\ applied' = WithEntry(applied, n.addr, IsRemoval(n))
        /\ status' = [m \in nodes |-> IF m = n THEN "done"
                                      ELSE IF m \in NewlyReady(n) THEN "dispatched"
                                      ELSE status[m]]
    BY <1>0 DEF RecordSuccess, Done
  <1>2. n \in nodes
    BY DEF LoopInv, ExecTypeOK
  <1>3. \A m \in nodes : status'[m] = "done" <=> m = n \/ status[m] = "done"
    <2>1. \A m \in NewlyReady(n) : status[m] = "unstarted"
      BY DEF NewlyReady, DecrementedBy
    <2> QED BY <1>1, <2>1
  <1> SUFFICES ASSUME CleanupsAlone'
               PROVE  (RefsSeen /\ CloudAttrs /\ BroughtStamped /\ MemAttrs /\ AppliedIsDone)'
    BY <1>0, <1>1 DEF AttrsInv
  <1>4. CleanupsAlone
    BY <1>0 DEF CleanupsAlone
  <1>5. /\ RefsSeen /\ CloudAttrs /\ BroughtStamped /\ MemAttrs /\ AppliedIsDone
        /\ MemInv /\ OutcomesInv
    BY <1>0, <1>4 DEF AttrsInv, AgreeInv
  <1>6. \A m \in nodes : /\ Took(m)' <=> Took(m)
                         /\ PredsDone(m) => PredsDone(m)'
                         /\ Written(m)' = Written(m)
    BY <1>0, <1>1, <1>2, <1>3 DEF Took, PredsDone, Preds, Written
  <1>7. RefsSeen' /\ BroughtStamped'
    BY <1>0, <1>5 DEF RefsSeen, BroughtStamped
  <1>8. CloudAttrs'
    BY <1>0, <1>1, <1>5, <1>6 DEF CloudAttrs
  <1>9. MemAttrs'
    <2>1. \A a : Configured(a)' <=> Configured(a) \/ (a = n.addr /\ NeedsDesired(n))
      BY <1>1, <1>2, <1>3 DEF Configured
    <2>2. /\ \A b : b # n.addr => (b \in DOMAIN mem' <=> b \in DOMAIN mem)
          /\ \A b \in DOMAIN mem : b # n.addr => mem'[b] = mem[b]
      BY <1>0, <1>1, <1>2, <1>4, <1>5, RecordedAt
    <2>3. LET a == n.addr
              rec == IF NeedsDesired(n) THEN worker[n].record ELSE mem[a]
          IN a \in DOMAIN mem' =>
               /\ NeedsDesired(n) \/ a \in DOMAIN mem
               /\ mem'[a].attrs = rec.attrs /\ mem'[a].deps = rec.deps /\ mem'[a].guards = rec.guards
      BY <1>0, <1>1, <1>2, <1>4, <1>5, RecordedAttrs
    <2>4. NeedsDesired(n) => Stamped(input, worker[n].record, n.addr)
      BY <1>5 DEF BroughtStamped
    <2>5. ASSUME NEW a \in DOMAIN mem'
          PROVE  /\ Configured(a)' => Stamped(input, mem'[a], a)
                 /\ ~Configured(a)' => AsRecorded(input, mem'[a], a)
      <3>1. CASE a # n.addr
        BY <1>5, <2>1, <2>2, <3>1 DEF MemAttrs
      <3>2. CASE a = n.addr /\ NeedsDesired(n)
        BY <2>1, <2>3, <2>4, <3>2 DEF Stamped
      <3>3. CASE a = n.addr /\ ~NeedsDesired(n)
        <4>1. a \in DOMAIN mem
          BY <2>3, <3>3
        <4> QED BY <1>5, <2>1, <2>3, <3>3, <4>1 DEF MemAttrs, Stamped, AsRecorded
      <3> QED BY <3>1, <3>2, <3>3
    <2> QED BY <1>0, <2>5 DEF MemAttrs
  <1>10. AppliedIsDone'
    <2>1. \A a \in DOMAIN applied' : \/ a = n.addr /\ applied'[a] = IsRemoval(n)
                                     \/ a \in DOMAIN applied /\ applied'[a] = applied[a]
      BY <1>1 DEF WithEntry
    <2>2. \A a \in DOMAIN applied' : applied'[a] \/
            \E m \in nodes : m.addr = a /\ status'[m] = "done" /\ ~IsRemoval(m)
      BY <1>2, <1>3, <1>5, <2>1 DEF AppliedIsDone
    <2> QED BY <1>1, <2>2 DEF AppliedIsDone
  <1> QED BY <1>7, <1>8, <1>9, <1>10

LEMMA AttrsNext ==
  LoopInv /\ LoopInv' /\ OutcomeInv /\ AgreeInv /\ AttrsInv /\ [ExecNext]_execVars => AttrsInv'
  <1> SUFFICES ASSUME LoopInv, LoopInv', OutcomeInv, AgreeInv, AttrsInv, [ExecNext]_execVars
               PROVE  AttrsInv'
    OBVIOUS
  <1>1. CASE Crash
    BY <1>1 DEF Crash, AttrsInv, runVars, resultVars
  <1>2. CASE owner = "dead"
    <2>1. owner' = "dead" /\ (UNCHANGED <<input, failed, skipped>> \/ \E n \in InFlight : Execute(n))
      BY <1>2 DEF ExecNext, Top, Schedule, Execute, Receive, Cancel, Crash, Running, execVars,
                  InFlight, runVars, resultVars
    <2>2. UNCHANGED <<input, failed, skipped>>
      BY <2>1 DEF Execute, runVars, resultVars
    <2> QED BY <2>1, <2>2 DEF AttrsInv
  <1>3. CASE owner # "dead" /\ (Top \/ Cancel \/ UNCHANGED execVars)
    <2>1. /\ UNCHANGED <<nodes, edges, status, input, plan, mem, cloud, applied, failed, skipped,
                         worker>>
          /\ owner' # "dead"
      BY <1>3 DEF Top, Cancel, execVars, walkVars, runVars, cloudVars, stateVars, stopVars, resultVars
    <2>2. InFlight' = InFlight
      BY <2>1 DEF InFlight
    <2> QED BY <1>3, <2>1, <2>2, AttrsQuiet
  <1>4. CASE owner # "dead" /\ Schedule
    <2>1. /\ UNCHANGED <<nodes, edges, status, input, plan, mem, cloud, applied, failed, skipped>>
          /\ owner' # "dead"
      BY <1>4 DEF Schedule, walkVars, runVars, cloudVars, stateVars, stopVars, resultVars
    <2>2. PICK L \in SUBSET DOMAIN queue : Launch(L)
      BY <1>4 DEF Schedule
    <2>3. /\ InFlight \subseteq InFlight'
          /\ \A n \in InFlight' : worker'[n] = IF n \in InFlight THEN worker[n] ELSE Called
      BY <1>4, <2>2, Launched
    <2>4. Called.at = "called" /\ Called.snapshot = mem
      BY DEF Called
    <2> QED BY <1>4, <2>1, <2>3, <2>4, AttrsQuiet
  <1>5. ASSUME NEW n \in InFlight, Execute(n) PROVE AttrsInv'
    BY <1>5, AttrsExecute
  <1>6. ASSUME NEW n \in InFlight, Receive(n) PROVE AttrsInv'
    BY <1>6, AttrsFailure, AttrsSuccess
  <1> QED BY <1>1, <1>2, <1>3, <1>4, <1>5, <1>6 DEF ExecNext, InFlight

-----------------------------------------------------------------------------
(***************************************************************************)
(* What is current at an address that has been dealt with.                 *)
(***************************************************************************)
LEMMA WrittenAt ==
  ASSUME LoopInv, NEW n \in nodes
  PROVE  Written(n)[1] = n.addr
  <1>1. n.kind = "update" => n.addr \in DOMAIN input.st
    BY NodeFacts
  <1> QED BY <1>1, RecordedObjects DEF Written

LEMMA LiveAttrs ==
  ASSUME LoopInv, NEW a \in DOMAIN input.st, ~Gone(input, a)
  PROVE  /\ input.st[a].obj \in DOMAIN LiveAtStart(input)
         /\ LiveAtStart(input)[input.st[a].obj] = ActualAttrs(input, a)
  <1>1. input.st[a].obj[1] = a
    BY RecordedObjects
  <1> QED BY <1>1 DEF LiveAtStart

\* Nothing deletes what is recorded at an address that stays.
LEMMA StaysLive ==
  ASSUME Planned, MemInv, CloudInv, NEW a \in DOMAIN input.st, ~Gone(input, a),
         \A n \in nodes : n.addr = a => n.kind \in {"update", "destroy_deposed"}
  PROVE  /\ a \in DOMAIN mem /\ mem[a].obj = input.st[a].obj
         /\ input.st[a].obj \in DOMAIN cloud
  <1>1. ~Created(a) /\ ~Removed(a)
    BY DEF Created, Removed, Makes, NeedsDesired, IsRemoval
  <1>2. ~Taken(input.st[a].obj)
    <2> SUFFICES ASSUME NEW m \in nodes, m.addr = input.st[a].obj[1], Deletes(m),
                        input.st[a].obj \in Target(m)
                 PROVE  FALSE
      BY DEF Taken
    <2>1. m.addr = a
      BY RecordedObjects DEF Planned
    <2>2. m.kind = "destroy_deposed"
      BY <2>1, NodeFacts DEF Deletes, Planned
    <2> QED BY <2>1, <2>2, RecordedObjects DEF Target, Planned
  <1>3. input.st[a].obj \in DOMAIN LiveAtStart(input)
    BY LiveAttrs DEF Planned
  <1> QED BY <1>1, <1>2, <1>3 DEF MemInv, CloudInv

\* Where there is nothing to do, a cleanup is all there is.
LEMMA NoopNodes ==
  ASSUME Planned, NEW a, Decide(input)[a].kind = "noop", NEW n \in nodes, n.addr = a
  PROVE  n.kind = "destroy_deposed"
  BY OpOfNode DEF SameAs

DealtWith(a) == Configured(a) \/ Decide(input)[a].kind = "noop"

LEMMA DealtWithAgrees ==
  ASSUME Planned, OutcomeInv, AgreeInv, AttrsInv, owner # "dead",
         NEW a \in DOMAIN input.cfg, DealtWith(a)
  PROVE  /\ a \in DOMAIN mem /\ mem[a].obj \in DOMAIN cloud
         /\ Agrees(input, cloud[mem[a].obj], a)
         /\ \A b \in input.cfg[a].refs : b \in DOMAIN mem /\ mem[b].obj = Final(input, b)
  <1>0. MemInv /\ MadeInv /\ CloudInv /\ CloudAttrs /\ LoopInv /\ CleanupsAlone
    BY DEF AgreeInv, AttrsInv, Planned
  <1>1. CASE Configured(a)
    <2>1. PICK n \in nodes : n.addr = a /\ NeedsDesired(n) /\ status[n] = "done"
      BY <1>1 DEF Configured
    <2>2. PredsDone(n) /\ Took(n)
      BY <1>0, <2>1, StartedPredsDone DEF Took
    <2>3. a \in DOMAIN mem /\ mem[a].obj = Written(n) /\ Written(n) \in DOMAIN cloud
      <3>1. CASE Makes(n)
        <4>1. a \in Addr /\ Created(a)
          BY <1>0, <2>1, <3>1, NodeFacts DEF Created
        <4>2. made[a] = 1
          BY <1>0, <2>1, <2>2, <3>1, <4>1 DEF MadeInv
        <4>3. Written(n) = <<a, 1>>
          BY <2>1, <3>1 DEF Written, Makes
        <4> QED BY <1>0, <4>1, <4>2, <4>3 DEF MemInv, CloudInv
      <3>2. CASE n.kind = "update"
        <4>1. a \in DOMAIN input.st /\ ~Gone(input, a)
          BY <1>0, <2>1, <3>2, NodeFacts
        <4>2. \A m \in nodes : m.addr = a => m.kind \in {"update", "destroy_deposed"}
          BY <1>0, <2>1, <3>2, AloneAt
        <4>3. Written(n) = input.st[a].obj
          BY <2>1, <3>2 DEF Written
        <4> QED BY <1>0, <4>1, <4>2, <4>3, StaysLive
      <3> QED BY <2>1, <3>1, <3>2 DEF Makes
    <2>4. Agrees(input, cloud[mem[a].obj], a)
      <3>1. PICK m \in nodes : Written(n) = Written(m) /\ Agrees(input, cloud[Written(n)], m.addr)
        BY <1>0, <2>1, <2>2, <2>3 DEF CloudAttrs
      <3>2. m.addr = a
        BY <1>0, <2>1, <3>1, WrittenAt
      <3> QED BY <2>3, <3>1, <3>2
    <2>5. \A b \in input.cfg[a].refs : b \in DOMAIN mem /\ mem[b].obj = Final(input, b)
      BY <1>0, <2>1, <2>2, RefsCurrent
    <2> QED BY <2>3, <2>4, <2>5
  <1>2. CASE Decide(input)[a].kind = "noop"
    <2>1. /\ a \in DOMAIN input.st /\ ~Gone(input, a) /\ Agrees(input, ActualAttrs(input, a), a)
          /\ \A b \in input.cfg[a].refs : ~Renewed(input, b)
      BY <1>2, NoopAgrees
    <2>2. \A n \in nodes : n.addr = a => n.kind = "destroy_deposed"
      BY <1>2, NoopNodes
    <2>3. a \in DOMAIN mem /\ mem[a].obj = input.st[a].obj /\ input.st[a].obj \in DOMAIN cloud
      BY <1>0, <2>1, <2>2, StaysLive
    <2>4. cloud[input.st[a].obj] = ActualAttrs(input, a)
      <3>1. input.st[a].obj[1] = a
        BY <1>0, <2>1, RecordedObjects
      <3>2. \A n \in nodes : NeedsDesired(n) => input.st[a].obj # Written(n)
        <4> SUFFICES ASSUME NEW n \in nodes, NeedsDesired(n), input.st[a].obj = Written(n) PROVE FALSE
          OBVIOUS
        <4>1. n.addr = a
          BY <1>0, <3>1, WrittenAt
        <4> QED BY <2>2, <4>1 DEF NeedsDesired
      <3>3. cloud[input.st[a].obj] = LiveAtStart(input)[input.st[a].obj]
        BY <1>0, <2>3, <3>2 DEF CloudAttrs
      <3> QED BY <1>0, <2>1, <3>3, LiveAttrs
    <2>5. \A b \in input.cfg[a].refs : b \in DOMAIN mem /\ mem[b].obj = Final(input, b)
      BY <1>0, <2>1, FinalIsRecorded, RefsConfigured
    <2> QED BY <2>1, <2>3, <2>4, <2>5
  <1> QED BY <1>1, <1>2 DEF DealtWith

LEMMA AppliedAgrees ==
  ASSUME Planned, OutcomeInv, AgreeInv, AttrsInv
  PROVE  AppliedMatchesConfig
  <1> SUFFICES ASSUME owner = "ended", NEW a \in DOMAIN applied, a \in DOMAIN mem, ~applied[a]
               PROVE  mem[a].obj \in DOMAIN cloud /\ Matches(a)
    BY DEF AppliedMatchesConfig, Reported
  <1>0. LoopInv /\ CleanupsAlone /\ AppliedIsDone
    BY DEF AttrsInv, Planned
  <1>1. PICK n \in nodes : n.addr = a /\ status[n] = "done" /\ ~IsRemoval(n)
    BY <1>0 DEF AppliedIsDone
  <1>2. a \in DOMAIN input.cfg /\ DealtWith(a)
    <2>1. CASE NeedsDesired(n)
      BY <1>1, <2>1, DesiredOf DEF DealtWith, Configured
    <2>2. CASE n.kind = "replace" /\ ~NeedsDesired(n)
      <3>1. n.phase = "destroy" /\ n.cbd
        BY <1>0, <1>1, <2>2, NodeDoes, NodeFacts DEF TakesDeposed
      <3>2. PICK c \in nodes : c.addr = a /\ c.phase = "create" /\ c \in Preds(n)
        <4>1. PICK d \in nodes, c \in nodes :
                /\ d.addr = n.addr /\ d.phase = "destroy"
                /\ c.addr = n.addr /\ c.phase = "create"
                /\ n = d \/ n = c
                /\ IF n.cbd THEN c \in Preds(d) ELSE d \in Preds(c)
          BY <1>0, <2>2, BothPhases
        <4>2. n = d
          BY <3>1, <4>1
        <4> QED BY <1>1, <3>1, <4>1, <4>2
      <3>3. status[c] = "done"
        BY <1>0, <1>1, <3>2 DEF LoopInv, WalkInv, DispatchedAfterPreds
      <3>4. NeedsDesired(c)
        BY <1>0, <3>2, NodeDoes
      <3> QED BY <3>2, <3>3, <3>4, DesiredOf DEF DealtWith, Configured
    <2>3. CASE n.kind = "destroy_deposed"
      <3>1. a \in DOMAIN input.st /\ a \in Addressed
        BY <1>0, <1>1, <2>3, NodeFacts DEF Addressed
      <3>2. PICK p \in plan : p.addr = a /\ p.kind = "destroy_deposed"
        <4>1. input \in Inputs /\ plan = Compute(input) /\ n \in ExecNodes(Compute(input))
          BY <1>0 DEF LoopInv, ExecTypeOK
        <4> QED BY <1>1, <2>3, <4>1, NodeOfPlan
      <3>3. PICK q \in plan :
              /\ q.addr = a /\ SameAs(q, Decide(input)[a])
              /\ q.kind \in {"create", "replace", "update", "noop", "forget", "destroy"}
        BY <3>1, PlannedAt
      <3>4. Decide(input)[a].kind = "noop"
        BY <1>0, <3>2, <3>3 DEF CleanupsAlone, SameAs
      <3>5. a \in DOMAIN input.cfg
        BY <3>1, <3>4, DecidedKinds
      <3> QED BY <3>4, <3>5 DEF DealtWith
    <2>4. n.kind # "replace" => NeedsDesired(n) \/ n.kind = "destroy_deposed"
      BY <1>0, <1>1, NodeFacts, NodeDoes DEF TakesDeposed
    <2> QED BY <2>1, <2>2, <2>3, <2>4
  <1>3. /\ mem[a].obj \in DOMAIN cloud /\ Agrees(input, cloud[mem[a].obj], a)
        /\ \A b \in input.cfg[a].refs : b \in DOMAIN mem /\ mem[b].obj = Final(input, b)
    BY <1>2, DealtWithAgrees
  <1> QED BY <1>3 DEF Matches, Agrees

-----------------------------------------------------------------------------
(***************************************************************************)
(* Planning again.  Where every address is as was asked for, with every    *)
(* reference to what is current, nothing is found to do: the addresses     *)
(* that would see another object of one they refer to close a cycle.       *)
(***************************************************************************)
LEMMA NothingToDo ==
  ASSUME NEW inp, NEW again, again.cfg = inp.cfg, Compiles(inp.cfg), DOMAIN inp.cfg \subseteq Addr,
         DOMAIN again.st = DOMAIN inp.cfg,
         \A a \in DOMAIN inp.cfg :
           /\ ~ReadFailed(again, a) /\ ~Gone(again, a) /\ Agrees(inp, ActualAttrs(again, a), a)
           /\ again.st[a].obj = Final(inp, a) /\ Final(inp, a) # NoObj
           /\ ChangedBookkeeping(inp.cfg[a], again.st[a]) = {} /\ LeftBehind(again.st[a]) = {}
  PROVE  PlanErrors(again) = {} /\ \A op \in Compute(again) : op.kind = "noop"
  <1> DEFINE scope == InScope(again)
             Stale == {a \in DOMAIN inp.cfg : scope[a] # Final(inp, a)}
  <1>1. ASSUME NEW a \in DOMAIN inp.cfg, \A b \in inp.cfg[a].refs : b \notin Stale
        PROVE  /\ Decide(again)[a].kind = "noop" /\ Decide(again)[a].obj = Final(inp, a)
    <2> DEFINE want == Wanted(again, a)
               got == ActualAttrs(again, a)
               known == References(again, a, scope)
    <2>1. inp.cfg[a].refs \subseteq DOMAIN inp.cfg
      BY DEF Compiles
    <2>2. known = [b \in inp.cfg[a].refs |-> scope[b]]
      BY DEF References
    <2>3. want.mut = inp.cfg[a].mut /\ want.imm = inp.cfg[a].imm /\ want.ref = known
          /\ want["mut"] = want.mut /\ want["imm"] = want.imm
      BY DEF Wanted
    <2>4. /\ got.mut = inp.cfg[a].mut /\ got.imm = inp.cfg[a].imm
          /\ DOMAIN got.ref = inp.cfg[a].refs
          /\ \A b \in inp.cfg[a].refs : got.ref[b] = Final(inp, b)
      BY DEF Agrees
    <2> HIDE DEF want, got, known, scope
    <2>5. \A b \in inp.cfg[a].refs : want.ref[b] # NoObj /\ want.ref[b] = got.ref[b]
      BY <1>1, <2>1, <2>2, <2>3, <2>4
    <2>6. ChangedAttrs(want, got) = {}
      <3>1. DOMAIN want.ref = DOMAIN got.ref /\ DOMAIN want.ref = inp.cfg[a].refs
        BY <2>2, <2>3, <2>4
      <3>2. want["mut"] = got["mut"] /\ want["imm"] = got["imm"]
        BY <2>3, <2>4
      <3> QED BY <2>5, <3>1, <3>2 DEF ChangedAttrs
    <2>7. ConfiguredKind(again, a, want) = "noop"
      BY <2>6 DEF ConfiguredKind, got
    <2>8. Decide(again)[a] = OperationFor(again, a, References(again, a, InScope(again)))
      BY DEF Decide
    <2>9. Decide(again)[a] = Operation(a, ConfiguredKind(again, a, want), again.st[a].obj, want, again.cfg[a])
      BY <2>8 DEF OperationFor, Wanted, want
    <2> QED BY <2>7, <2>9 DEF Operation
  <1>2. \A a \in Stale : \E b \in Stale : b \in inp.cfg[a].deps
    <2> SUFFICES ASSUME NEW a \in Stale, \A b \in inp.cfg[a].deps : b \notin Stale PROVE FALSE
      OBVIOUS
    <2>1. inp.cfg[a].refs \subseteq inp.cfg[a].deps
      BY DEF Compiles
    <2>2. Decide(again)[a].kind = "noop" /\ Decide(again)[a].obj = Final(inp, a)
      BY <1>1, <2>1
    <2>3. scope[a] = KnownID(Decide(again)[a])
      BY ScopeIsDecided
    <2> QED BY <2>2, <2>3 DEF KnownID
  <1>3. Stale = {}
    <2>1. ~HasCycle(DOMAIN inp.cfg, Edges(inp.cfg))
      BY DEF Compiles
    <2>2. Stale \in SUBSET DOMAIN inp.cfg
      OBVIOUS
    <2> HIDE DEF Stale
    <2> QED BY <1>2, <2>1, <2>2, NoneAllDepend
  <1>4. DOMAIN Decide(again) = DOMAIN inp.cfg
    BY DEF Decide
  <1>5. \A a \in DOMAIN Decide(again) : Decide(again)[a].kind = "noop"
    BY <1>1, <1>3, <1>4
  <1>6. PlanErrors(again) = {}
    BY <1>4, <1>5 DEF PlanErrors
  <1>7. DeposedOps(again) = {}
    BY DEF DeposedOps
  <1>8. \A op \in Compute(again) : op.kind = "noop"
    <2> SUFFICES ASSUME NEW op \in Compute(again) PROVE op.kind = "noop"
      OBVIOUS
    <2>1. PICK a \in DOMAIN Decide(again) :
            op = [Decide(again)[a] EXCEPT !.dependents = DependentsOf(again, a, Decide(again)[a].kind)]
      BY <1>7 DEF Compute
    <2> QED BY <1>5, <2>1, PlannedOp DEF SameAs
  <1> QED BY <1>6, <1>8

\* Every operation has been carried out: what is recorded is what is
\* configured, and nothing is left over.
LEMMA AllDone ==
  ASSUME Planned, AgreeInv, owner # "dead", \A n \in nodes : status[n] = "done"
  PROVE  /\ DOMAIN mem = DOMAIN input.cfg
         /\ \A a \in DOMAIN input.cfg :
              mem[a].obj = Final(input, a) /\ DealtWith(a) /\ LeftBehind(mem[a]) = {}
  <1>0. MemInv /\ LoopInv /\ CleanupsAlone
    BY DEF AgreeInv, Planned
  <1>1. ASSUME NEW a \in DOMAIN input.cfg
        PROVE  a \in DOMAIN mem /\ mem[a].obj = Final(input, a) /\ DealtWith(a)
    <2>0. a \in Addressed
      BY DEF Addressed
    <2>1. Renewed(input, a) => Created(a)
      BY <2>0, MakerOf DEF Created
    <2>2. a \in DOMAIN mem /\ mem[a].obj = Final(input, a)
      BY <1>0, <2>1, FinalIsRecorded
    <2>3. DealtWith(a)
      <3>1. CASE Decide(input)[a].kind = "noop"
        BY <3>1 DEF DealtWith
      <3>2. CASE Decide(input)[a].kind # "noop"
        <4>1. Decide(input)[a].kind \in {"create", "replace", "update"}
          BY <2>0, <3>2, DecidedKinds
        <4>2. "create" \in Phases(Decide(input)[a])
          BY <4>1 DEF Phases
        <4>3. PICK n \in nodes : n.addr = a /\ n.phase = "create"
          BY <2>0, <4>2, NodesAt
        <4>4. NeedsDesired(n)
          BY <1>0, <4>3, NodeDoes
        <4> QED BY <4>3, <4>4 DEF DealtWith, Configured
      <3> QED BY <3>1, <3>2
    <2> QED BY <2>2, <2>3
  <1>2. ASSUME NEW a \in DOMAIN mem PROVE a \in DOMAIN input.cfg
    <2> SUFFICES ASSUME a \notin DOMAIN input.cfg PROVE FALSE
      OBVIOUS
    <2>1. ~Created(a)
      BY DesiredOf DEF Created, Makes
    <2>2. a \in DOMAIN input.st /\ ~Removed(a)
      BY <1>0, <2>1 DEF MemInv
    <2>3. a \in Addressed /\ Decide(input)[a].kind \in {"destroy", "forget"}
      BY <2>2, DecidedKinds DEF Addressed
    <2>4. "destroy" \in Phases(Decide(input)[a])
      BY <2>3 DEF Phases
    <2>5. PICK n \in nodes : n.addr = a /\ n.kind \in {"destroy", "forget"}
      BY <2>3, <2>4, NodesAt
    <2> QED BY <2>2, <2>5 DEF Removed, IsRemoval
  <1>3. ASSUME NEW a \in DOMAIN mem PROVE LeftBehind(mem[a]) = {}
    <2>1. LeftBehind(mem[a]) = DeposedAt(a) /\ (Created(a) \/ a \in DOMAIN input.st)
      BY <1>0 DEF MemInv
    <2>2. SUFFICES ASSUME ~Cleaned(a), DeposedAt(a) # {} PROVE FALSE
      BY <2>1 DEF DeposedAt
    <2>3. CASE Created(a)
      <3>1. SetsAside(a)
        BY <2>2, <2>3 DEF DeposedAt
      <3>2. PICK c \in nodes : c.addr = a /\ c.cbd /\ c.kind = "replace"
        BY <1>0, <3>1, NodeFacts DEF SetsAside
      <3>3. PICK d \in nodes : d.addr = a /\ d.kind = "replace" /\ d.phase = "destroy" /\ d.cbd
        BY <1>0, <3>2, BothPhases
      <3> QED BY <2>2, <3>3 DEF Cleaned, TakesDeposed
    <2>4. CASE ~Created(a)
      <3>1. a \in DOMAIN input.st /\ LeftBehind(input.st[a]) # {}
        BY <2>1, <2>2, <2>4 DEF DeposedAt
      <3>2. PICK n \in nodes : n.addr = a /\ n.kind = "destroy_deposed"
        BY <1>0, <3>1, LeftBehindAlone
      <3> QED BY <2>2, <3>2 DEF Cleaned, TakesDeposed
    <2> QED BY <2>3, <2>4
  <1> QED BY <1>1, <1>2, <1>3

LEMMA NothingChanged ==
  ASSUME NEW rc, NEW r, r.deps = rc.deps, r.guards = rc.guards
  PROVE  ChangedBookkeeping(rc, r) = {}
  BY DEF ChangedBookkeeping

LEMMA SuccessConverges ==
  ASSUME Planned, OutcomeInv, AgreeInv, AttrsInv
  PROVE  SucceededMeansConverged
  <1> SUFFICES ASSUME owner = "ended", left = 0, failed = {},
                      NEW S \in SUBSET DOMAIN mem, DOMAIN mem \cap DOMAIN input.obs \subseteq S
               PROVE  LET again == [input EXCEPT !.st = mem, !.obs = RefreshedAgain(S)]
                      IN /\ PlanErrors(again) = {}
                         /\ \A op \in Compute(again) : op.kind = "noop"
    BY DEF SucceededMeansConverged
  <1>0. /\ LoopInv /\ CleanupsAlone /\ WalkTypeOK /\ LeftCountsUnresolved /\ MemInv /\ MemAttrs
        /\ input \in Inputs /\ Compiles(input.cfg) /\ DOMAIN input.cfg \subseteq Addr
        /\ input = [cfg |-> input.cfg, st |-> input.st, obs |-> input.obs, protect |-> input.protect]
    BY InputsAssumption DEF AgreeInv, AttrsInv, Planned, LoopInv, WalkInv, CountsAreExact, ExecTypeOK
  <1>1. \A n \in nodes : status[n] = "done"
    <2>1. Unresolved = {}
      <3>1. IsFiniteSet(Unresolved)
        BY <1>0, NodesFinite DEF WalkTypeOK, Unresolved
      <3> QED BY <1>0, <3>1, FS_EmptySet DEF LeftCountsUnresolved
    <2>2. \A n \in nodes : status[n] # "skipped"
      BY DEF OutcomeInv, AttrsInv
    <2> QED BY <1>0, <2>1, <2>2 DEF Unresolved, WalkTypeOK, WalkStatus
  <1>2. /\ DOMAIN mem = DOMAIN input.cfg
        /\ \A a \in DOMAIN input.cfg :
             mem[a].obj = Final(input, a) /\ DealtWith(a) /\ LeftBehind(mem[a]) = {}
    BY <1>1, AllDone
  <1> DEFINE again == [input EXCEPT !.st = mem, !.obs = RefreshedAgain(S)]
  <1>3. again.cfg = input.cfg /\ again.st = mem /\ again.obs = RefreshedAgain(S)
    BY <1>0
  <1> HIDE DEF again
  <1>4. /\ DOMAIN again.obs = S
        /\ \A a \in S : again.obs[a].result = "found" /\ again.obs[a].attrs = cloud[mem[a].obj]
    BY <1>3 DEF RefreshedAgain
  <1>5. ASSUME NEW a \in DOMAIN input.cfg
        PROVE  /\ ~ReadFailed(again, a) /\ ~Gone(again, a) /\ Agrees(input, ActualAttrs(again, a), a)
               /\ Final(input, a) # NoObj /\ ChangedBookkeeping(input.cfg[a], mem[a]) = {}
    <2>1. ~ReadFailed(again, a) /\ ~Gone(again, a)
      BY <1>4 DEF ReadFailed, Gone
    <2>2. a \in DOMAIN mem /\ DealtWith(a)
      BY <1>2
    <2>3. Agrees(input, cloud[mem[a].obj], a)
      BY <2>2, DealtWithAgrees
    <2>5. Configured(a) => Agrees(input, mem[a].attrs, a) /\ ChangedBookkeeping(input.cfg[a], mem[a]) = {}
      <3> HAVE Configured(a)
      <3>1. Stamped(input, mem[a], a)
        BY <1>0, <2>2 DEF MemAttrs
      <3> QED BY <3>1, NothingChanged DEF Stamped
    <2>6. ~Configured(a) =>
            /\ a \notin S => Agrees(input, mem[a].attrs, a)
            /\ ChangedBookkeeping(input.cfg[a], mem[a]) = {}
      <3> HAVE ~Configured(a)
      <3>1. AsRecorded(input, mem[a], a)
        BY <1>0, <2>2 DEF MemAttrs
      <3>2. /\ Agrees(input, ActualAttrs(input, a), a)
            /\ ChangedBookkeeping(input.cfg[a], input.st[a]) = {}
        BY <2>2, NoopAgrees DEF DealtWith
      <3>3. a \notin S => ActualAttrs(input, a) = mem[a].attrs
        BY <2>2, <3>1 DEF ActualAttrs, AsRecorded
      <3> QED BY <3>1, <3>2, <3>3 DEF AsRecorded, ChangedBookkeeping
    <2>7. ActualAttrs(again, a) = IF a \in S THEN cloud[mem[a].obj] ELSE mem[a].attrs
      BY <1>3, <1>4 DEF ActualAttrs
    <2>8. Final(input, a) # NoObj
      BY SeenOf DEF Final, NoObj
    <2> QED BY <2>1, <2>3, <2>5, <2>6, <2>7, <2>8
  <1>6. PlanErrors(again) = {} /\ \A op \in Compute(again) : op.kind = "noop"
    BY <1>0, <1>2, <1>3, <1>5, NothingToDo
  <1> QED BY <1>6 DEF again

(***************************************************************************)
(* isolation.go:154-165, resolve.go:33-55, planner.go:280-332.  The report *)
(* of a run is true, for every plan, order of completions and failures:    *)
(* what it calls applied exists, is as configured and refers to what is    *)
(* current, and after a run that applied everything planning again finds   *)
(* nothing to do.                                                          *)
(***************************************************************************)
THEOREM ReportsAreTrue == ExecSpec => [](CleanupsAlone => ReportIsTrue)
  <1> DEFINE I == LoopInv /\ OutcomeInv /\ ReportInv /\ AgreeInv /\ AttrsInv
  <1>1. ExecInit => I
    BY LoopInit, ReportInit, AgreeInit, AttrsInit
  <1>2. I /\ [ExecNext]_execVars => I'
    BY LoopNext, ReportNext, AgreeNext, AttrsNext
  <1>3. I => (CleanupsAlone => ReportIsTrue)
    BY AppliedAgrees, SuccessConverges DEF ReportIsTrue, Planned, AttrsInv
  <1> QED BY <1>1, <1>2, <1>3, PTL DEF ExecSpec

-----------------------------------------------------------------------------
(***************************************************************************)
(* Nobody is stranded.  What was written by this run refers to what is     *)
(* current at the end; what was not refers to what was recorded, and a     *)
(* deletion of that waits for the operation on it.                         *)
(***************************************************************************)
\* An object recorded at the start is gone once its deletion is carried out.
LEMMA TakenIsGone ==
  ASSUME LoopInv, CloudInv, NEW a \in DOMAIN input.st, NEW n \in nodes, n.addr = a, Deletes(n),
         Took(n), n.kind # "destroy_deposed"
  PROVE  input.st[a].obj \notin DOMAIN cloud
  <1>1. input.st[a].obj \in Target(n)
    BY DEF Target
  <1>2. input.st[a].obj[1] = a /\ \A b : input.st[a].obj # <<b, 1>>
    BY RecordedObjects
  <1>3. Taken(input.st[a].obj)
    BY <1>1, <1>2 DEF Taken
  <1> QED BY <1>2, <1>3 DEF CloudInv

\* An object nothing has written since the start is a recorded one, and what
\* it refers to is deleted after it.
LEMMA UnwrittenRefs ==
  ASSUME Planned, OutcomeInv, AgreeInv, AttrsInv, owner # "dead", StartsWhole(input),
         NEW a \in DOMAIN input.st, ~Gone(input, a), NEW b \in DOMAIN ActualAttrs(input, a).ref,
         ~Gone(input, b), ~MayLeaveGap(b),
         input.st[a].obj \in DOMAIN cloud \ released,
         \A n \in nodes : NeedsDesired(n) /\ input.st[a].obj = Written(n) => ~Took(n)
  PROVE  ActualAttrs(input, a).ref[b] \in DOMAIN cloud
  <1>0. /\ LoopInv /\ CloudInv /\ ReleasedInv /\ plan = Compute(input)
    BY DEF Planned, AgreeInv, LoopInv, ExecTypeOK
  <1>1. /\ b \in DOMAIN input.st /\ b \in input.st[a].deps
        /\ ActualAttrs(input, a).ref[b] = input.st[b].obj
    BY DEF StartsWhole, RefersWithin
  <1>2. input.st[b].obj \in DOMAIN LiveAtStart(input)
    BY <1>0, <1>1, LiveAttrs
  <1>3. SUFFICES ASSUME Taken(input.st[b].obj) PROVE FALSE
    BY <1>0, <1>1, <1>2 DEF CloudInv
  <1>4. PICK m \in nodes : m.addr = b /\ Deletes(m) /\ Took(m) /\ input.st[b].obj \in Target(m)
    BY <1>0, <1>1, <1>3, RecordedObjects DEF Taken
  <1>5. m.kind \in {"destroy", "replace"} /\ m.phase = "destroy" /\ m.kind # "destroy_deposed"
    <2>1. m.kind # "destroy_deposed"
      BY <1>0, <1>1, <1>4, RecordedObjects DEF Target
    <2> QED BY <1>0, <1>4, <2>1, NodeFacts DEF Deletes
  <1>6. PredsDone(m)
    <2>1. status[m] \in {"done", "dispatched"}
      BY <1>0, <1>4 DEF Took, LoopInv, HandedOut, Dispatched
    <2> QED BY <1>0, <2>1, StartedPredsDone
  <1>7. /\ OpAt(m) \in Compute(input) /\ OpAt(m).addr = b /\ OpAt(m).kind = m.kind
        /\ SameAs(OpAt(m), Decide(input)[b])
        /\ OpAt(m).dependents = DependentsOf(input, b, m.kind)
    BY <1>0, <1>4, <1>5, OpOfNode
  <1>8. a \in Addressed /\ a \in {d \in DOMAIN input.st : b \in input.st[d].deps}
    BY <1>1 DEF Addressed
  <1>9. ASSUME NEW n \in nodes, n.addr = a, n \in Preds(m)
        PROVE  n.kind \notin {"destroy", "forget", "update"} /\ ~(n.kind = "replace" /\ n.phase = "destroy")
    <2>1. status[n] = "done" /\ Took(n)
      BY <1>6, <1>9 DEF PredsDone, Took
    <2>2. n.kind # "forget"
      BY <1>0, <1>9, <2>1 DEF ReleasedInv
    <2>3. n.kind # "update"
      BY <1>9, <2>1 DEF Written, NeedsDesired
    <2>4. ~Deletes(n) \/ n.kind = "destroy_deposed"
      BY <1>0, <1>9, <2>1, TakenIsGone
    <2> QED BY <1>0, <1>9, <2>2, <2>3, <2>4, NodeFacts DEF Deletes
  <1>10. CASE m.kind = "destroy"
    <2>1. a \notin DOMAIN input.cfg
      BY <1>7, <1>8, <1>10 DEF StartsWhole, DependentsKept
    <2>2. Decide(input)[a].kind \in {"destroy", "forget"}
      BY <1>8, <2>1, DecidedKinds
    <2>3. "destroy" \in Phases(Decide(input)[a])
      BY <2>2 DEF Phases
    <2>4. PICK n \in nodes : n.addr = a /\ n.kind \in {"destroy", "forget"} /\ n.phase = "destroy"
      BY <1>8, <2>2, <2>3, NodesAt
    <2>5. a \in OpAt(m).dependents
      BY <1>7, <1>8, <1>10 DEF DependentsOf
    <2>6. n \in Preds(m)
      BY <1>5, <2>4, <2>5, EdgesTo
    <2> QED BY <1>9, <2>4, <2>6
  <1>11. CASE m.kind = "replace"
    <2>1. OpAt(m).cbd
      BY <1>0, <1>7, <1>11 DEF MayLeaveGap
    <2>2. a \in DOMAIN input.cfg /\ b \in input.cfg[a].deps
      BY <1>7, <1>8, <1>11 DEF StartsWhole, DependentsKept
    <2>3. a \in OpAt(m).dependents
      BY <1>7, <1>11, <2>2 DEF DependentsOf
    <2>4. Decide(input)[a].kind \in {"create", "replace", "update", "noop"}
      BY <1>8, <2>2, DecidedKinds
    <2>5. CASE Decide(input)[a].kind = "noop"
      <3>1. ~Renewed(input, b)
        BY <2>2, <2>5, NoopAgrees DEF Agrees
      <3> QED BY <1>7, <1>11, <3>1 DEF Renewed, SameAs
    <2>6. CASE Decide(input)[a].kind \in {"create", "update"}
      <3>1. "create" \in Phases(Decide(input)[a])
        BY <2>6 DEF Phases
      <3>2. PICK n \in nodes : n.addr = a /\ n.kind = Decide(input)[a].kind /\ n.phase = "create"
        BY <1>8, <3>1, NodesAt
      <3>3. n.kind = "update"
        BY <1>0, <2>6, <3>2, NodeFacts
      <3>4. n \in Preds(m)
        BY <1>5, <2>1, <2>3, <3>2, <3>3, EdgesTo
      <3> QED BY <1>9, <3>2, <3>3, <3>4
    <2>7. CASE Decide(input)[a].kind = "replace"
      <3>1. "destroy" \in Phases(Decide(input)[a])
        BY <2>7 DEF Phases
      <3>2. PICK n \in nodes : n.addr = a /\ n.kind = "replace" /\ n.phase = "destroy"
        BY <1>8, <2>7, <3>1, NodesAt
      <3>3. n \in Preds(m)
        BY <1>5, <2>3, <3>2, EdgesTo
      <3> QED BY <1>9, <3>2, <3>3
    <2> QED BY <2>4, <2>5, <2>6, <2>7
  <1> QED BY <1>5, <1>10, <1>11

LEMMA NobodyStranded ==
  ASSUME Planned, OutcomeInv, AgreeInv, AttrsInv, owner # "dead", StartsWhole(input)
  PROVE  StrandsNobody
  <1> SUFFICES ASSUME NEW o \in DOMAIN cloud \ released, NEW b \in DOMAIN cloud[o].ref,
                      cloud[o].ref[b] \notin GoneBefore, ~MayLeaveGap(b)
               PROVE  cloud[o].ref[b] \in DOMAIN cloud
    BY DEF StrandsNobody
  <1>0. LoopInv /\ CleanupsAlone /\ MemInv /\ MadeInv /\ CloudInv /\ CloudAttrs
    BY DEF Planned, AgreeInv, AttrsInv
  <1>1. CASE \E n \in nodes : NeedsDesired(n) /\ PredsDone(n) /\ Agrees(input, cloud[o], n.addr)
    <2>1. PICK n \in nodes : NeedsDesired(n) /\ PredsDone(n) /\ Agrees(input, cloud[o], n.addr)
      BY <1>1
    <2>2. /\ n.addr \in DOMAIN input.cfg /\ b \in input.cfg[n.addr].refs
          /\ cloud[o].ref[b] = Final(input, b)
      BY <2>1, DesiredOf DEF Agrees
    <2>3. b \in DOMAIN input.cfg /\ (Renewed(input, b) => Created(b))
      BY <1>0, <2>1, <2>2, RefsCurrent, RefsConfigured
    <2>4. CASE Renewed(input, b)
      <3>1. PICK c \in nodes : c.addr = b /\ Makes(c) /\ status[c] = "done"
        BY <2>3, <2>4 DEF Created
      <3>2. b \in Addr /\ Took(c)
        BY <1>0, <3>1, NodeFacts DEF Took
      <3>3. made[b] = 1
        BY <1>0, <3>1, <3>2 DEF MadeInv
      <3> QED BY <1>0, <2>2, <2>4, <3>2, <3>3 DEF CloudInv, Final
    <2>5. CASE ~Renewed(input, b)
      <3>1. /\ b \in DOMAIN input.st /\ ~Gone(input, b)
            /\ \A m \in nodes : m.addr = b => m.kind \in {"update", "destroy_deposed"}
        BY <2>3, <2>5, SeenOf
      <3>2. input.st[b].obj \in DOMAIN cloud
        BY <1>0, <3>1, StaysLive
      <3> QED BY <2>2, <2>5, <3>2 DEF Final
    <2> QED BY <2>4, <2>5
  <1>2. CASE /\ o \in DOMAIN LiveAtStart(input) /\ cloud[o] = LiveAtStart(input)[o]
             /\ \A n \in nodes : NeedsDesired(n) /\ o = Written(n) => ~Took(n)
    <2>1. PICK a \in DOMAIN input.st :
            /\ o[1] = a
            /\ (o = input.st[a].obj /\ ~Gone(input, a)) \/ o \in LeftBehind(input.st[a])
      BY <1>0, <1>2, LiveIsRecorded
    <2>2. o = input.st[a].obj /\ ~Gone(input, a)
      <3> SUFFICES ASSUME o \in LeftBehind(input.st[a]) PROVE FALSE
        BY <2>1
      <3>1. \A c \in DOMAIN input.st : input.st[c].obj # o
        <4> SUFFICES ASSUME NEW c \in DOMAIN input.st, input.st[c].obj = o PROVE FALSE
          OBVIOUS
        <4>1. c = a
          BY <1>0, <2>1, RecordedObjects
        <4> QED BY <1>0, <4>1, RecordedObjects
      <3>2. LiveAtStart(input)[o] = NoAttrs
        BY <1>2, <3>1 DEF LiveAtStart
      <3>3. DOMAIN NoAttrs.ref = {}
        BY DEF NoAttrs, NoRefs
      <3> QED BY <1>2, <3>2, <3>3
    <2>3. cloud[o] = ActualAttrs(input, a)
      BY <1>0, <1>2, <2>2, LiveAttrs
    <2>4. ~Gone(input, b)
      <3>1. b \in DOMAIN input.st /\ cloud[o].ref[b] = input.st[b].obj
        BY <2>2, <2>3 DEF StartsWhole, RefersWithin
      <3> QED BY <3>1 DEF GoneBefore
    <2> QED BY <1>2, <2>2, <2>3, <2>4, UnwrittenRefs
  <1> QED BY <1>0, <1>1, <1>2 DEF CloudAttrs

StrandInv ==
  owner = "dead" => InFlight = {} /\ (CleanupsAlone /\ StartsWhole(input) => StrandsNobody)

LEMMA StrandNext ==
  LoopInv /\ OutcomeInv /\ AgreeInv /\ AttrsInv /\ StrandInv /\ [ExecNext]_execVars => StrandInv'
  <1> SUFFICES ASSUME LoopInv, OutcomeInv, AgreeInv, AttrsInv, StrandInv, [ExecNext]_execVars,
                      owner' = "dead"
               PROVE  InFlight' = {} /\ (CleanupsAlone' /\ StartsWhole(input)' => StrandsNobody')
    BY DEF StrandInv
  <1>1. CASE owner = "dead"
    <2>1. InFlight = {}
      BY <1>1 DEF StrandInv
    <2>2. UNCHANGED execVars
      BY <1>1, <2>1 DEF ExecNext, Top, Schedule, Cancel, Crash, Running, InFlight
    <2>3. UNCHANGED <<worker, cloud, released, plan, input>>
      BY <2>2 DEF execVars, runVars, cloudVars, resultVars
    <2> QED BY <1>1, <2>1, <2>3 DEF StrandInv, InFlight, CleanupsAlone, StrandsNobody, GoneBefore, MayLeaveGap
  <1>2. CASE owner # "dead"
    <2>1. Crash
      BY <1>2 DEF ExecNext, Top, Schedule, Execute, Receive, Cancel, execVars
    <2>2. UNCHANGED <<cloud, released, plan, input>> /\ InFlight' = {}
      BY <2>1 DEF Crash, runVars, cloudVars, resultVars, InFlight
    <2>3. CleanupsAlone /\ StartsWhole(input) => StrandsNobody
      BY <1>2, NobodyStranded DEF Planned, AttrsInv
    <2> QED BY <2>2, <2>3 DEF CleanupsAlone, StrandsNobody, GoneBefore, MayLeaveGap
  <1> QED BY <1>1, <1>2

(***************************************************************************)
(* execution.go:72-76, docs/configuration.md:310-313.  A deletion strands  *)
(* nobody, in every plan and at every instant of its run, a crash's        *)
(* included: an object that was not let go refers to objects that exist,   *)
(* unless what it refers to was gone before or is replaced by destroying   *)
(* it first - provided that what was there at the start did, and that the  *)
(* plan deals with the recorded dependents of what it deletes.             *)
(***************************************************************************)
THEOREM NobodyIsStranded ==
  ExecSpec => [](CleanupsAlone /\ StartsWhole(input) => StrandsNobody)
  <1> DEFINE I == LoopInv /\ OutcomeInv /\ ReportInv /\ AgreeInv /\ AttrsInv /\ StrandInv
  <1>1. ExecInit => I
    <2>1. ExecInit => StrandInv
      BY DEF ExecInit, StrandInv
    <2> QED BY <2>1, LoopInit, ReportInit, AgreeInit, AttrsInit
  <1>2. I /\ [ExecNext]_execVars => I'
    BY LoopNext, ReportNext, AgreeNext, AttrsNext, StrandNext
  <1>3. I => (CleanupsAlone /\ StartsWhole(input) => StrandsNobody)
    BY NobodyStranded DEF StrandInv, Planned, AttrsInv
  <1> QED BY <1>1, <1>2, <1>3, PTL DEF ExecSpec

-----------------------------------------------------------------------------
(***************************************************************************)
(* What a guard keeps.  Here cleanups may share an address with anything:  *)
(* no operation makes or removes at a guarded address, so its record stays *)
(* one of the object planning saw; a cleanup takes one of those set aside, *)
(* which it is not; and an operation elsewhere deletes an object of its    *)
(* own address, whatever snapshot it was launched with.                    *)
(***************************************************************************)
Held == {a \in DOMAIN input.st : ~Gone(input, a) /\ Guarded(input, a)}

KeepsTo(rec, b) ==
  /\ Shaped(rec) /\ rec.obj[1] = b
  /\ rec.deposed \in Seq(LeftBehind(rec)) /\ \A o \in LeftBehind(rec) : o[1] = b
  /\ b \in Held => rec.obj = input.st[b].obj /\ rec.obj \notin LeftBehind(rec)

MemKept == \A b \in DOMAIN mem : KeepsTo(mem[b], b)

SeenKept ==
  \A n \in InFlight : worker[n].at = "called" /\ n.addr \in DOMAIN worker[n].snapshot =>
    KeepsTo(worker[n].snapshot[n.addr], n.addr)

BroughtKept ==
  \A n \in InFlight : worker[n].at = "ok" /\ NeedsDesired(n) =>
    /\ KeepsTo(worker[n].record, n.addr)
    /\ Makes(n) => worker[n].record.deposed = <<>>

KeptInv ==
  /\ GuardedAreKept
  /\ MemKept
  /\ SeenKept
  /\ BroughtKept

\* What a plan may still do where a guard holds.
LEMMA HeldNodes ==
  ASSUME LoopInv, NEW n \in nodes, n.addr \in Held
  PROVE  \/ n.kind \in {"update", "destroy_deposed"}
         \/ n.kind = "forget" /\ n.addr \notin DOMAIN input.cfg /\ input.st[n.addr].guards.retain
  <1> DEFINE a == n.addr
  <1>0. input \in Inputs /\ nodes = ExecNodes(Compute(input))
    BY DEF LoopInv, ExecTypeOK
  <1>1. PICK op \in Compute(input) : op.addr = a /\ op.kind = n.kind /\ n.kind # "noop"
    BY <1>0, NodeOfPlan
  <1>2. CASE op \in DeposedOps(input)
    <2>1. \E b, o : op = Operation(b, "destroy_deposed", o, NoAttrs, NoLifecycle)
      BY <1>2 DEF DeposedOps
    <2>2. op.kind = "destroy_deposed"
      BY <2>1 DEF Operation
    <2> QED BY <1>1, <2>2
  <1>3. CASE op \notin DeposedOps(input)
    <2>1. PICK b \in DOMAIN Decide(input) :
            /\ Decide(input)[b].kind # "refused"
            /\ op = [Decide(input)[b] EXCEPT !.dependents = DependentsOf(input, b, Decide(input)[b].kind)]
      BY <1>3 DEF Compute
    <2>2. b = a /\ n.kind = Decide(input)[a].kind /\ Decide(input)[a].kind # "refused"
      BY <1>1, <2>1, PlannedOp DEF SameAs
    <2>3. a \in DOMAIN input.st /\ ~Gone(input, a) /\ Guarded(input, a)
      BY DEF Held
    <2> HIDE DEF a
    <2>4. CASE a \in DOMAIN input.cfg
      <3>1. n.kind = ConfiguredKind(input, a, Wanted(input, a))
        BY <2>2, <2>4, ConfiguredAt
      <3>2. input.cfg[a].guards.prevent_replace
        BY <2>3, <2>4 DEF Guarded
      <3>3. n.kind \in {"refused", "update", "noop"}
        BY <2>3, <3>1, <3>2 DEF ConfiguredKind
      <3> QED BY <1>1, <2>2, <3>3
    <2>5. CASE a \notin DOMAIN input.cfg
      <3>1. input.protect \/ input.st[a].guards.prevent_destroy \/ input.st[a].guards.retain
        BY <2>3, <2>5 DEF Guarded
      <3>2. Decide(input)[a] = OperationFor(input, a, References(input, a, InScope(input)))
        BY <2>3 DEF Decide
      <3>3. Decide(input)[a] = RemovalOperation(input, a)
        BY <2>2, <2>5, <3>2 DEF OperationFor, Refused, Operation
      <3>4. n.kind = RemovalKind(input, a)
        BY <2>2, <3>3 DEF RemovalOperation, Operation
      <3>5. n.kind = "forget" /\ input.st[a].guards.retain
        BY <2>2, <2>3, <3>1, <3>4 DEF RemovalKind
      <3> QED BY <2>5, <3>5 DEF a
    <2> QED BY <2>4, <2>5
  <1> QED BY <1>2, <1>3

LEMMA KeptInit == ExecInit => KeptInv
  <1> SUFFICES ASSUME ExecInit PROVE KeptInv
    OBVIOUS
  <1>1. LoopInv
    BY LoopInit
  <1>2. mem = input.st /\ disk = input.st /\ cloud = LiveAtStart(input) /\ InFlight = {}
    BY DEF ExecInit, InFlight
  <1>3. \A b \in DOMAIN mem : KeepsTo(mem[b], b)
    BY <1>1, <1>2, RecordedObjects DEF KeepsTo
  <1>4. ASSUME NEW a \in DOMAIN input.st, ~Gone(input, a) PROVE input.st[a].obj \in DOMAIN cloud
    BY <1>2, <1>4 DEF LiveAtStart
  <1>5. GuardedAreKept
    BY <1>2, <1>4 DEF GuardedAreKept, StillNames
  <1> QED BY <1>2, <1>3, <1>5 DEF KeptInv, MemKept, SeenKept, BroughtKept

\* What a call is about is an object of its own address, and never the one
\* a guard keeps where it deletes.
LEMMA CurrentIsItsOwn ==
  ASSUME LoopInv, KeptInv, NEW n \in InFlight, n \in nodes, worker[n].at = "called",
         CurrentObj(n, worker[n].snapshot) # NoObj
  PROVE  LET o == CurrentObj(n, worker[n].snapshot)
         IN /\ n.addr \in DOMAIN worker[n].snapshot
            /\ KeepsTo(worker[n].snapshot[n.addr], n.addr)
            /\ ~TakesDeposed(n) => o = worker[n].snapshot[n.addr].obj
            /\ o[1] = n.addr
            /\ Deletes(n) /\ n.addr \in Held => o # input.st[n.addr].obj
  <1> DEFINE a == n.addr
             seen == worker[n].snapshot
             o == CurrentObj(n, seen)
  <1>1. a \in DOMAIN seen
    BY DEF CurrentObj
  <1>2. KeepsTo(seen[a], a)
    BY <1>1 DEF KeptInv, SeenKept
  <1>3. CASE TakesDeposed(n)
    <2>1. o = Head(seen[a].deposed) /\ seen[a].deposed # <<>>
      BY <1>1, <1>3 DEF CurrentObj
    <2>2. seen[a].deposed \in Seq(LeftBehind(seen[a]))
      BY <1>2 DEF KeepsTo
    <2>3. \A S, s : s \in Seq(S) /\ s # <<>> => Head(s) \in S
      OBVIOUS
    <2>4. o \in LeftBehind(seen[a])
      BY <2>1, <2>2, <2>3
    <2> HIDE DEF a, seen, o
    <2>5. o[1] = a /\ (a \in Held => o # input.st[a].obj)
      BY <1>2, <2>4 DEF KeepsTo
    <2> QED BY <1>1, <1>2, <1>3, <2>5 DEF a, seen, o
  <1>4. CASE ~TakesDeposed(n)
    <2>1. o = seen[a].obj
      BY <1>1, <1>4 DEF CurrentObj
    <2>2. ~(Deletes(n) /\ a \in Held)
      BY <1>4, HeldNodes, NodeFacts DEF Deletes, TakesDeposed
    <2> HIDE DEF a, seen, o
    <2>3. o[1] = a
      BY <1>2, <2>1 DEF KeepsTo
    <2> QED BY <1>1, <1>2, <2>1, <2>2, <2>3 DEF a, seen, o
  <1> QED BY <1>3, <1>4

\* The record a call brings is of its own address, and where a guard holds
\* of the object that was there.
LEMMA BringsKept ==
  ASSUME LoopInv, KeptInv, NEW n \in InFlight, n \in nodes, Execute(n),
         worker'[n].at = "ok", NeedsDesired(n)
  PROVE  KeepsTo(worker'[n].record, n.addr) /\ (Makes(n) => worker'[n].record.deposed = <<>>)
  <1> DEFINE a == n.addr
             seen == worker[n].snapshot
             rec == worker'[n].record
  <1>0. worker[n].at = "called" /\ ~Deletes(n) /\ n.kind # "forget"
    BY NodeFacts, NodeDoes DEF Execute, Deletes
  <1>1. \A obj, attrs :
          LET r == NewRecord(n, OpAt(n), obj, attrs, seen)
          IN /\ Shaped(r) /\ r.obj = obj
             /\ r.deposed = IF n.kind = "update" THEN seen[a].deposed ELSE <<>>
    BY DEF NewRecord, Shaped
  <1>2. CASE Makes(n)
    <2>1. n.kind # "update"
      BY <1>2 DEF Makes
    <2>2. \E attrs : rec = NewRecord(n, OpAt(n), <<a, made[a] + 1>>, attrs, seen)
      BY <1>0, <2>1, Carried
    <2>3. Shaped(rec) /\ rec.obj = <<a, made[a] + 1>> /\ rec.deposed = <<>>
      BY <1>1, <2>1, <2>2
    <2>4. a \notin Held
      BY <1>0, <1>2, HeldNodes DEF Makes, NeedsDesired
    <2> HIDE DEF a, rec
    <2>5. LeftBehind(rec) = {} /\ rec.deposed \in Seq({})
      BY <2>3, DeposedLists
    <2>6. <<a, made[a] + 1>>[1] = a
      OBVIOUS
    <2>7. KeepsTo(rec, a)
      BY <2>3, <2>4, <2>5, <2>6 DEF KeepsTo
    <2> QED BY <2>3, <2>7 DEF a, rec
  <1>3. CASE ~Makes(n)
    <2>1. n.kind = "update" /\ ~TakesDeposed(n)
      BY <1>3 DEF Makes, TakesDeposed
    <2>2. /\ ~CannotCall(n, seen)
          /\ \E attrs : rec = NewRecord(n, OpAt(n), CurrentObj(n, seen), attrs, seen)
      BY <1>0, <1>3, <2>1, Carried
    <2>3. CurrentObj(n, seen) # NoObj
      BY <2>1, <2>2 DEF CannotCall
    <2>4. KeepsTo(seen[a], a) /\ CurrentObj(n, seen) = seen[a].obj
      BY <1>0, <2>1, <2>3, CurrentIsItsOwn
    <2>5. Shaped(rec) /\ rec.obj = seen[a].obj /\ rec.deposed = seen[a].deposed
      BY <1>1, <2>1, <2>2, <2>4
    <2> HIDE DEF a, rec, seen
    <2>6. LeftBehind(rec) = LeftBehind(seen[a])
      BY <2>5 DEF LeftBehind
    <2>7. KeepsTo(rec, a)
      BY <2>4, <2>5, <2>6 DEF KeepsTo
    <2> QED BY <1>3, <2>7 DEF a, rec
  <1> QED BY <1>2, <1>3

LEMMA KeptExecute ==
  ASSUME LoopInv, KeptInv, NEW n \in InFlight, Execute(n)
  PROVE  KeptInv'
  <1>0. /\ UNCHANGED <<input, mem, disk>> /\ InFlight' = InFlight /\ n \in nodes
        /\ worker[n].at = "called" /\ worker'[n].at # "called"
        /\ \A m \in InFlight : m # n => worker'[m] = worker[m]
    BY Worked DEF Execute, runVars, stateVars, LoopInv, ExecTypeOK
  <1>1. \A rec, b : KeepsTo(rec, b)' <=> KeepsTo(rec, b)
    BY <1>0 DEF KeepsTo, Held, Guarded
  <1>2. MemKept'
    BY <1>0, <1>1 DEF KeptInv, MemKept
  <1>3. SeenKept'
    BY <1>0, <1>1 DEF KeptInv, SeenKept
  <1>4. BroughtKept'
    BY <1>0, <1>1, BringsKept DEF KeptInv, BroughtKept
  <1>5. \A a \in Held : input.st[a].obj \in DOMAIN cloud'
    <2> SUFFICES ASSUME NEW a \in Held PROVE input.st[a].obj \in DOMAIN cloud'
      OBVIOUS
    <2> DEFINE x == CurrentObj(n, worker[n].snapshot)
    <2>1. input.st[a].obj \in DOMAIN cloud /\ a \in DOMAIN input.st
      BY DEF Held, KeptInv, GuardedAreKept
    <2>2. CASE DOMAIN cloud \subseteq DOMAIN cloud'
      BY <2>1, <2>2
    <2>3. CASE /\ ~CannotCall(n, worker[n].snapshot) /\ Deletes(n)
               /\ DOMAIN cloud' = DOMAIN cloud \ {x}
      <3>1. x # NoObj
        BY <2>3 DEF CannotCall, Deletes
      <3>2. x[1] = n.addr /\ (n.addr \in Held => x # input.st[n.addr].obj)
        BY <1>0, <2>3, <3>1, CurrentIsItsOwn
      <3>3. input.st[a].obj[1] = a
        BY <2>1, RecordedObjects
      <3> HIDE DEF x
      <3>4. x # input.st[a].obj
        BY <3>2, <3>3
      <3> QED BY <2>1, <2>3, <3>4
    <2>4. DOMAIN cloud \subseteq DOMAIN cloud' \/ (/\ ~CannotCall(n, worker[n].snapshot) /\ Deletes(n)
                                                   /\ DOMAIN cloud' = DOMAIN cloud \ {x})
      BY Carried
    <2> QED BY <2>2, <2>3, <2>4
  <1>6. GuardedAreKept'
    BY <1>0, <1>5 DEF KeptInv, GuardedAreKept, StillNames, Held, Guarded
  <1> QED BY <1>2, <1>3, <1>4, <1>6 DEF KeptInv

\* What recording a success leaves in memory.
LEMMA RecordsKept ==
  ASSUME LoopInv, KeptInv, NEW n \in InFlight, n \in nodes, worker[n].at = "ok",
         mem' = Recorded(n, worker[n])
  PROVE  /\ \A b \in DOMAIN mem' : KeepsTo(mem'[b], b)
         /\ \A a \in Held : StillNames(mem, a) => StillNames(mem', a)
  <1> DEFINE a == n.addr
  <1>1. \A rec : /\ DOMAIN WithEntry(mem, a, rec) = DOMAIN mem \cup {a}
                 /\ WithEntry(mem, a, rec)[a] = rec
                 /\ \A b \in DOMAIN mem : b # a => WithEntry(mem, a, rec)[b] = mem[b]
    BY DEF WithEntry
  <1>2. \A b \in DOMAIN mem : KeepsTo(mem[b], b)
    BY DEF KeptInv, MemKept
  <1>3. ASSUME NEW rec, KeepsTo(rec, a), mem' = WithEntry(mem, a, rec)
        PROVE  /\ \A b \in DOMAIN mem' : KeepsTo(mem'[b], b)
               /\ \A c \in Held : StillNames(mem, c) => StillNames(mem', c)
    <2> HIDE DEF a
    <2>1. \A b \in DOMAIN mem' : KeepsTo(mem'[b], b)
      BY <1>1, <1>2, <1>3
    <2>2. ASSUME NEW c \in Held, StillNames(mem, c) PROVE StillNames(mem', c)
      <3>1. CASE c \in DOMAIN mem'
        BY <2>1, <3>1 DEF KeepsTo, StillNames
      <3>2. CASE c \notin DOMAIN mem'
        BY <1>1, <1>3, <2>2, <3>2 DEF StillNames
      <3> QED BY <3>1, <3>2
    <2> QED BY <2>1, <2>2
  <1>4. CASE IsRemoval(n)
    <2>1. mem' = Without(mem, a)
      BY <1>4 DEF Recorded
    <2>2. DOMAIN mem' = DOMAIN mem \ {a} /\ \A b \in DOMAIN mem : b # a => mem'[b] = mem[b]
      BY <2>1 DEF Without
    <2>3. a \in Held => a \notin DOMAIN input.cfg /\ input.st[a].guards.retain
      BY <1>4, HeldNodes DEF IsRemoval
    <2> HIDE DEF a
    <2>4. ASSUME NEW c \in Held, StillNames(mem, c) PROVE StillNames(mem', c)
      <3>1. CASE c = a
        BY <2>2, <2>3, <3>1 DEF StillNames
      <3>2. CASE c # a
        BY <2>2, <2>4, <3>2 DEF StillNames
      <3> QED BY <3>1, <3>2
    <2> QED BY <1>2, <2>2, <2>4
  <1>5. CASE TakesDeposed(n) /\ a \in DOMAIN mem
    <2> DEFINE rec == [mem[a] EXCEPT !.deposed = <<>>]
    <2>0. ~IsRemoval(n)
      BY <1>5, NodeDoes
    <2>1. mem' = WithEntry(mem, a, rec)
      BY <1>5, <2>0 DEF Recorded
    <2>2. KeepsTo(mem[a], a)
      BY <1>2, <1>5
    <2>3. Shaped(rec) /\ rec.obj = mem[a].obj /\ rec.deposed = <<>>
      BY <2>2 DEF KeepsTo, Shaped
    <2> HIDE DEF rec, a
    <2>4. LeftBehind(rec) = {} /\ rec.deposed \in Seq({})
      BY <2>3, DeposedLists
    <2>5. KeepsTo(rec, a)
      BY <2>2, <2>3, <2>4 DEF KeepsTo
    <2> QED BY <1>3, <2>1, <2>5
  <1>6. CASE TakesDeposed(n) /\ a \notin DOMAIN mem
    <2>0. ~IsRemoval(n)
      BY <1>6, NodeDoes
    <2>1. mem' = mem
      BY <1>6, <2>0 DEF Recorded
    <2> QED BY <1>2, <2>1
  <1>7. CASE NeedsDesired(n)
    <2> DEFINE rec == worker[n].record
               aside == [rec EXCEPT !.deposed = Append(@, mem[a].obj)]
    <2>1. ~IsRemoval(n) /\ ~TakesDeposed(n)
      BY <1>7, NodeDoes
    <2>2. KeepsTo(rec, a) /\ (Makes(n) => rec.deposed = <<>>)
      BY <1>7 DEF KeptInv, BroughtKept
    <2>3. CASE n.kind = "replace" /\ n.cbd /\ a \in DOMAIN mem
      <3>1. mem' = WithEntry(mem, a, aside)
        BY <2>1, <2>3 DEF Recorded
      <3>2. rec.deposed = <<>> /\ a \notin Held
        BY <1>7, <2>2, <2>3, HeldNodes DEF Makes
      <3>3. Shaped(aside) /\ aside.obj = rec.obj /\ aside.deposed = Append(<<>>, mem[a].obj)
        BY <2>2, <3>2 DEF KeepsTo, Shaped
      <3>4. Append(<<>>, mem[a].obj) = <<mem[a].obj>>
        OBVIOUS
      <3>5. mem[a].obj[1] = a
        BY <1>2, <2>3 DEF KeepsTo
      <3> HIDE DEF aside, rec, a
      <3>6. LeftBehind(aside) = {mem[a].obj} /\ aside.deposed \in Seq({mem[a].obj})
        BY <3>3, <3>4, DeposedLists
      <3>7. KeepsTo(aside, a)
        BY <2>2, <3>2, <3>3, <3>5, <3>6 DEF KeepsTo
      <3> QED BY <1>3, <3>1, <3>7
    <2>4. CASE ~(n.kind = "replace" /\ n.cbd /\ a \in DOMAIN mem)
      <3>1. mem' = WithEntry(mem, a, rec)
        BY <2>1, <2>4 DEF Recorded
      <3> HIDE DEF rec, a
      <3> QED BY <1>3, <2>2, <3>1
    <2> QED BY <2>3, <2>4
  <1>8. IsRemoval(n) \/ TakesDeposed(n) \/ NeedsDesired(n)
    BY NodeFacts, NodeDoes
  <1> QED BY <1>4, <1>5, <1>6, <1>7, <1>8

LEMMA KeptReceive ==
  ASSUME LoopInv, KeptInv, NEW n \in InFlight, Receive(n)
  PROVE  KeptInv'
  <1>0. /\ InFlight' = InFlight \ {n} /\ \A m \in InFlight' : worker'[m] = worker[m]
        /\ UNCHANGED <<input, cloud>> /\ n \in nodes
        /\ \/ UNCHANGED <<mem, disk>>
           \/ /\ worker[n].at = "ok" /\ mem' = Recorded(n, worker[n])
              /\ disk' = mem' \/ UNCHANGED disk
    BY Received DEF LoopInv, ExecTypeOK
  <1>1. \A rec, b : KeepsTo(rec, b)' <=> KeepsTo(rec, b)
    BY <1>0 DEF KeepsTo, Held, Guarded
  <1>2. SeenKept' /\ BroughtKept'
    BY <1>0, <1>1 DEF KeptInv, SeenKept, BroughtKept
  <1>3. /\ \A b \in DOMAIN mem' : KeepsTo(mem'[b], b)
        /\ \A a \in Held : StillNames(mem, a) => StillNames(mem', a)
    BY <1>0, RecordsKept DEF KeptInv, MemKept
  <1>4. MemKept'
    BY <1>1, <1>3 DEF MemKept
  <1>5. \A a \in Held : /\ input.st[a].obj \in DOMAIN cloud
                        /\ StillNames(mem, a) /\ StillNames(disk, a)
    BY DEF KeptInv, GuardedAreKept, Held
  <1>6. \A a \in Held : StillNames(mem', a) /\ StillNames(disk', a)
    BY <1>0, <1>3, <1>5
  <1>7. GuardedAreKept'
    BY <1>0, <1>5, <1>6 DEF GuardedAreKept, StillNames, Held, Guarded
  <1> QED BY <1>2, <1>4, <1>7 DEF KeptInv

LEMMA KeptNext == LoopInv /\ KeptInv /\ [ExecNext]_execVars => KeptInv'
  <1> SUFFICES ASSUME LoopInv, KeptInv, [ExecNext]_execVars PROVE KeptInv'
    OBVIOUS
  <1>1. ASSUME UNCHANGED <<input, cloud, mem, disk>>,
               \A n \in InFlight' : worker'[n] = Called \/ (n \in InFlight /\ worker'[n] = worker[n])
        PROVE  KeptInv'
    <2>1. Called.at = "called" /\ Called.snapshot = mem
      BY DEF Called
    <2>2. \A rec, b : KeepsTo(rec, b)' <=> KeepsTo(rec, b)
      BY <1>1 DEF KeepsTo, Held, Guarded
    <2>3. GuardedAreKept' /\ MemKept'
      BY <1>1, <2>2 DEF KeptInv, GuardedAreKept, StillNames, Guarded, MemKept
    <2>4. SeenKept' /\ BroughtKept'
      BY <1>1, <2>1, <2>2 DEF KeptInv, MemKept, SeenKept, BroughtKept
    <2> QED BY <2>3, <2>4 DEF KeptInv
  <1>2. CASE Top \/ Cancel \/ UNCHANGED execVars
    <2>1. UNCHANGED <<input, cloud, mem, disk, worker>>
      BY <1>2 DEF Top, Cancel, execVars, runVars, cloudVars, stateVars
    <2> QED BY <1>1, <2>1 DEF InFlight
  <1>3. CASE Schedule
    <2>1. UNCHANGED <<input, cloud, mem, disk>> /\ owner # "dead"
      BY <1>3 DEF Schedule, runVars, cloudVars, stateVars
    <2>2. PICK L \in SUBSET DOMAIN queue : Launch(L)
      BY <1>3 DEF Schedule
    <2>3. \A n \in InFlight' : worker'[n] = IF n \in InFlight THEN worker[n] ELSE Called
      BY <2>1, <2>2, Launched
    <2> QED BY <1>1, <2>1, <2>3
  <1>4. CASE Crash
    <2>1. UNCHANGED <<input, cloud, mem, disk>> /\ InFlight' = {}
      BY <1>4 DEF Crash, runVars, cloudVars, stateVars, InFlight
    <2> QED BY <1>1, <2>1
  <1>5. ASSUME NEW n \in InFlight, Execute(n) \/ Receive(n) PROVE KeptInv'
    BY <1>5, KeptExecute, KeptReceive
  <1> QED BY <1>2, <1>3, <1>4, <1>5 DEF ExecNext, InFlight

(***************************************************************************)
(* GuardedAreKept (docs/configuration.md:291-304): an object a guard keeps *)
(* outlives every run, and state, in memory and on disk, goes on naming it *)
(* unless retain let it go - in every interleaving with failures, an       *)
(* interrupt or a crash, and with cleanups beside anything at its address. *)
(***************************************************************************)
THEOREM GuardedObjectsAreKept == ExecSpec => []GuardedAreKept
  <1>1. LoopInv /\ KeptInv /\ [ExecNext]_execVars => (LoopInv /\ KeptInv)'
    BY LoopNext, KeptNext
  <1>2. KeptInv => GuardedAreKept
    BY DEF KeptInv
  <1> QED BY <1>1, <1>2, LoopInit, KeptInit, PTL DEF ExecSpec
=============================================================================
