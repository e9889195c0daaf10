------------------------------ MODULE Executor ------------------------------
(***************************************************************************)
(* internal/executor: Apply runs an execution graph.  One owner goroutine  *)
(* drives the walk, launches a worker goroutine per operation and records  *)
(* what each one returns in state; workers call providers concurrently.    *)
(*                                                                         *)
(* Composes the planner (what is to be done), the execution graph (in what *)
(* order) and the walk (what may start now).                               *)
(***************************************************************************)
EXTENDS ExecutionGraph, Walk

CONSTANTS
  Inputs,         \* the planning inputs a run may start from
  Parallelism,    \* Options.Parallelism, folded to at least 1
  ProviderOf,     \* address -> the provider instance its operations call
  Ceiling,        \* provider -> providerCeiling
  Faults,         \* outcomes a provider call may have besides success
  PutMayFail,     \* whether the backend may fail a write
  MayCancel,      \* whether the user may interrupt the run
  MayCrash        \* whether the process may die during the run

NoProvider == "none"   \* what a forget is executed with (the empty name)

ASSUME ExecutorAssumption ==
  /\ Parallelism \in Nat \ {0}
  /\ NoProvider \notin DOMAIN Ceiling
  /\ \A p \in DOMAIN Ceiling : Ceiling[p] \in Nat \ {0}
  /\ \A a \in Addr : ProviderOf[a] \in DOMAIN Ceiling
  /\ Faults \subseteq {"error", "no_state"}
  /\ {PutMayFail, MayCancel, MayCrash} \subseteq BOOLEAN

(***************************************************************************)
(* What a record of a names are objects of a, each by an ID of its own;    *)
(* the first one a run makes there (generation 1) has an ID none had.      *)
(***************************************************************************)
IsRecordOf(rs, a) ==
  /\ rs = [obj |-> rs.obj, attrs |-> rs.attrs, deps |-> rs.deps, guards |-> rs.guards,
           deposed |-> rs.deposed]
  /\ rs.deposed \in Seq(LeftBehind(rs))
  /\ {rs.obj} \cup LeftBehind(rs) \subseteq {a} \X (Nat \ {1})
  /\ rs.obj \notin LeftBehind(rs)

ASSUME InputsAssumption ==
  \A inp \in Inputs :
    /\ inp = [cfg |-> inp.cfg, st |-> inp.st, obs |-> inp.obs, protect |-> inp.protect]
    /\ Compiles(inp.cfg)
    /\ DOMAIN inp.cfg \subseteq Addr /\ DOMAIN inp.st \subseteq Addr
    /\ \A a \in DOMAIN inp.st : IsRecordOf(inp.st[a], a)
    /\ ExecNodes(Compute(inp)) \subseteq Nodes

VARIABLES
  input,          \* what planning saw; constant during the run
  plan,           \* planner.Compute(input); constant during the run
  cloud,          \* live object -> its attributes (the providers' side)
  made,           \* address -> the generation of the last object created
  mem,            \* run.st: the state in memory
  disk,           \* the last state the backend wrote
  queue,          \* dispatched by the walk, not launched yet, in order
  worker,         \* launched node -> what its goroutine holds
  owner,          \* where the owner goroutine is
  cancelled,      \* ctx.Err() # nil
  stopping,       \* what the owner's current pass read of it and persistFailed
  persistFailed,  \* a success could not be recorded
  applied,        \* tracker.applied: address -> was it a removal
  failed,         \* tracker.failed
  skipped,        \* tracker.skipped
  released        \* objects left running on purpose by a forget

runVars == <<input, plan>>
cloudVars == <<cloud, made>>
stateVars == <<mem, disk>>
stopVars == <<cancelled, stopping, persistFailed>>
resultVars == <<applied, failed, skipped, released>>
execVars == <<walkVars, runVars, cloudVars, stateVars, queue, worker, owner,
              stopVars, resultVars>>

-----------------------------------------------------------------------------
(***************************************************************************)
(* Nodes become ready in the order of their IDs ("create:", "deposed:",    *)
(* "destroy:", "forget:", "update:", then the address).                    *)
(***************************************************************************)
IDPrefix(n) ==
  IF n.kind \in {"update", "forget", "destroy_deposed"}
  THEN [destroy_deposed |-> 2, forget |-> 4, update |-> 5][n.kind]
  ELSE [create |-> 1, destroy |-> 3][n.phase]

IDBefore(m, n) ==
  IDPrefix(m) < IDPrefix(n) \/ (IDPrefix(m) = IDPrefix(n) /\ m.addr < n.addr)

\* The members of S, each at its rank in the strict order R.
Ranked(S, R) ==
  [k \in 1..Cardinality(S) |-> CHOOSE n \in S : Cardinality({m \in S : <<m, n>> \in R}) = k - 1]

InOrder(S) == Ranked(S, {p \in S \X S : IDBefore(p[1], p[2])})

\* A map without the entry of x.
Without(f, x) == [y \in DOMAIN f \ {x} |-> f[y]]

\* indexOperations: the operation a node is executed from.
OpAt(n) == LastAt(plan, n.addr)

ProviderName(n) == IF n.kind = "forget" THEN NoProvider ELSE ProviderOf[n.addr]

\* The nodes whose object is the deposed one, not the recorded one.
TakesDeposed(n) ==
  \/ n.kind = "destroy_deposed"
  \/ n.kind = "replace" /\ n.phase = "destroy" /\ n.cbd

NeedsDesired(n) == n.kind \in {"create", "update"} \/ (n.kind = "replace" /\ n.phase = "create")

IsRemoval(n) ==
  \/ n.kind \in {"forget", "destroy"}
  \/ n.kind = "replace" /\ n.phase = "destroy" /\ ~n.cbd

-----------------------------------------------------------------------------
(***************************************************************************)
(* The owner.  One pass over the queue launches what the global and the    *)
(* per-provider limit admit and keeps the rest in order; each launch takes *)
(* a snapshot of the state.                                                *)
(***************************************************************************)
RunningAt(S, p) == Cardinality({n \in S : ProviderName(n) = p})

Admits(running, n) ==
  /\ Cardinality(running) < Parallelism
  /\ ProviderName(n) # NoProvider => RunningAt(running, ProviderName(n)) < Ceiling[ProviderName(n)]

InFlight == DOMAIN worker

\* Whether L is the positions a pass launches: each is decided on in order,
\* beside what was running and what the pass has launched before it.
BesideAt(L, i) == InFlight \cup {queue[j] : j \in {k \in L : k < i}}

Launches(L) ==
  \A i \in DOMAIN queue : i \in L <=> ~stopping /\ Admits(BesideAt(L, i), queue[i])

\* Mutant: what a ceiling held back is not kept for the next pass.
DeferredByTheLimit(L) ==
  {i \in DOMAIN queue \ L : stopping \/ Cardinality(BesideAt(L, i)) >= Parallelism}

Deferred(L) == DOMAIN queue \ L

Rest(L) ==
  LET kept == Deferred(L)
      at == Ranked(kept, {p \in kept \X kept : p[1] < p[2]})
  IN [k \in DOMAIN at |-> queue[at[k]]]

Called == [at |-> "called", snapshot |-> mem]

Launch(L) ==
  /\ worker' = [n \in InFlight \cup {queue[i] : i \in L} |->
                  IF n \in InFlight THEN worker[n] ELSE Called]
  /\ queue' = Rest(L)

\* The loop's condition and its first line: whether this pass may launch.
Top ==
  /\ owner = "top"
  /\ IF left = 0
     THEN owner' = "ended" /\ UNCHANGED stopping
     ELSE owner' = "pass" /\ stopping' = (cancelled \/ persistFailed)
  /\ UNCHANGED <<walkVars, runVars, cloudVars, stateVars, queue, worker, cancelled,
                 persistFailed, resultVars>>

\* Mutant: neither reason to leave the loop is looked at.
ScheduleAlwaysWaits ==
  /\ owner = "pass"
  /\ \E L \in SUBSET DOMAIN queue : Launches(L) /\ Launch(L)
  /\ owner' = "receive"
  /\ UNCHANGED <<walkVars, runVars, cloudVars, stateVars, stopVars, resultVars>>

\* The rest of the pass: launch, keep what does not fit, and either wait for
\* a result or leave the loop (told to stop, or nothing can ever move).
Schedule ==
  /\ owner = "pass"
  /\ \E L \in SUBSET DOMAIN queue : Launches(L) /\ Launch(L)
  /\ owner' = IF DOMAIN worker' = {} THEN "ended" ELSE "receive"
  /\ UNCHANGED <<walkVars, runVars, cloudVars, stateVars, stopVars, resultVars>>

-----------------------------------------------------------------------------
(***************************************************************************)
(* A worker: execute, up to the result it sends.  It sees only the         *)
(* snapshot taken at its launch.                                           *)
(***************************************************************************)
\* Mutant: a cleanup is given the recorded object, like any other deletion.
CurrentObjTaken(n, snapshot) ==
  IF n.addr \in DOMAIN snapshot THEN snapshot[n.addr].obj ELSE NoObj

\* currentFor and deposedOf: the object a call is about, NoObj when none.
CurrentObj(n, snapshot) ==
  IF TakesDeposed(n)
  THEN IF n.addr \in DOMAIN snapshot /\ snapshot[n.addr].deposed # <<>>
       THEN Head(snapshot[n.addr].deposed) ELSE NoObj
  ELSE IF n.addr \in DOMAIN snapshot THEN snapshot[n.addr].obj ELSE NoObj

\* resolveAfter: a reference still unknown takes the ID the snapshot holds.
Resolvable(op, snapshot) ==
  \A b \in DOMAIN op.after.ref : op.after.ref[b] # NoObj \/ b \in DOMAIN snapshot

ResolveAfter(op, snapshot) ==
  [op.after EXCEPT !.ref = [b \in DOMAIN @ |->
                              IF @[b] # NoObj THEN @[b] ELSE snapshot[b].obj]]

\* Mutant: the dependencies are left to the provider, which knows none.
NewRecordUnstamped(n, op, obj, attrs, snapshot) ==
  [obj |-> obj, attrs |-> attrs, deps |-> {}, guards |-> op.guards,
   deposed |-> IF n.kind = "update" THEN snapshot[n.addr].deposed ELSE <<>>]

\* The record built from what the provider returned: lifecycle and
\* dependencies restamped, an update keeping the deposed objects it saw.
NewRecord(n, op, obj, attrs, snapshot) ==
  [obj |-> obj, attrs |-> attrs, deps |-> op.dependsOn, guards |-> op.guards,
   deposed |-> IF n.kind = "update" THEN snapshot[n.addr].deposed ELSE <<>>]

NoRecord == [obj |-> NoObj, attrs |-> NoAttrs, deps |-> {}, guards |-> NoGuards, deposed |-> <<>>]

Returns(n, outcome, record) ==
  worker' = [worker EXCEPT ![n] = [at |-> outcome, record |-> record]]

\* Early returns of execute and dispatch, before any provider call.
CannotCall(n, snapshot) ==
  \/ NeedsDesired(n) /\ ~Resolvable(OpAt(n), snapshot)
  \/ TakesDeposed(n) /\ CurrentObj(n, snapshot) = NoObj
  \/ n.kind = "update" /\ CurrentObj(n, snapshot) = NoObj
  \/ n.phase = "destroy" /\ n.kind # "forget" /\ CurrentObj(n, snapshot) = NoObj

CallCreate(n, op, snapshot) ==
  LET obj == <<n.addr, made[n.addr] + 1>>
      attrs == ResolveAfter(op, snapshot)
  IN /\ made' = [made EXCEPT ![n.addr] = @ + 1]
     /\ cloud' = [o \in DOMAIN cloud \cup {obj} |-> IF o = obj THEN attrs ELSE cloud[o]]
     /\ \/ Returns(n, "ok", NewRecord(n, op, obj, attrs, snapshot))
        \/ "no_state" \in Faults /\ Returns(n, "no_state", NoRecord)

CallUpdate(n, op, snapshot) ==
  LET obj == CurrentObj(n, snapshot)
      attrs == ResolveAfter(op, snapshot)
  IN /\ cloud' = [cloud EXCEPT ![obj] = attrs]
     /\ UNCHANGED made
     /\ \/ Returns(n, "ok", NewRecord(n, op, obj, attrs, snapshot))
        \/ "no_state" \in Faults /\ Returns(n, "no_state", NoRecord)

CallDelete(n, snapshot) ==
  /\ cloud' = Without(cloud, CurrentObj(n, snapshot))
  /\ UNCHANGED made
  /\ Returns(n, "ok", NoRecord)

Execute(n) ==
  /\ n \in DOMAIN worker
  /\ worker[n].at = "called"
  /\ LET snapshot == worker[n].snapshot
         op == OpAt(n)
     IN \/ /\ CannotCall(n, snapshot) \/ (n.kind # "forget" /\ "error" \in Faults)
           /\ Returns(n, "error", NoRecord)
           /\ UNCHANGED cloudVars
        \/ /\ ~CannotCall(n, snapshot)
           /\ \/ NeedsDesired(n) /\ n.kind # "update" /\ CallCreate(n, op, snapshot)
              \/ n.kind = "update" /\ CallUpdate(n, op, snapshot)
              \/ n.phase = "destroy" /\ n.kind # "forget" /\ CallDelete(n, snapshot)
              \/ n.kind = "forget" /\ Returns(n, "ok", NoRecord) /\ UNCHANGED cloudVars
  /\ UNCHANGED <<walkVars, runVars, stateVars, queue, owner, stopVars, resultVars>>

-----------------------------------------------------------------------------
(***************************************************************************)
(* run.record: what a success does to the state in memory.                 *)
(***************************************************************************)
WithEntry(st, a, rec) == [b \in DOMAIN st \cup {a} |-> IF b = a THEN rec ELSE st[b]]

\* Mutant: the create phase replaces the record without setting the old
\* object aside.
RecordedForgetsOld(n, res) ==
  IF IsRemoval(n) THEN Without(mem, n.addr)
  ELSE IF TakesDeposed(n)
       THEN IF n.addr \in DOMAIN mem
            THEN WithEntry(mem, n.addr, [mem[n.addr] EXCEPT !.deposed = <<>>])
            ELSE mem
  ELSE WithEntry(mem, n.addr, res.record)

Recorded(n, res) ==
  IF IsRemoval(n) THEN Without(mem, n.addr)
  ELSE IF TakesDeposed(n)
       THEN IF n.addr \in DOMAIN mem
            THEN WithEntry(mem, n.addr, [mem[n.addr] EXCEPT !.deposed = <<>>])
            ELSE mem
  ELSE IF n.kind = "replace" /\ n.cbd /\ n.addr \in DOMAIN mem
       THEN WithEntry(mem, n.addr, [res.record EXCEPT !.deposed = Append(@, mem[n.addr].obj)])
  ELSE WithEntry(mem, n.addr, res.record)

\* tracker.recordFailureWith.
RecordFailure(n) ==
  /\ failed' = failed \cup {n}
  /\ applied' = Without(applied, n.addr)
  /\ skipped' = skipped \cup SkippedWith(n)
  /\ Skip(n)
  /\ UNCHANGED <<queue, released>>

\* tracker.recordSuccess, and the loop's append of what became ready.
RecordSuccess(n) ==
  /\ applied' = WithEntry(applied, n.addr, IsRemoval(n))
  /\ released' = IF n.kind = "forget" /\ n.addr \in DOMAIN mem
                 THEN released \cup {mem[n.addr].obj} ELSE released
  /\ queue' = queue \o InOrder(NewlyReady(n))
  /\ Done(n)
  /\ UNCHANGED <<failed, skipped>>

\* Mutant: a later write that succeeds lets the run go on.
ReceiveForgives(n) ==
  /\ owner = "receive"
  /\ n \in DOMAIN worker
  /\ worker[n].at # "called"
  /\ worker' = Without(worker, n)
  /\ owner' = "top"
  /\ LET res == worker[n] IN
     \/ /\ res.at = "error"
        /\ RecordFailure(n)
        /\ UNCHANGED <<stateVars, persistFailed>>
     \/ /\ res.at = "no_state"
        /\ RecordFailure(n)
        /\ persistFailed' = TRUE
        /\ UNCHANGED stateVars
     \/ /\ res.at = "ok"
        /\ mem' = Recorded(n, res)
        /\ \/ disk' = mem' /\ persistFailed' = FALSE
           \/ PutMayFail /\ persistFailed' = TRUE /\ UNCHANGED disk
        /\ RecordSuccess(n)
  /\ UNCHANGED <<runVars, cloudVars, cancelled, stopping>>

\* Mutant: a failed write is reported and the run goes on.
ReceiveIgnoresPut(n) ==
  /\ owner = "receive"
  /\ n \in DOMAIN worker
  /\ worker[n].at # "called"
  /\ worker' = Without(worker, n)
  /\ owner' = "top"
  /\ LET res == worker[n] IN
     \/ /\ res.at = "error"
        /\ RecordFailure(n)
        /\ UNCHANGED stateVars
     \/ /\ res.at = "no_state"
        /\ RecordFailure(n)
        /\ UNCHANGED stateVars
     \/ /\ res.at = "ok"
        /\ mem' = Recorded(n, res)
        /\ \/ disk' = mem'
           \/ PutMayFail /\ UNCHANGED disk
        /\ RecordSuccess(n)
  /\ UNCHANGED <<runVars, cloudVars, stopVars>>

(***************************************************************************)
(* One result: a failure strands its dependents; a success is recorded and *)
(* written before anything that waited for it starts.                      *)
(***************************************************************************)
Receive(n) ==
  /\ owner = "receive"
  /\ n \in DOMAIN worker
  /\ worker[n].at # "called"
  /\ worker' = Without(worker, n)
  /\ owner' = "top"
  /\ LET res == worker[n] IN
     \/ /\ res.at = "error"
        /\ RecordFailure(n)
        /\ UNCHANGED <<stateVars, persistFailed>>
     \/ /\ res.at = "no_state"
        /\ RecordFailure(n)
        /\ persistFailed' = TRUE
        /\ UNCHANGED stateVars
     \/ /\ res.at = "ok"
        /\ mem' = Recorded(n, res)
        /\ \/ disk' = mem' /\ UNCHANGED persistFailed
           \/ PutMayFail /\ persistFailed' = TRUE /\ UNCHANGED disk
        /\ RecordSuccess(n)
  /\ UNCHANGED <<runVars, cloudVars, cancelled, stopping>>

-----------------------------------------------------------------------------
\* tracker.result: what the run reports as applied; an address that should be
\* there is left out when state has no entry for it.
Reported == {a \in DOMAIN applied : applied[a] \/ a \in DOMAIN mem}

Running == owner \in {"top", "pass", "receive"}

\* The user interrupts: the context is cancelled, running calls go on.
Cancel ==
  /\ MayCancel /\ Running /\ ~cancelled
  /\ cancelled' = TRUE
  /\ UNCHANGED <<walkVars, runVars, cloudVars, stateVars, queue, worker, owner,
                 stopping, persistFailed, resultVars>>

\* The process dies: goroutines and memory are gone, disk and cloud stay.
Crash ==
  /\ MayCrash /\ Running
  /\ owner' = "dead"
  /\ worker' = <<>>
  /\ UNCHANGED <<walkVars, runVars, cloudVars, stateVars, queue, stopVars, resultVars>>

-----------------------------------------------------------------------------
(***************************************************************************)
(* Apply is entered with a plan without errors and the graph built from it *)
(* (anything else is refused before); the walk refuses a cyclic graph, and *)
(* the first Ready fills the queue.                                        *)
(***************************************************************************)
LiveAtStart(inp) ==
  LET recorded == {a \in DOMAIN inp.st : ~Gone(inp, a)}
      current == {inp.st[a].obj : a \in recorded}
      left_over == UNION {LeftBehind(inp.st[a]) : a \in DOMAIN inp.st}
  IN [o \in current \cup left_over |->
        IF o \in current THEN ActualAttrs(inp, o[1]) ELSE NoAttrs]

ExecInit ==
  /\ input \in Inputs
  /\ PlanErrors(input) = {}
  /\ plan = Compute(input)
  /\ OneOperationPerAddress(plan)
  /\ nodes = ExecNodes(plan)
  /\ edges = ExecEdges(plan)
  /\ ~HasCycle(nodes, edges)
  /\ remaining = [n \in nodes |-> Cardinality(Preds(n))]
  /\ status = [n \in nodes |-> IF Preds(n) = {} THEN "dispatched" ELSE "unstarted"]
  /\ left = Cardinality(nodes)
  /\ queue = InOrder({n \in nodes : Preds(n) = {}})
  /\ cloud = LiveAtStart(input)
  /\ made = [a \in Addr |-> 0]
  /\ mem = input.st /\ disk = input.st
  /\ worker = <<>>
  /\ owner = "top"
  /\ cancelled = FALSE /\ stopping = FALSE /\ persistFailed = FALSE
  /\ applied = <<>> /\ failed = {} /\ skipped = {} /\ released = {}

ExecNext ==
  \/ Top
  \/ Schedule
  \/ \E n \in DOMAIN worker : Execute(n) \/ Receive(n)
  \/ Cancel
  \/ Crash

ExecSpec == ExecInit /\ [][ExecNext]_execVars

(***************************************************************************)
(* The owner's loop runs on and every worker sends exactly one result      *)
(* (apply.go:221-227); neither is owed anything else.                      *)
(***************************************************************************)
ExecFairSpec ==
  /\ ExecSpec
  /\ WF_execVars(Top \/ Schedule)
  /\ WF_execVars(\E n \in DOMAIN worker : Execute(n))
  /\ WF_execVars(\E n \in DOMAIN worker : Receive(n))

-----------------------------------------------------------------------------
(***************************************************************************)
(* apply.go:69-80, 568-583.  No more calls run at once than --parallelism, *)
(* nor than a provider's ceiling allows against it.                        *)
(***************************************************************************)
ConcurrencyBounded ==
  /\ Cardinality(InFlight) <= Parallelism
  /\ \A p \in DOMAIN Ceiling : RunningAt(InFlight, p) <= Ceiling[p]

(***************************************************************************)
(* apply.go:62-91, 255-261.  Stopping is for good: once a pass has seen    *)
(* the interrupt, or a success could not be recorded, nothing is launched  *)
(* any more, not even when a later write succeeds.                         *)
(***************************************************************************)
NoLaunchOnceStopped ==
  [][/\ stopping \/ persistFailed => InFlight' \subseteq InFlight
     /\ stopping => stopping']_execVars

-----------------------------------------------------------------------------
Names(st) ==
  UNION {{st[a].obj} \cup LeftBehind(st[a]) : a \in DOMAIN st}

\* Objects a worker has created and the owner has not recorded yet.
InHand == {worker[n].record.obj : n \in {m \in InFlight : worker[m].at = "ok"}}

\* Objects created by a call that reported success without a state; the
\* run reports those addresses as failed and stops (apply.go:294-307).
Unreported ==
  {o \in DOMAIN cloud : \E n \in nodes :
     /\ n.addr = o[1] /\ NeedsDesired(n)
     /\ n \in failed \/ (n \in InFlight /\ worker[n].at = "no_state")}

(***************************************************************************)
(* docs/configuration.md:325-335 and apply.go:272-276.  No object that     *)
(* exists is lost: state names it, or a worker is about to have it named,  *)
(* or a forget left it running on purpose.                                 *)
(***************************************************************************)
EveryObjectIsNamed ==
  owner # "dead" =>
    DOMAIN cloud \subseteq Names(mem) \cup InHand \cup released \cup Unreported

(***************************************************************************)
(* docs/configuration.md:325-335, "If the old object cannot be deleted,    *)
(* the run reports it and state keeps a record of it": when a run is over  *)
(* every object that exists is named, or was let go on purpose.            *)
(***************************************************************************)
NothingLeaks ==
  owner = "ended" => DOMAIN cloud \subseteq Names(mem) \cup released \cup Unreported

(***************************************************************************)
(* apply.go:249-251.  State names nothing that was deleted, but for a      *)
(* deletion the owner has not recorded yet.                                *)
(***************************************************************************)
BeingDeleted ==
  {o \in Names(mem) : \E n \in InFlight :
     worker[n].at = "ok" /\ n.addr = o[1] /\ n.phase = "destroy" /\ n.kind # "forget"}

GoneBefore == {input.st[a].obj : a \in {b \in DOMAIN input.st : Gone(input, b)}}

RecordsAreReal ==
  owner # "dead" => Names(mem) \subseteq DOMAIN cloud \cup BeingDeleted \cup GoneBefore

(***************************************************************************)
(* State and the providers agree both ways: what exists is named, and what *)
(* is named exists, at every point of every run but a crash's.             *)
(***************************************************************************)
StateNamesWhatExists == EveryObjectIsNamed /\ RecordsAreReal

(***************************************************************************)
(* apply.go:255-261.  The state on disk can fall behind what the calls     *)
(* did by at most Parallelism operations, at every instant - which is also *)
(* what a crash at that instant loses.                                     *)
(***************************************************************************)
ObjectsOf(a, S) == {o \in S : o[1] = a}

DiskLag ==
  Cardinality({a \in Addr :
    ObjectsOf(a, DOMAIN cloud \ released) # ObjectsOf(a, Names(disk) \ GoneBefore)})
  <= Parallelism

(***************************************************************************)
(* The limits a run promises: how many calls are out, for each provider,   *)
(* and how far the state on disk is behind them.                           *)
(***************************************************************************)
WithinLimits == ConcurrencyBounded /\ DiskLag

-----------------------------------------------------------------------------
\* What an applied address should be by its configuration.
Matches(a) ==
  LET rc == input.cfg[a]
      attrs == cloud[mem[a].obj]
  IN /\ attrs.mut = rc.mut /\ attrs.imm = rc.imm
     /\ DOMAIN attrs.ref = rc.refs
     /\ \A b \in rc.refs : b \in DOMAIN mem /\ attrs.ref[b] = mem[b].obj

(***************************************************************************)
(* isolation.go:154-165, resolve.go:33-55.  What the run reports as        *)
(* applied is what configuration asks for, with every reference pointing   *)
(* at the object that is current - whatever ran beside it.                 *)
(***************************************************************************)
AppliedMatchesConfig ==
  owner = "ended" =>
    \A a \in Reported : ~applied[a] => mem[a].obj \in DOMAIN cloud /\ Matches(a)

(***************************************************************************)
(* isolation.go:109-200.  Every operation of a run that was not stopped is *)
(* accounted for: what succeeded is reported as applied unless the rest of *)
(* its replacement failed, what did not is failed, or skipped because of a *)
(* failure upstream; and no address is both applied and failed.            *)
(***************************************************************************)
FailedAt == {n.addr : n \in failed}

Accounted(n) ==
  IF n \in failed \cup skipped THEN status[n] = "skipped"
  ELSE status[n] = "done" /\ n.addr \in Reported \cup FailedAt

EveryOperationAccounted ==
  owner = "ended" =>
    /\ failed \cap skipped = {}
    /\ FailedAt \cap Reported = {}
    /\ ~cancelled /\ ~persistFailed => \A n \in nodes : Accounted(n)

(***************************************************************************)
(* After a run that applied everything, planning again finds nothing to do *)
(* (planner.go:280-332: every reason for a change has been written down).  *)
(* What the refresh before this run read is read again; of the rest, what  *)
(* state says is as good as what the next refresh finds.                   *)
(***************************************************************************)
RefreshedAgain(S) ==
  [a \in S |-> [result |-> "found", attrs |-> cloud[mem[a].obj]]]

SucceededMeansConverged ==
  owner = "ended" /\ left = 0 /\ failed = {} =>
    \A S \in SUBSET DOMAIN mem : DOMAIN mem \cap DOMAIN input.obs \subseteq S =>
      LET again == [input EXCEPT !.st = mem, !.obs = RefreshedAgain(S)]
      IN /\ PlanErrors(again) = {}
         /\ \A op \in Compute(again) : op.kind = "noop"

(***************************************************************************)
(* The report of a run is true: what it calls applied is as configured,    *)
(* and when it calls everything applied nothing is left to do.             *)
(***************************************************************************)
ReportIsTrue == AppliedMatchesConfig /\ SucceededMeansConverged

(***************************************************************************)
(* What a run can be asked not to strand anybody from: every object refers *)
(* to objects that are current, by a dependency that is recorded, and what *)
(* is recorded to depend on something the plan deletes is dealt with by    *)
(* the same plan: destroyed with it, or (a replacement) still configured   *)
(* to depend on it.                                                        *)
(***************************************************************************)
RefersWithin(inp) ==
  \A a \in DOMAIN inp.st : ~Gone(inp, a) =>
    LET ref == ActualAttrs(inp, a).ref
    IN \A b \in DOMAIN ref :
         b \in DOMAIN inp.st /\ b \in inp.st[a].deps /\ ref[b] = inp.st[b].obj

DependentsKept(inp) ==
  \A op \in Compute(inp) : \A d \in {b \in DOMAIN inp.st : op.addr \in inp.st[b].deps} :
    /\ op.kind = "destroy" => d \notin DOMAIN inp.cfg
    /\ op.kind = "replace" => d \in DOMAIN inp.cfg /\ op.addr \in inp.cfg[d].deps

StartsWhole(inp) == RefersWithin(inp) /\ DependentsKept(inp)

(***************************************************************************)
(* execution.go:72-76, docs/configuration.md:310-313.  A deletion strands  *)
(* nobody: no managed object is left referring to an object that is gone,  *)
(* unless its replacement destroys first or it was gone before the run.    *)
(***************************************************************************)
MayLeaveGap(a) == \E op \in plan : op.addr = a /\ op.kind = "replace" /\ ~op.cbd

StrandsNobody ==
  \A o \in DOMAIN cloud \ released : \A b \in DOMAIN cloud[o].ref :
    LET target == cloud[o].ref[b] IN
    \/ target \in DOMAIN cloud
    \/ target \in GoneBefore
    \/ MayLeaveGap(b)

(***************************************************************************)
(* docs/configuration.md:291-304.  What a guard keeps outlives the run,    *)
(* whatever fails, is interrupted or dies in it, and whatever else is      *)
(* cleaned up at its address: of a resource that left the configuration,   *)
(* the environment's guard and the two recorded with it; of one that is    *)
(* still there, prevent_replace (prevent_destroy does not keep it from     *)
(* being replaced).  State, in memory and stored, goes on naming it unless *)
(* retain let it go.                                                       *)
(***************************************************************************)
Guarded(inp, a) ==
  IF a \in DOMAIN inp.cfg THEN inp.cfg[a].guards.prevent_replace
  ELSE inp.protect \/ inp.st[a].guards.prevent_destroy \/ inp.st[a].guards.retain

\* A record of the same object, or none of one that retain lets go of.
StillNames(st, a) ==
  IF a \in DOMAIN st THEN st[a].obj = input.st[a].obj
  ELSE a \notin DOMAIN input.cfg /\ input.st[a].guards.retain

GuardedAreKept ==
  \A a \in DOMAIN input.st : ~Gone(input, a) /\ Guarded(input, a) =>
    input.st[a].obj \in DOMAIN cloud /\ StillNames(mem, a) /\ StillNames(disk, a)

(***************************************************************************)
(* apply.go:99-109.  The run ends: no order of completions, failures and   *)
(* stops leaves the owner waiting for ever with the lock held.             *)
(***************************************************************************)
RunEnds == <>(owner \in {"ended", "dead"})
=============================================================================
