# Infrena in TLA+

Infrena is a command-line tool that makes real infrastructure match a YAML
configuration: it compiles the configuration, compares it with recorded state
and with what providers report, shows a plan, and applies it — many provider
calls at a time, under a lock, writing state after every one of them. This
directory specifies the parts of it whose correctness depends on order,
concurrency and failure, checks them with TLC and proves the parts the TLA+
proof system can reach.

Paths below are relative to the repository (`src/`).

## 1. The system

One invocation is one process. It holds at most one environment's lock; other
invocations, on the same or another machine, share with it the state backend,
the providers' objects, and on one machine the configuration, the module cache
and the installed plugins.

| Component | State it keeps | Operations | What makes it correct |
|---|---|---|---|
| graph (`internal/graph`) | nodes, edges; a walk: remaining predecessors, status, count left | `AddNode`, `AddEdge`, `Cycle`, `Layers`; `Ready`, `Done`, `Skip`, `Remaining` | a cycle is found iff there is one; a node is handed out only after its predecessors and exactly once; a failure retires everything downstream, once |
| planner (`internal/planner`) | none: a function of configuration, state, observations | `Compute`, `operationFor`, `removalOperation`, diff, dependents | known references survive the plan; dependents of a new object take part; the plan can be executed |
| execution graph (`planner/execution.go`) | none | `BuildExecution` | one node per phase; teardown in reverse, build-up forwards, no cycle |
| executor (`internal/executor`) | the walk, the queue, workers in flight, state in memory, the tracker of results | `Apply`: launch, receive, record, isolate failures, stop | limits respected; every object named; records are real; what a guard keeps is kept; what is reported happened; the run ends |
| retry (`internal/retry`) | the attempts of one call | `Attempt` | only repeats what may be repeated |
| refresh (`internal/refresh`, `cli/refresh.go`) | observations, two levels of slots | `Refresh`, `applyObservations` | every resource observed; an unreadable resource is never taken for a missing one |
| state (`internal/state`) | a state file and a lock file per environment | `Lock`, `Unlock`, `ForceUnlock`, `Inspect`, `Get`, `Put`, `List` | one writer; no lost write; the serial counts writes |
| commands (`internal/cli`) | the lock held, the plan shown, the signal handler | plan, apply (also of a saved plan), destroy, refresh, import, state rm/unlock/migrate | what is executed is what was approved; nothing alive drops out of state; the lock is given back |
| backend host (`internal/backendhost`), SDK (`pkg/backendsdk`) | one connection, broken or not | calls of the backend interface over a pipe | an answer answers its question; a broken connection stays broken |
| plugin host (`internal/pluginhost`), SDK (`pkg/pluginsdk`) | pending calls by id | concurrent provider calls over a pipe | every call returns: with its own answer, or with the plugin's end |
| plugin installation (`internal/plugins`, `cli/plugins_*.go`) | search cache, trusted sources, lock file, binaries | search, choose, trust, fetch, record; check at launch | what runs was approved; the lock says what was installed |
| module sources (`internal/modules/source`) | module cache, pins | resolve, fetch, publish, record | a pin reads one tree, whole; a recorded pin does not move |
| modules (`internal/modules`) | none | expand, bind outputs, attach edges | whoever reads through a module waits for what it read |
| expressions (`internal/expressions`) | none | evaluate now, or leave a residual for later | later equals now; secrets stay classified |
| variables, environments (`internal/variables`, `environments`) | none | resolve the ladder and the chain | the most specific setting wins |
| providers and registry (`internal/providers`, `registry`) | the table of instances | build it from configuration, modules found late, state | a recorded resource is reached in the account it was made in |
| compiler, configuration language (`internal/compiler`, `config`) | none | decode, stage, bind, validate | no dependency cycle compiles; stages see what earlier ones decided |
| the rest (discovery, generator, vault, output, `pkg/*`) | none of its own | | |

Interactions, in the order an `apply` meets them: the compiler fetches and
expands **modules**, resolves **variables**, builds provider **instances** and
yields resources whose references are edges and whose unknown parts are
**expressions** still to be evaluated; `refresh` reads every recorded resource
through **plugins**; `planner.Compute` combines both with the state; the command
shows the plan and asks; it takes the **lock**, reads state and refreshes and
plans again; `BuildExecution` turns the plan into a **graph**; the **executor**'s
one owner goroutine walks it, starts worker goroutines that call providers, and
is the only one to touch state, which it writes through the backend's `Put`
after every success; an interrupt cancels the context, a second one kills the
process; the lock is released on every path but that.

What is hard here: completions in any order, failures in the middle of a
replacement, results computed from a snapshot that others have overtaken, two
edges at odds (recorded and configured dependencies), a limit that holds work
back, a state write that fails after the object was made, check-then-act on
lock files and caches, plans and approvals that describe a state that has moved,
answers of child processes that are late, lost or doubled, values that are not
known yet, and one thing built three ways. `PROJECT.json` lists each of these
hazards at its line with the properties that cover it.

## 2. Modules

```
 DepGraph ── GraphSearch             graph.go: the search and the layering
    │  └──── Walk ──────────┐        walk.go             (implements Schedule)
 Planner ─ ExecutionGraph ──┴─ Executor                  internal/executor
    │            └──────────── Planning                  cli: computePlan
 StateLock                           state/, interrupt.go (implements Ledger)
 Refresh                             internal/refresh
 Commands, Migration                 internal/cli: commands side by side
 PluginClient, BackendClient         pluginhost, retry, backendhost, the SDKs
 ModuleCache, PluginInstall          modules/source, plugins
 Expressions, Expansion, Scopes, Instances
                                     expressions, modules, compiler, variables,
                                     environments, providers, registry
 ExecutorProofs (Walk, Executor) ── ExecutorStateProofs  theorems
 PlanningProofs, BasicsProofs (GraphSearch, Refresh, StateLock),
 CommandsProofs (Commands, Migration), SupplyProofs (ModuleCache, PluginInstall),
 HostsProofs (BackendClient, PluginClient), ConfigurationProofs (Scopes, Instances)
 MCBasics   = Walk + GraphSearch + Refresh + StateLock
 MCPlanning, MCExecutor{,Two,Three} with MCInputs
 MCCommands = Commands + Migration          MCHosts = PluginClient + BackendClient
 MCSupply   = ModuleCache + PluginInstall
 MCConfiguration = Expressions + Expansion + Scopes + Instances
```

A module "MC..." that adds several components makes each behaviour one of them
(the variable `part`): they share no state, and one run then asks about all.

**DepGraph, GraphSearch** (`internal/graph/graph.go`). `DepGraph!HasCycle` is the
reference definition used everywhere a graph is refused for a cycle: a nonempty
set in which everybody has a predecessor. `GraphSearch` is what the code does:
the recursion of `Cycle` with its three marks as an explicit stack of frames,
one successor per step, then `Layers`' peeling by in-degree.

**Walk** (`walk.go`). `nodes, edges, remaining, status, left` are the fields of
`Walk`; `Ready`, `Done(id)`, `Skip(id)` its methods; what `Done` returns is
`NewlyReady`, what `Skip` returns `SkippedWith`. `Skip`'s descent stops at nodes
skipped before: `Visited` is the least set closed under that rule, not plain
reachability. Calls on a node that is not dispatched have no effect in the code
and are not steps. **Schedule** is the promise without bookkeeping.

**Planner** (`planner.go`, `diff.go`). Pure operators. An address is a number in
canonical order; an object is `<<address, generation>>`, standing for a
provider ID. Attributes are abstracted to the three kinds the decisions tell
apart: one that changes in place, one that forces a new object, one reference
per resource referred to, whose value is an object or "known after apply".
`Decide` is `resolutionOrder`: a recursive function that leaves each resource's
ID in scope for its dependents. `Compute` is the set of operations; a refused
address contributes none and makes the plan inapplicable (`PlanErrors`).

**ExecutionGraph** (`execution.go`). `ExecNodes` and `ExecEdges` are
`BuildExecution`; `LastAt` is the index by address the callers build
(`cli/apply.go`, `executor/apply.go`), in which the cleanup of a left-over
object hides another operation at its address — the source of two findings.

**Planning** (`cli/plan.go`, `computePlan`). The planner in motion: the user
writes and deletes blocks (only what compiles), refreshes report drift, loss or
errors, and every time a plan is computed. The user's edits are external.

**Executor** (`internal/executor`). Composes the three above. The owner
goroutine is `owner` (`top`, `pass`, `receive`, `ended`, or `dead`): `Top` is
the loop's condition and the reading of `ctx.Err()` and `persistFailed`,
`Schedule` the launching pass over the queue, `Receive(n)` one result with
everything done about it: `record`, `Put`, the tracker, `Done` or `Skip`, the
append to the queue. A worker is an entry of `worker`: what it holds is the
snapshot of state taken at its launch, `Execute(n)` is its call up to the
result it sends. `cloud` is what exists; `mem` and `disk` the state in memory
and as last written. `Cancel` and `Crash` may come at any point. Provider calls
fail, or report success without a state (`no_state`); writes fail.

**StateLock** (`state/lock.go`, `state/local.go`, `cli/interrupt.go`). One
environment, at the granularity the file system makes atomic: linking the lock
file, reading it, removing it, renaming the state file. So `Unlock` is two
steps (`UnlockCheck`, `UnlockRemove`), `state unlock` is two (`Inspect`,
`ForceUnlock`), and `Put` is the check with the stamping of the serial, then
the rename or the failure that restores the serial. **Ledger** is the promise:
one owner at a time, one history of writes.

**Refresh** (`internal/refresh/refresh.go`). The owner's loop takes a global
slot and starts a worker for the next resource (`Dispatch`); the worker takes a
slot of its provider (`TakeRoom`), reads with its retries (`ReadOne`,
`TryAgain`), gives both back. Objects disappear and the context is cancelled
meanwhile; an unregistered provider is an observation as well.

**Commands** (`internal/cli`). Sessions — apply, destroy, refresh, import, state
rm — side by side on two environments. Each goes through load, preview,
confirmation, lock, replan, perform, write, unlock at the points where the code
re-reads what it shares: the configuration once (`Load`), the state before and
again inside the lock. `import` also writes generated configuration before and
the state after (`WriteGenerated`, `Adopt`, `Write`). Operations are abstracted
to create, destroy and forget of an object under a name; what is in them is
Planner's and Executor's matter.

**Migration** (`cli/state_migrate.go`, `cli/context.go`). Two backends ("ends"),
each with a state and a lock per environment. A migrator lists the source, takes
the locks one by one (`TakeProjectLock`; the first that is held makes it give
back all of them), lists *again* (`ListAgain`: `compareEnds` does not know what
was locked), compares, copies and reads back. Ordinary commands first pass the
guard (`LookAtDestination`, then `LookAtSource`, without a lock), later take one
lock and do their work; those of a stale checkout know only the source.
`mishap` is a history variable: it records what the guard does not claim to
cover.

**PluginClient** (`internal/pluginhost`, `internal/retry`, `pkg/pluginsdk`).
`host` loads (find, launch, handshake, schemas, configure) and closes; each
worker's `call` registers under a fresh id, writes, waits for its answer, its
context or the end of the client, classifies and perhaps tries again; `reader`
is `serve`, which hands answers out by id, fails everything on a line that makes
no sense, and then drains. The plugin is the SDK's loop with its requests in
flight (`plug`), a bounded output pipe, and an end at the end of its input. What
a provider does with a request is external: `effects` counts how often it was
carried out. Children may die, repeat an answer or speak nonsense.

**BackendClient** (`internal/backendhost`, `pkg/backendsdk`). Commands with a
child each, one question at a time, over a store they share, which is external
and keeps `pkg/backend`'s contract. A call cut short leaves an answer in the
pipe; `EndConnection` (`client.fail`) is what keeps it from being read as the
next one's.

**ModuleCache** (`internal/modules/source`, `compiler/compile.go`). Commands
that compile one configuration over one cache directory: look, take the lock
file, look again, fetch aside, remove entry by entry, rename into place, release;
read the files without a lock; compare with and write `modules.lock`. A
checkout is a set of entries, so that half of one can be seen. Tags move and
processes die.

**PluginInstall** (`cli/plugins_install.go`, `internal/plugins`, and the loader's
check). Shells that install by name or what the project declares: search over
trusted sources and the one the project names, with a cache that may be old;
choice of role and candidate; approval; placement; sum of what is on disk;
record; later a launch that finds a binary, checks the lock, and executes it.
Releases are published, binaries put in place by hand, lock files pulled.

**Expressions** (`internal/expressions`, `pkg/value`, and their callers in
compiler, planner and executor). One attribute through three evaluations. An
unknown carries the expression still to be evaluated; `Residual` is what is
folded into it. Text is a sequence of atoms, so that secrets can be followed.

**Expansion** (`internal/modules/expand.go` ff., `compiler/bind.go`,
`validate.go`). A project of levels, calls, `for_each` and skipped blocks is
expanded into instances and the edges between them; an expression is the set of
names it reads.

**Scopes** (`internal/environments`, `internal/variables`, the compiler's
stages). The chain of environments and the ladder of sources, climbed for the
project and again for each resources directory; a value is who supplied it and
whether it has its type.

**Instances** (`internal/providers`, `internal/registry`, `cli/context.go`).
A project's `providers:` entries and resources, an apply that records them, an
edit of the files, and a second command — apply, destroy, refresh, or the
teardown of an environment no longer declared — each of which builds the table
of provider instances in its own way before it calls anybody.

Names kept from the source: the modules use the Go names where TLA+ allows.
Operators introduced with "Mutant:" are faulty variants used to confirm that the
properties can fail; nothing else refers to them.

## 3. What the runs check

| Run | Question | Bounds |
|---|---|---|
| `basics` | is a cycle found iff there is one, are layers tight, is every node started when its predecessors are done and never else, whatever fails; is everything observed, whatever is slow, gone or cancelled; one writer, one history, saved plans on their premise; and does the refresh end and the lock come back? | all graphs on 4 nodes with one possible self-edge, all 543 acyclic ones to walk (two failures above a shared descendant, diamonds, a descent cut short); 4 resources — three of two providers with one slot each, one without a provider — under 2 global slots and 2 attempts, so that one provider can hold every slot; 3 processes of which 2 may die, one person unlocking, 2 writes each, serial at most 3, one saved plan |
| `planning` | well-formed plans, references that survive, dependents that follow, plans that execute | 3 resources, every dependency and change their blocks may have, five starts; the middle one is the one whose guards may refuse the plan, and the one a refresh sees drifted, gone or not at all |
| `executor_two` | do state and the providers agree both ways, is the report true, does what a guard keeps outlive the run, is stopping for good? | every plan on 2 resources, 2 workers, all faults, interrupt and crash anywhere; plans under the environment's guard, `prevent_replace` in the blocks, `prevent_destroy` or `retain` in the record, with and without a left-over object to clean up beside the guarded one |
| `executor_three` | limits, lag of the disk, every operation accounted for, nothing stranded; the run ends | 3 resources on 2 providers with ceilings 1 and 2 under `--parallelism` 2, so that each limit binds alone; provider errors, failed writes, an interrupt |
| `commands` | does nothing alive leave state, is what is recorded declared; is a migration honest, does it overwrite nothing, is nothing made twice? | 2 sessions, 10 requests (imports by sweep, by one selector, by two of which one is unknown to discovery, by one given twice, with `--as` for one resource and, refused, for many), 2 environments of which one is protected and supervised, 4 objects of which two look alike, three histories, 2 crashes or deletions from outside; one migrator that may fail, lose a write, die and run again between 2 environments, beside a client of the new checkout and one of the old |
| `hosts` | is what is asked done once and answered to whoever asked; is there one holder and one state per serial behind a backend plugin; does every command end? | 2 calls in flight (or one of each kind), 2 attempts, an output pipe of one line, six kinds of binary, one death, repetition or stray line; 2 commands, one with 2 writes, one mishap, one kill or interrupt |
| `supply` | is a commit read whole, does a recorded pin hold, does a compilation end; does the lock vouch, does only what was approved run? | 2 commands, a tag and a commit, 2 files, one moved tag, one kill; 2 shells, 3 repositories of two owners, one publishing twice, one not usable here, one project source, one stray binary or pulled lock file |
| `configuration` | does evaluating late equal evaluating once; do secrets stay classified; is what is read waited for; does the most specific setting win; are recorded resources reached where they are, accepted ones served? | the sets in `MCConfiguration`: expressions of every operator over known, unknown and secret parts, nested to depth two; projects of up to three declarations with a library of modules one level deep and nested ones; chains of three environments and every ladder of six sources; up to two provider entries, up to two resources, three plugins of which two can be loaded |

Inputs of the executor are those the planner can produce: `MCInputs` generates
configurations, states and observations and the initial states are planned
from them. A configuration the compiler would refuse (a reference to itself, to
nothing, or in a circle) is no input (`InputsAssumption`). An observation is
nothing, a resource gone, or one drifted, also to the very value the edited
configuration asks for, so that there is nothing to change and something to
record. Two restrictions separate the passing runs from the findings, each
a named predicate: `StartsWhole` in `Executor` (every object refers to current
objects it is recorded to depend on, and no dependent drops its reference to
something the same plan deletes) and `CleanupAlone` in `MCExecutor` (an address
with a left-over object has no other operation). In the same way `Expressions`
and `Expansion` name the shapes their properties except (`AsksEarly`,
`HandsOver`, `Stranded`, `FoldsOpenMap`, `ReadsPastEdges` at any level of the
project, and `lost` in `DependsOnHonoured`): each is a place where the code does something else than
its comments say, listed in section 5, and outside of them the properties hold.

Several properties are conjunctions of named parts that are one promise:
`GraphAnswersAreRight` (cycle, layers), `StateNamesWhatExists` (nothing that
exists is unnamed, nothing named is gone), `ReportIsTrue`, `WithinLimits`,
`ReplacementsPropagate`, `MigrationIsHonest`, `RemoteStateIsSound`,
`CommandsEnd`.

Bounds: two resources give every pair of operations and every relation between
them; three give a resource in the middle. One object left over per address is
all an executor run can leave. `--parallelism` 2 is the least at which
snapshots overlap. Two sessions are what a race needs; the third party is the
person who edits, unlocks or deletes. One fault of a child process is enough to
separate every pair of steps of host and child; retries then go through a
second attempt. `MaxSerial`, `MaxSaved` and the budgets of `supply` bound the
length of histories, not their interleaving.

**Fairness.** The executor's liveness assumes that the owner goroutine runs and
that every worker sends its one result (`apply.go:221-227`: it always does;
provider calls have deadlines and a cancelled context ends retries). It does not
assume which result comes first. The lock's liveness assumes only that a
started command keeps executing; nobody is obliged to start, unlock or crash.
Refresh: the owner and each worker take their next step; a read returns. Hosts:
the host's goroutines run, and an SDK's process reads its input, answers what
it accepted and exits at the end of its input — what the SDK's loop does; a
plugin that hangs in a provider's API for ever is outside of it. Module cache: a
command keeps executing; nobody is obliged to release a lock left by a dead one,
which is why the deadline of `lock` is what `CompileEnds` rests on.

Deadlock is not an error in the runs in which the system may stop: a walk
drained, a search over, a run ended, a configuration resolved. Planning never
stops and is checked for deadlock.

## 4. What is proved

Every theorem is about the specification a run checks, for all values of its
constants: any number of addresses, providers, workers, commands, processes,
attempts and faults. What they assume of the constants are the `ASSUME`s of the
modules, which the runs evaluate on their instances. Those are well-formedness,
with two to know of: `Executor!InputsAssumption` says that recorded objects are
their address's own and that the first object a run makes has an ID none had
(a provider's contract), and `Planning!StartsAssumption` that neither
configuration nor recorded state starts with a dependency cycle; the compiler
refuses the first, the second can fail — see section 6.

* **ExecutorProofs, the walk.** `WalkInvariant`: the inductive invariant — types, counters count
  (`RemainingCountsPreds`, `LeftCountsUnresolved`), handed-out nodes have done
  predecessors, skipping is closed downstream, the graph is acyclic. From it
  `WalkSafety` (`DispatchedAfterPreds`), `WalkNeverStuck` (a least unresolved
  node exists in an acyclic graph; its predecessors are done, so it is ready or
  out), `WalkAdvances`, and `WalkRefinesSchedule`, which is the property
  `ImplementsSchedule` of `basics`. The last is where the closure downstream is
  needed: a descent cut short at skipped nodes reaches all the same what plain
  reachability reaches, because what is below those was skipped before.
* **BasicsProofs.** `GraphAnswersAlwaysRight`: the depth-first search reports a
  cycle iff there is one, and layers are as tight as they can be. Invariant: the
  stack is a path, visited nodes are those on it, what a finished node leads to
  is finished, and the finished part is acyclic (`SearchInv`); every layer comes
  right after a predecessor, and what is left waits for the last one
  (`LayerInv`). `PeelingNeverStuck` follows. `EverythingObserved` and
  `NoSlotIsLost` for refresh: workers and slots are counted against each other
  on every path out of a read (`SlotInv`).
* **PlanningProofs.** `PlansWellFormed`, and `UnflaggedPlansExecute`: an
  applicable plan without `create_before_destroy` has an acyclic execution
  graph. The argument: all edges go from destroys to destroys, destroys to
  creates, or creates to creates (`UnflaggedEdges`); a cycle would be among
  creates alone or destroys alone; the first follow configured edges and the
  second recorded ones, and each of those is acyclic.
  `ReplacementsAlwaysPropagate`: the recursion over references has a solution
  because the configured edges are acyclic (`ScopeExists`), every reference
  planned as known is the ID of something the plan keeps, and what is not known
  makes its dependents take part.
* **ExecutorProofs, the loop.** `LoopInvariant`: the nodes handed out are those in the queue
  and those with a worker, each once, and the walk's own invariant holds
  (`LoopInv`). From it `ExecutorDrivesTheWalk`: every step of a run is a step of
  the walk by `Done` or `Skip` or leaves it alone, so that all theorems of the walk are
  true inside the executor, the refinement of `Schedule` included.
  `StoppingIsForGood`, `LimitsAreKept` (a pass launches at positions each of
  which was admitted beside what the pass launched before it; induction over
  the queue), and `OperationsAreAccounted`.
* **ExecutorStateProofs.** `StateAgreesWithProviders`: state names what exists and
  what it names exists. The invariant `AgreeInv` says, for every address, what
  memory holds, what was made, and what the providers hold, each as a function
  of the statuses of that address's nodes and of where its worker stands; and
  that a snapshot, however old, agrees with memory at its own address. That is
  why results may be applied in any order. `RunStaysWithinLimits`: the addresses
  at which the file is behind are those with a worker, those whose entry was not
  written since a write failed, and those whose object was made without a state;
  the last two stop the run, and together they never exceed the workers there
  were (`SettledInv`).
* **ExecutorStateProofs, the report.** `ReportsAreTrue`: what a run calls applied
  is at the provider as the configuration asks, and a run that calls everything
  applied leaves nothing to do. That takes more than statuses: `AttrsInv` says
  what every object is like and what its record says of it, by which operation
  wrote it last, in particular that a worker about to write sees the new objects
  it refers to, however old its snapshot (`RefsSeen`: the order of the execution
  graph puts them before it), and that a record is stamped with the
  configuration's dependencies and guards by whatever operation its address had.
  `NothingToDo` then plans again: the configured references are acyclic, so a
  least address at which the second plan would differ has only references that
  are known and unchanged, and compares equal. What was refreshed before the
  run is refreshed again before that second plan. Otherwise the claim is false,
  and the run with observations says so: a drift to what the edited
  configuration asks for is no change, so it is not recorded, and planning from
  what state says without looking would find it.
* **ExecutorStateProofs, deletions.** `NobodyIsStranded`: in every state of a run,
  interrupted or crashed included, an object refers to objects that exist, were
  gone before, or are being replaced destroy-first. An object as it was found
  refers to what was current; if the plan deletes that, then the object is
  deleted too, or written anew, and the execution graph puts that first
  (`StrandInv`). The theorem is about plans made from `StartsWhole` inputs:
  without `DependentsKept` it fails (section 5), and deletions are ordered by
  the dependencies state records, so that what it does not record (`RefersWithin`)
  no order protects.
* **ExecutorStateProofs, guards.** `GuardedObjectsAreKept`: what a guard keeps — of
  a resource that left the configuration the environment's guard, a recorded
  `prevent_destroy` or `retain`; of one still there `prevent_replace` — outlives
  every run, and state in memory and on disk goes on naming it unless `retain` let
  it go. (`prevent_destroy` and the environment's guard do not keep a block that
  is still there from being replaced, and nothing here says so.) That the plan
  has no operation which deletes it is the smaller part (`HeldNodes`); the rest is that
  no operation beside it does so by the executor's ways of finding an object: the
  cleanup of a left-over object at the same address takes the one set aside, an
  operation mistaken for the cleanup writes the same object's record back, and a
  deletion elsewhere takes an object of its own address, whatever its snapshot
  (`KeptInv`). Crashes and cleanups beside other operations are included.
* **BasicsProofs, the environment's lock.** Under `SafeUnlocking` (only locks of dead processes are
  broken, and by one person at a time; neither can be dropped, see section 5):
  `LockSafety` (exclusion, the serial counts writes), `SavedPlanSafety`, and
  `LockRefinesLedger`. The strengthening says what an unlocker has seen
  (`SeenIsGone`: still that lock, its process still gone) and what the process
  inside knows (`MemoryIsDisk`, `PremiseStands`).
* **CommandsProofs, the commands.** `DeclaredWhenRecorded`, `NothingIsLost` and
  `ManagedUnderOneName`, for any number of sessions, environments, objects and mishaps. The invariant
  `CommandsInv` says that who is inside an environment's lock is the one the lock
  names; that what is executed next fits what is in memory, and memory is what the
  last write stored (`Due`); and that a write which is due covers what is stored
  (`Covers`): what it leaves out is gone, or is the name `state rm` was given.
  What an import is about to record was not recorded there and, with
  `--generate`, is in the files already. The histories a project starts with
  record only names that are declared or were taken out, of objects that were
  created once (`CommandsAssumption`), none under two names
  (`HistoriesAssumption`): what the commands themselves leave behind. Objects keep
  one name because what is created is new, and what is imported is neither
  recorded already nor taken up twice, whichever selector, sweep or `--as` chose
  it (`OneNameInv`) — except an object one import was asked for twice (`AskedTwice`),
  which the code may name twice (`NeverTwoNames`, section 5). `OneNameEach` is no property of a run (TLC finds no violation
  of it on `Commands.cfg`'s instance); the theorem states it.
* **CommandsProofs, the migration.** `MigrationHonest`, `CopiesOverNothing` and
  `NoSecondObject`, for any number of environments, clients and migrators.
  `HoldInv`: a migrator holds the locks it took, each once, so that no command
  changes either end of an environment it is about; and each environment it
  listed is still to be compared, to be copied, or the same at both ends
  (`Accounted`). Nothing else may write at the destination where it copies,
  which is why the copy overwrites nothing although it does not look again.
  `Single`: of every environment at most one object lives, the migrated one or
  the destination's; and once the guard lets commands through, an environment
  that is not migrated is under the lock of a migrator that copies it. That last
  part fails after a copy cut short, which is the `mishap` of the theorem and the
  divergence `NoDuplicates` of section 5.
* **SupplyProofs.** `CommitsReadWhole` and `PinsHold` for the module cache: a lock
  file belongs to the one command at work under it, or to a dead one; a checkout
  under a commit is whole or its fetcher is at it (`CacheInv`). For installation
  `LockEntriesVouch` and `OnlyApprovedRuns`: what is on disk, in hand, in the
  lock file and running is of a source consented to or was put there by hand,
  and what was summed is what was chosen (`InstallInv`).
* **HostsProofs.** `RemoteStateStaysSound`: for each command, what its child has
  read, what it has answered and what the command makes of it agree with the
  store (`Sound`); an answer in the pipe that nobody may read belongs to a
  connection that is closed. `ChangesAreMadeOnce` and `AnswersReachTheirCall`
  for plugins: an id names one call; its request is in one place — unwritten, in
  the pipe, taken, or answered — and while a call may still be made again there is
  no request of it left and nothing came of it (`Once`); the first line with an id
  that is awaited is the plugin's own answer, whatever it repeats (`Told`).

* **ConfigurationProofs, variables.** `MostSpecificWinsAlways`, for every
  configuration: environments that extend each other in any way, directories,
  variables. The recursion up the ladder of sources has a solution
  (`LadderExists`), in which a name is what the highest rung that sets it says
  (`Highest`). The walk towards the root keeps a chain of parents without
  repetition (`IsChain`), and of two members of such a chain the nearer one
  `Extends` the other, which is what makes the order of the rungs the order of
  specificity; a protection is what its nearest speaker says all along the walk
  (`GuardsInv`). `Extends` is defined by closed sets of environments, without
  recursion, so that it can be reasoned about.
* **ConfigurationProofs, provider instances.** `RecordsStayInReachAlways` and
  `AcceptedIsServedAlways`, for every project, every set of plugins that can be
  loaded, and every sequence of commands with the files edited, broken or deleted
  between any two. State records the name of an instance and not its
  configuration; the invariant `InstInv` says what a recorded name and account
  have to do with the entries (`RecordsInv`); that what the registry has built is,
  at each step of each command, what the entries say of that name, or the
  plugin's default where they say nothing (`BuiltInv`, `OnlyImplicit`); and which
  table a compile holds before and after the late stage (`TableInv`). Destroy and
  refresh build instances before they load what state needs, apply and teardown
  after it: `Paced` keeps the four orders apart. `SetupsAssumption` says only that
  a written configuration is not the mark of an unsettled one.

`OperationsAreAccounted`, `StateAgreesWithProviders`, `RunStaysWithinLimits`,
`ReportsAreTrue` and `NobodyIsStranded` are stated of plans in which the cleanup of a left-over object is the only
operation of its address (`CleanupsAlone`). They fail without it: that is the
finding `left_over_update`. Every plan made from a state without left-over
objects has the property, and so has every plan that finds them where nothing
else changes.

The parts of those theorems that no run states by themselves
(`DispatchedAfterPreds`, `NeverStuck`, `HolderIsAlone`, `SerialCountsWrites`,
`ConcurrencyBounded`) are implied, on the runs' instances, by the refinements
`ImplementsSchedule` and `ImplementsLedger` and by `WithinLimits`, which the runs
check; `SlotsAccounted` is stated only as a theorem.

Where a proof needs induction it is by a least counterexample: `WFMin` applied to
the well-founded `<` of the naturals (the first position of a queue or of a
search path) or inclusion of finite sets (the recursion over
references, an acyclic graph's least node). The library's induction rules that
take an operator as a parameter cannot be instantiated by the provers at hand.

Only model-checked:

* liveness (`RunEnds`, `RefreshEnds`, `LockIsGivenBack`, `CommandsEnd`,
  `CompileEnds`): fairness and ENABLED are out of the prover's reach;
* `Expressions` and `Expansion`, whose evaluator and expansion are RECURSIVE
  operators, which take the SMT backend away from every module that reaches
  them, and whose properties speak of expressions and of projects of any depth,
  which is induction over data.

## 5. Where the code and its own words differ

Four have a run that finds the shortest behaviour; `PROJECT.json` quotes the
lines.

| Run | What happens |
|---|---|
| `left_over_update` | an update planned beside the cleanup of a left-over object at the same address is executed from the cleanup's operation, without attributes, and reported as applied; when the two overlap it also writes the deleted object's record back, from its snapshot (the same configuration violates `RecordsAreReal`) |
| `unshown_destroy` | apply plans again inside the lock, from the configuration it loaded before it asked; what another command recorded in between (an import, say) is destroyed without having been shown |
| `refused_plugin` | the host refuses a plugin's hello and waits for the process with its input still open; a plugin that waits for requests never exits, and neither does the command |
| `broken_configuration` | destroy and refresh beside files that do not decode register the recorded instance without its configuration, and act in the account the plugin defaults to |

The others are kept as properties of the modules, which fail when a
configuration checks them. To reproduce one, take the named cfg, put the
property in the place of its properties, and change what the last column says.

| Property | What happens | cfg |
|---|---|---|
| `Executor!NothingLeaks` | a second `create_before_destroy` replacement whose older cleanup fails loses the record of the older object (`executor/apply.go:287`; docs/configuration.md:326-327) | `LeftOverUpdate.cfg` with `Inputs <- LeftOverAndReplace`, `Faults <- OnlyErrors` |
| `Executor!StrandsNobody` | a resource that drops its reference is updated or destroyed without any order towards the destruction of what it referred to (`planner/planner.go:500`; execution.go:73-74) | `LeftOverUpdate.cfg` with `Inputs <- DroppedDependentInputs` |
| `Planning!ApplicableIsExecutable` | `create_before_destroy` on one of two dependent replacements makes a cycle that only apply discovers, after approval (`planner/execution.go:236`; docs/configuration.md:307-308) | `Planning.cfg` with `Addr <- Two`, `Starts <- UnguardedStart`, `Sightings <- NoSighting` |
| `Migration!NoDuplicates` | a migration that fails after its first environment leaves the destination nonempty; the guard lets commands through, and an apply of the environment not yet copied creates its objects again (`cli/context.go:389`; docs/state-backends.md:156-157) | `Commands.cfg` |
| `Commands!ManagedOnce` | import by name does not consult the index of managed objects, so one object is managed from two environments (`cli/import.go:575-634`; its help: "naming one that is already managed is refused") | `Commands.cfg` |
| `Commands!NeverTwoNames` | a selector given twice, of an object discovery does not return, is fetched twice and named twice, and one import records one object under two addresses (`cli/import.go:543-550`, `discovery/name.go:63-81`; import.go:203: "Importing it again would leave two addresses managing one resource", which is compared with state alone) | `Commands.cfg` |
| `Commands!RenameIsFree` | `--as` is compared before the lock with what is managed then; the name may be taken by the time it is used (`cli/import.go:859-877`) | `Commands.cfg` |
| `PluginClient!InterruptSparesInFlight` | an interrupt typed at a terminal reaches the plugin's process too: calls in flight lose their answers although the host lets them finish (`cli/interrupt.go:23`) | `RefusedPlugin.cfg` with `Binaries = {"good"}`, `TerminalSignal = TRUE` |
| `ModuleCache!TagsReadWhole` | a tag that moved, or a remote that does not answer, has the next command remove the checkout another one is reading (`modules/source/cache.go:271-275`) | `Supply.cfg` |
| `PluginInstall!LockNamesItsSource` | recording compares the version alone: the same version of another publisher keeps the first one's checksums (`cli/plugins_install.go:664`) | `Supply.cfg` |
| `Expressions!FilesWaitToo` | references inside a template file are no edges; a resource may be applied before what its template names (`compiler/bind.go:536`; docs/templates.md:70-84) | `Configuration.cfg` |
| `Expressions!DeferredFinishes` | some deferred expressions cannot be taken up later: a template whose argument is unknown, and a step into an unknown variable (`expressions/eval.go:478`; docs/templates.md:128) | `Configuration.cfg` |
| `Expansion!EveryReadIsOrdered` | the shapes of `ReadsPastEdges`: a call that reads through a composite attribute, or a resource made per key, or through a module that only passes a value on (`modules/expand.go:407-415`); a call that reads its own output, which is accepted and waits on nothing (`modules/outputs.go:410-411`: "self-reference; the cycle below reports it") | `Configuration.cfg` |
| `Instances!LateIsServed` | a plugin found only inside a module is loaded late but given no instance when the implicit table is not empty; the accepted plan fails at dispatch (`providers/prepare.go:509-511`) | `Configuration.cfg` |

Found while modelling, without a property of their own:

* A resource with `for_each` whose `depends_on` names a call loses those edges
  (`compiler/bind.go:96-101`), and a call whose `depends_on` names a resource made
  per key, or skipped, adds edges to an address nobody has
  (`modules/expand.go:479`); `DependsOnHonoured` excepts both. `each` is lost
  in a directory with variables of its own (`modules/inputs.go:103-143`).
* A template's sensitive argument loses its classification when the template is
  deferred; `merge` of a map with an unknown entry is evaluated before the entry
  is known; `default` chooses when it is first asked. `HandsOver`, `FoldsOpenMap`
  and `AsksEarly` except them.
* Two installations at once lose a lock entry, and two approvals a trusted source
  (`plugins_install.go:653`, `trust.go`: read, change, write without a lock); an
  installation may record the sum of a binary another one just placed, and does
  not compare with `plugins.lock`, which `SECURITY.md:30-31` says it verifies.
* Two applies that compare with `modules.lock` before either writes it may adopt a
  tag that moved; `RecordedPinsHold` excepts them (`crossed`).
* `state rm` confirms one object and, inside the lock, checks only the address
  (`cli/state.go:238-250`).
* After `providers:` is dropped or a project changes plugins, the implicit instance
  depends on what state made the command load: new resources may be left without
  one, or a destroy be refused; constraints on a plugin used only in modules are
  refused as dead (`providers/prepare.go:175`); `discover` surveys only the
  plugins that `providers:` names.

Two more are accepted by the design and stated as hypotheses of the lock's
theorems instead: `Unlock` removes the file after a check, so a force-unlock of a
*live* run may make it remove the next run's lock; and two people who unlock the
same stale lock may remove that of a run that started in between. With
`UnlockLive` TRUE, or a second member of `Unlockers`, `basics` fails.

A replacement whose second phase is skipped because of a failure elsewhere stays
in the list of applied addresses (`isolation.go:113-129`): `EveryOperationAccounted`
speaks of the phases that ran, and does not decide what a report should say then.

## 6. Not modelled, and the plan

Left out of the modules above: `ignore_changes` and formatting of changes; the
encoding of plans, state, requests and values; events, progress and timing;
`state migrate --force`, which overwrites by request, and `--check`, which
changes nothing; version ranges, archives and HTTP; instance-wide lifecycle
defaults; the typing of variables and module inputs beyond good and bad. A
dependency cycle *among recorded resources*: each resource's dependencies are
recorded when its own operation succeeds, so a run that fails half-way through a
reversal of edges can record one, and a later destroy is refused for it. The
single runs here start without one.

The components of `MCHosts`, `MCSupply` and `MCConfiguration` are checked side by
side and not composed: a provider call of `Executor` is one step that may fail,
where `PluginClient` shows what that step is made of and that it is carried out
once.

Order of what comes next:

1. `Reconcile`: Executor in a loop — edit, run, crash, plan again — with
   convergence and the recorded cycle.
2. A refinement of `Executor`'s provider call by `PluginClient`'s, and of
   `Ledger` by `BackendClient`.

Not planned: YAML decoding, the expression parser, rendering, text generation,
the vault's encryption, downloads and the wiring of commands are sequential
conversions or I/O, to which a model adds nothing a unit test does not already
show.
