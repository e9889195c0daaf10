------------------------------ MODULE Commands ------------------------------
(***************************************************************************)
(* internal/cli: apply, destroy, refresh, import and state rm as sessions  *)
(* that run side by side over the environments of one project.  They share *)
(* the project's configuration, every environment's state and lock, and    *)
(* the provider's account.                                                 *)
(*                                                                         *)
(* An object is what a provider ID names.  A name is <<tag>>, or           *)
(* <<tag, object>> where discovery had to tell two objects apart, with a   *)
(* count behind it where that was taken too.  What an object's attributes  *)
(* are is left to Planner and Executor: here a plan creates, destroys and  *)
(* forgets.                                                                *)
(***************************************************************************)
EXTENDS Naturals, Sequences, FiniteSets, Functions

CONSTANTS
  Sessions,    \* one process each, running one command
  Envs,
  Objects,     \* provider IDs, in the order discovery sorts them
  Tag,         \* the name a provider gives an object
  InScope,     \* the objects a sweep of the account covers
  CloudOwned,  \* the objects the provider says the cloud owns
  Protected,   \* environments that declare prevent_destroy
  Supervised,  \* environments that declare require_approval
  Requests,    \* the commands sessions are asked to run
  Histories,   \* what earlier commands left: states, world and config
  Free,        \* no lock
  MaxMishaps   \* crashes and objects deleted by someone else, at most

ASSUME CommandsAssumption ==
  /\ Objects \subseteq Nat /\ InScope \cup CloudOwned \subseteq Objects
  /\ Protected \cup Supervised \subseteq Envs
  /\ Free \notin Sessions /\ MaxMishaps \in Nat
  /\ \A r \in Requests :
       /\ r.cmd \in {"apply", "destroy", "refresh", "rm", "import"} /\ r.env \in Envs
       /\ r.cmd = "import" => r.generate \in BOOLEAN
  /\ \A h \in Histories :
       /\ h.config = [names |-> h.config.names, envs |-> h.config.envs, dropped |-> h.config.dropped]
       /\ h.world \in [Objects -> {"unborn", "alive", "gone"}]
       /\ DOMAIN h.states = Envs
       /\ \A e \in Envs :
            /\ DOMAIN h.states[e] \subseteq h.config.names \cup h.config.dropped
            /\ \A n \in DOMAIN h.states[e] :
                 h.states[e][n] \in Objects /\ h.world[h.states[e][n]] # "unborn"

\* An import is given any number of selectors, and may be given one twice.
ASSUME SelectorsAssumption == \A r \in Requests : r.cmd = "import" => r.sels \in Seq(Objects)

\* What earlier commands left, they left like these do: no object under two names.
ASSUME HistoriesAssumption ==
  \A h \in Histories : \A e \in Envs : IsInjective(h.states[e])

VARIABLES
  config,      \* the names and environments declared, and the names people took out
  states,      \* what is recorded of each environment: name -> object
  lock,        \* who holds each environment
  world,       \* each object: unborn, alive or gone
  sess,        \* the sessions
  mishaps

commandVars == <<config, states, lock, world, sess, mishaps>>

\* What one name, or nothing, records; and a record with more in it.
Nothing == [n \in {} |-> 0]
Only(n, o) == [m \in {n} |-> o]
With(st, more) ==
  [n \in DOMAIN st \cup DOMAIN more |-> IF n \in DOMAIN more THEN more[n] ELSE st[n]]

NoObject == 0
Own == <<>>                    \* import without --as

Off == [pc |-> "off", req |-> [cmd |-> "none"], names |-> {}, shown |-> {},
        mem |-> Nothing, todo |-> {}, index |-> Nothing, adopt |-> Nothing]

CommandsInit ==
  /\ \E h \in Histories : config = h.config /\ states = h.states /\ world = h.world
  /\ lock = [e \in Envs |-> Free]
  /\ sess = [s \in Sessions |-> Off]
  /\ mishaps = 0

-----------------------------------------------------------------------------
Env(s) == sess[s].req.env
At(s, pc) == sess[s].pc = pc
Runs(s, cmds) == sess[s].req.cmd \in cmds
Move(s, pc) == sess' = [sess EXCEPT ![s].pc = pc]

Existing == {o \in Objects : world[o] = "alive"}
Without(st, names) == Restrict(st, DOMAIN st \ names)

\* dispositionOf: a project that declares no environments has every one.
Declared(e) == config.envs = {} \/ e \in config.envs

Op(kind, n, o) == [kind |-> kind, name |-> n, obj |-> o]

(***************************************************************************)
(* computePlan: what planner.Compute decides, reduced to what outlives it. *)
(***************************************************************************)
PlanFor(names, st) ==
  {Op("create", n, NoObject) : n \in {n \in names : n \notin DOMAIN st \/ st[n] \notin Existing}} \cup
  {Op(IF st[n] \in Existing THEN "destroy" ELSE "forget", n, st[n]) : n \in DOMAIN st \ names}

\* planner's prevent_destroy of a whole environment; a teardown has no declaration to read it from.
Forbidden(e, plan) ==
  e \in Protected /\ Declared(e) /\ \E op \in plan : op.kind = "destroy"

\* requireApprovalRefusal
Unapprovable(r) == r.auto /\ r.env \in Supervised /\ Declared(r.env)

-----------------------------------------------------------------------------
(***************************************************************************)
(* How a command gets to the environment's lock.                           *)
(***************************************************************************)
FirstStep(cmd) ==
  IF cmd \in {"apply", "destroy"} THEN "load"
  ELSE IF cmd = "rm" THEN "resolve" ELSE "approved"

StartSession(s) ==
  /\ At(s, "off")
  /\ \E r \in Requests : sess' = [sess EXCEPT ![s] = [Off EXCEPT !.req = r, !.pc = FirstStep(r.cmd)]]
  /\ UNCHANGED <<config, states, lock, world, mishaps>>

\* config.Load, backend.Get and dispositionOf: what is desired is decided here, once.
Load(s) ==
  LET orphaned == ~Declared(Env(s)) /\ DOMAIN states[Env(s)] # {}
  IN /\ At(s, "load")
     /\ IF Runs(s, {"apply"}) /\ ~Declared(Env(s)) /\ ~orphaned
        THEN Move(s, "done")
        ELSE sess' = [sess EXCEPT
               ![s].pc = "preview",
               ![s].names = IF Runs(s, {"apply"}) /\ ~orphaned THEN config.names ELSE {}]
     /\ UNCHANGED <<config, states, lock, world, mishaps>>

\* The unlocked plan that is shown; a read that fails ends the command.
Preview(s) ==
  LET plan == PlanFor(sess[s].names, states[Env(s)])
  IN /\ At(s, "preview")
     /\ \/ Move(s, "done")
        \/ /\ plan # {} /\ ~Forbidden(Env(s), plan) /\ ~Unapprovable(sess[s].req)
           /\ sess' = [sess EXCEPT ![s].pc = IF sess[s].req.auto THEN "approved" ELSE "asked",
                                   ![s].shown = plan]
     /\ UNCHANGED <<config, states, lock, world, mishaps>>

\* state rm: resolved before the lock, so that a typo locks nothing.
Resolve(s) ==
  LET n == sess[s].req.name
  IN /\ At(s, "resolve")
     /\ IF n \notin DOMAIN states[Env(s)]
        THEN Move(s, "done")
        ELSE sess' = [sess EXCEPT ![s].pc = IF sess[s].req.auto THEN "approved" ELSE "asked",
                                  ![s].mem = states[Env(s)],
                                  ![s].shown = {Op("forget", n, states[Env(s)][n])}]
     /\ UNCHANGED <<config, states, lock, world, mishaps>>

Confirm(s) ==
  /\ At(s, "asked")
  /\ Move(s, "approved") \/ Move(s, "done")
  /\ UNCHANGED <<config, states, lock, world, mishaps>>

InLock(cmd) ==
  IF cmd \in {"apply", "destroy"} THEN "replan"
  ELSE IF cmd = "refresh" THEN "observe"
  ELSE IF cmd = "import" THEN "index" ELSE "remove"

\* withLockedEnvironment: an environment somebody holds ends the command.
TakeLock(s) ==
  /\ At(s, "approved")
  /\ IF lock[Env(s)] = Free
     THEN lock' = [lock EXCEPT ![Env(s)] = s] /\ Move(s, InLock(sess[s].req.cmd))
     ELSE Move(s, "done") /\ UNCHANGED lock
  /\ UNCHANGED <<config, states, world, mishaps>>

-----------------------------------------------------------------------------
(***************************************************************************)
(* apply and destroy, inside the lock.                                     *)
(***************************************************************************)
\* Mutant: the plan that was shown is executed.
ReplanNothing(s) ==
  /\ At(s, "replan")
  /\ sess' = [sess EXCEPT ![s].pc = "execute", ![s].mem = states[Env(s)], ![s].todo = sess[s].shown]
  /\ UNCHANGED <<config, states, lock, world, mishaps>>

\* The state and the account are read again, the configuration is not.
Replan(s) ==
  LET plan == PlanFor(sess[s].names, states[Env(s)])
  IN /\ At(s, "replan")
     /\ \/ Move(s, "unlock")
        \/ /\ ~Forbidden(Env(s), plan)
           /\ sess' = [sess EXCEPT ![s].pc = IF plan = {} THEN "unlock" ELSE "execute",
                                   ![s].mem = states[Env(s)], ![s].todo = plan]
     /\ UNCHANGED <<config, states, lock, world, mishaps>>

\* An operation takes effect and is noted in memory; Write stores it before the next.
Perform(s, op) ==
  LET noted(mem) == sess' = [sess EXCEPT ![s].pc = "write", ![s].todo = sess[s].todo \ {op},
                                         ![s].mem = mem]
  IN /\ At(s, "execute") /\ op \in sess[s].todo
     /\ \/ /\ op.kind = "create"
           /\ \E o \in {o \in Objects : world[o] = "unborn"} :
                /\ world' = [world EXCEPT ![o] = "alive"]
                /\ noted(With(sess[s].mem, Only(op.name, o)))
        \/ /\ op.kind # "create"
           /\ world' = IF op.kind = "destroy" THEN [world EXCEPT ![op.obj] = "gone"] ELSE world
           /\ noted(Without(sess[s].mem, {op.name}))
     /\ UNCHANGED <<config, states, lock, mishaps>>

\* An operation fails, or the run is interrupted: what is left is not started.
StopEarly(s) ==
  /\ At(s, "execute") /\ Move(s, "unlock")
  /\ UNCHANGED <<config, states, lock, world, mishaps>>

-----------------------------------------------------------------------------
(***************************************************************************)
(* refresh: applyObservations keeps what could not be read.                *)
(***************************************************************************)
FoundGone(st, failed) == {n \in DOMAIN st : n \notin failed /\ st[n] \notin Existing}

ApplyObservations(s) ==
  LET st == states[Env(s)]
  IN /\ At(s, "observe")
     /\ \E failed \in SUBSET DOMAIN st :
          sess' = [sess EXCEPT ![s].pc = IF DOMAIN st \subseteq failed THEN "unlock" ELSE "write",
                               ![s].mem = Without(st, FoundGone(st, failed))]
     /\ UNCHANGED <<config, states, lock, world, mishaps>>

(***************************************************************************)
(* state rm: read again, and only the address is looked for.               *)
(***************************************************************************)
Remove(s) ==
  LET st == states[Env(s)]  n == sess[s].req.name
  IN /\ At(s, "remove")
     /\ IF n \in DOMAIN st
        THEN sess' = [sess EXCEPT ![s].pc = "write", ![s].mem = Without(st, {n})]
        ELSE Move(s, "unlock")
     /\ UNCHANGED <<config, states, lock, world, mishaps>>

-----------------------------------------------------------------------------
(***************************************************************************)
(* import.                                                                 *)
(***************************************************************************)
\* --as renames one resource, so it needs exactly one selector.
RenamesOther(r) == r.as # Own /\ Len(r.sels) # 1

\* managedProviderIDs: every environment's state, the others' without their locks.
Index(s) ==
  LET managers(o) == {e \in Envs : o \in Range(states[e])}
  IN /\ At(s, "index")
     /\ IF RenamesOther(sess[s].req)
        THEN Move(s, "unlock")
        ELSE sess' = [sess EXCEPT ![s].pc = "select",
               ![s].index = [o \in {o \in Objects : managers(o) # {}} |-> CHOOSE e \in managers(o) : TRUE]]
     /\ UNCHANGED <<config, states, lock, world, mishaps>>

(***************************************************************************)
(* discovery.Walk names the whole sweep, in order; Unique suffixes the     *)
(* later of two that would share a name, with the object and, if there is  *)
(* such a name already, with the first count that tells them apart.        *)
(***************************************************************************)
Unique(o, taken) ==
  LET free == {n \in 2..Cardinality(taken) + 2 : <<Tag[o], o, n>> \notin taken}
  IN IF <<Tag[o]>> \notin taken THEN <<Tag[o]>>
     ELSE IF <<Tag[o], o>> \notin taken THEN <<Tag[o], o>>
     ELSE <<Tag[o], o, CHOOSE n \in free : \A m \in free : n <= m>>
NamesOf(seen) ==
  [o \in seen |-> Unique(o, {<<Tag[p]>> : p \in {p \in seen : p < o}})]

\* withoutManaged and withoutSystemOwned
Adoptable(seen, index, sels) ==
  {o \in seen \ DOMAIN index : o \notin CloudOwned \/ o \in Range(sels)}

(***************************************************************************)
(* narrowToSelectors and fetchDirectly: what is taken, and under which     *)
(* names.  What the sweep did not return is fetched for each selector that *)
(* names it, and named like no other of this import; one that cannot be    *)
(* fetched fails all.                                                      *)
(***************************************************************************)
SelectedNames(kept, names, sels) ==
  LET f[i \in DOMAIN sels] ==
        IF sels[i] \in kept THEN names[sels[i]]
        ELSE Unique(sels[i], {names[o] : o \in kept} \cup
                             {f[j] : j \in {j \in 1..(i - 1) : sels[j] \notin kept}})
  IN f
Selected(seen, index, sels) ==
  LET kept == Adoptable(seen, index, sels)
      names == NamesOf(seen)
      name == SelectedNames(kept, names, sels)
  IN IF sels = <<>> THEN [n \in {names[o] : o \in kept} |-> CHOOSE o \in kept : names[o] = n]
     ELSE IF Range(sels) \subseteq kept \cup Existing
     THEN [n \in {name[i] : i \in DOMAIN sels} |-> sels[CHOOSE i \in DOMAIN sels : name[i] = n]]
     ELSE Nothing

\* refuseManagedName looks for the new name among the index's values, which are environments.
Renamed(adopt, r) ==
  IF r.as = Own \/ adopt = Nothing THEN adopt ELSE Only(r.as, adopt[CHOOSE n \in DOMAIN adopt : TRUE])
RefusedName(index, r) == \E o \in DOMAIN index : <<index[o]>> = r.as

\* The names recorded here, and alreadyManaged's objects.
AlreadyHere(adopt, st) ==
  \/ DOMAIN adopt \cap DOMAIN st # {}
  \/ Range(adopt) \cap Range(st) # {}

\* Mutant: state is stored before the configuration that declares it.
AfterStateFirst(pc, r) ==
  IF pc = "select" THEN "adopt" ELSE IF pc = "adopt" THEN "write"
  ELSE IF pc = "write" /\ r.cmd = "import" /\ r.generate THEN "generate" ELSE "unlock"

\* runImport: configuration first, then state.
After(pc, r) ==
  IF pc = "select" /\ r.generate THEN "generate"
  ELSE IF pc \in {"select", "generate"} THEN "adopt"
  ELSE IF pc = "adopt" THEN "write" ELSE "unlock"

(***************************************************************************)
(* selectForImport and the refusals.  A sweep that failed is a warning,    *)
(* and a filter may leave out what a selector names: either way the        *)
(* selector is asked for directly.                                         *)
(***************************************************************************)
Select(s) ==
  LET r == sess[s].req
      index == sess[s].index
  IN /\ At(s, "select")
     /\ \E seen \in {Existing \cap InScope, {}} :
          LET adopt == Renamed(Selected(seen, index, r.sels), r)
              refused == \/ Range(r.sels) \cap seen \cap DOMAIN index # {}
                         \/ RefusedName(index, r)
                         \/ AlreadyHere(adopt, states[r.env])
          IN IF refused \/ adopt = Nothing
             THEN Move(s, "unlock")
             ELSE sess' = [sess EXCEPT ![s].pc = After("select", r), ![s].adopt = adopt,
                                       ![s].mem = states[r.env]]
     /\ UNCHANGED <<config, states, lock, world, mishaps>>

\* writeGenerated, or it fails with nothing imported.  A name already declared keeps its declaration.
WriteGenerated(s) ==
  /\ At(s, "generate")
  /\ \/ Move(s, "unlock") /\ UNCHANGED config
     \/ /\ config' = [config EXCEPT !.names = @ \cup DOMAIN sess[s].adopt]
        /\ Move(s, After("generate", sess[s].req))
  /\ UNCHANGED <<states, lock, world, mishaps>>

\* Provider.Import of each; one that is gone ends the command with nothing stored.
Adopt(s) ==
  /\ At(s, "adopt")
  /\ IF Range(sess[s].adopt) \subseteq Existing
     THEN sess' = [sess EXCEPT ![s].pc = After("adopt", sess[s].req), ![s].mem = With(sess[s].mem, sess[s].adopt)]
     ELSE Move(s, "unlock")
  /\ UNCHANGED <<config, states, lock, world, mishaps>>

-----------------------------------------------------------------------------
\* Put, of all the commands; an execution goes on while operations are left.
Write(s) ==
  /\ At(s, "write")
  /\ states' = [states EXCEPT ![Env(s)] = sess[s].mem]
  /\ Move(s, IF sess[s].todo # {} THEN "execute" ELSE After("write", sess[s].req))
  /\ UNCHANGED <<config, lock, world, mishaps>>

\* releaseLock
Unlock(s) ==
  /\ At(s, "unlock")
  /\ lock' = [lock EXCEPT ![Env(s)] = Free]
  /\ Move(s, "done")
  /\ UNCHANGED <<config, states, world, mishaps>>

Crash(s) ==
  /\ mishaps < MaxMishaps /\ sess[s].pc \notin {"off", "done"}
  /\ mishaps' = mishaps + 1
  /\ Move(s, "done")
  /\ UNCHANGED <<config, states, lock, world>>

\* `infrena state unlock`, of a lock whose holder is gone.
ForceUnlock(e) ==
  /\ lock[e] # Free /\ At(lock[e], "done")
  /\ lock' = [lock EXCEPT ![e] = Free]
  /\ UNCHANGED <<config, states, world, sess, mishaps>>

\* Someone deletes an object.
Vanish(o) ==
  /\ mishaps < MaxMishaps /\ world[o] = "alive"
  /\ mishaps' = mishaps + 1
  /\ world' = [world EXCEPT ![o] = "gone"]
  /\ UNCHANGED <<config, states, lock, sess>>

\* A person takes a resource or an environment out of the configuration.
Edit ==
  /\ mishaps < MaxMishaps
  /\ mishaps' = mishaps + 1
  /\ \/ \E n \in config.names :
          config' = [config EXCEPT !.names = @ \ {n}, !.dropped = @ \cup {n}]
     \/ \E e \in config.envs : config' = [config EXCEPT !.envs = @ \ {e}]
  /\ UNCHANGED <<states, lock, world, sess>>

SessionStep(s) ==
  \/ StartSession(s) \/ Load(s) \/ Preview(s) \/ Resolve(s) \/ Confirm(s) \/ TakeLock(s)
  \/ Replan(s) \/ \E op \in sess[s].todo : Perform(s, op)
  \/ StopEarly(s) \/ ApplyObservations(s) \/ Remove(s)
  \/ Index(s) \/ Select(s) \/ WriteGenerated(s) \/ Adopt(s) \/ Write(s) \/ Unlock(s) \/ Crash(s)

CommandsNext ==
  \/ \E s \in Sessions : SessionStep(s)
  \/ \E e \in Envs : ForceUnlock(e)
  \/ \E o \in Objects : Vanish(o)
  \/ Edit

CommandsSpec == CommandsInit /\ [][CommandsNext]_commandVars

-----------------------------------------------------------------------------
(***************************************************************************)
(* An object that is recorded and goes on existing stays recorded, whoever *)
(* writes: no command loses what another one recorded, creates an object   *)
(* over one that is there, or takes silence for absence.  Only state rm    *)
(* lets go of an object, and only of the name it was given.                *)
(***************************************************************************)
RecordedObjects == UNION {Range(states[e]) : e \in Envs}

StaysRecorded ==
  [][\A e \in Envs : \A n \in DOMAIN states[e] :
       (world'[states[e][n]] = "alive" /\ states[e][n] \notin RecordedObjects')
         => \E s \in Sessions : /\ lock[e] = s /\ Runs(s, {"rm"}) /\ At(s, "write")
                                /\ sess[s].req.name = n]_commandVars

(***************************************************************************)
(* One environment never manages one object under two names, whatever is   *)
(* imported by name or by sweep, from wherever, and however often, unless  *)
(* one import was asked for the object twice.                              *)
(***************************************************************************)
AskedTwice(o) ==
  \E r \in Requests : r.cmd = "import" /\
    \E i, j \in DOMAIN r.sels : i # j /\ r.sels[i] = o /\ r.sels[j] = o

OneNameEach ==
  \A e \in Envs : \A m, n \in DOMAIN states[e] :
    states[e][m] = states[e][n] => m = n \/ AskedTwice(states[e][m])

(***************************************************************************)
(* The same of every import: alreadyManaged refuses what "would leave two  *)
(* addresses managing one resource", and compares with state alone.        *)
(***************************************************************************)
NeverTwoNames == \A e \in Envs : IsInjective(states[e])

(***************************************************************************)
(* What an environment records is declared, unless a person took it out or *)
(* chose to import without --generate: a crash between the files and the   *)
(* state never arms the next apply to delete what was just adopted.        *)
(***************************************************************************)
AdoptedByHand ==
  UNION {DOMAIN sess[s].adopt : s \in {s \in Sessions : Runs(s, {"import"}) /\ ~sess[s].req.generate}}

RecordedMeansDeclared ==
  \A e \in Envs : DOMAIN states[e] \subseteq config.names \cup config.dropped \cup AdoptedByHand

(***************************************************************************)
(* import's help text: "naming one that is already managed is refused".    *)
(***************************************************************************)
ManagedOnce ==
  \A e, f \in Envs : e # f => Range(states[e]) \cap Range(states[f]) = {}

(***************************************************************************)
(* apply's prompt: "infrena will perform the actions described above."  An *)
(* apply destroys no object whose destruction was not described.           *)
(***************************************************************************)
DestroysWhatWasShown ==
  \A s \in Sessions : Runs(s, {"apply"}) /\ At(s, "execute") /\ ~sess[s].req.auto =>
    \A op \in sess[s].todo : op.kind = "destroy" => op \in sess[s].shown

(***************************************************************************)
(* refuseManagedName: a --as that collides with a name the project already *)
(* manages is refused.                                                     *)
(***************************************************************************)
RenameIsFree ==
  \A s \in Sessions : Runs(s, {"import"}) /\ At(s, "adopt") /\ sess[s].req.as # Own =>
    \A e \in Envs : sess[s].req.as \notin DOMAIN states[e]
=============================================================================
