----------------------------- MODULE Migration -----------------------------
(***************************************************************************)
(* internal/cli/state_migrate.go and context.go: moving a project's state  *)
(* from the backend `migrate_from:` names (the source) to the one          *)
(* `backend:` names (the destination) while ordinary commands run.  Most   *)
(* read both blocks; a command run from a stale checkout still reads the   *)
(* old configuration, in which the source is the backend.                  *)
(*                                                                         *)
(* An environment's state is abstracted to the one object it names (its    *)
(* generation, 0 for none) and a version of its attributes; serial and     *)
(* update time, which comparisons set aside, are left out.                 *)
(***************************************************************************)
EXTENDS Naturals, Sequences, FiniteSets

CONSTANTS
  Kept,          \* environments, in the order they sort
  Clients,      \* processes that run apply or destroy
  Stale,         \* those of a checkout from before `migrate_from:`
  Migrators,     \* processes that run `state migrate`
  Unheld,        \* no lock
  MaxObjects,    \* bound on the objects created for an environment
  Works,         \* bound: command -> the environments it is run for
  Faults         \* "put", "lossy", "crash" of a migration; "unread" of the guard

ASSUME MigrationAssumption ==
  /\ IsFiniteSet(Kept) /\ Kept \subseteq Nat
  /\ Stale \subseteq Clients
  /\ Clients \cap Migrators = {} /\ Unheld \notin Clients \cup Migrators
  /\ MaxObjects \in Nat /\ Works \in [Clients -> SUBSET Kept]
  /\ Faults \subseteq {"put", "lossy", "crash", "unread"}

VARIABLES
  store,      \* end -> environment -> its state
  locks,      \* end -> environment -> who holds its lock, or Unheld
  live,       \* environment -> the objects that exist
  made,       \* environment -> how many were ever created
  command,    \* each ordinary command
  migration,  \* each migrator
  mishap      \* something happened that the guard does not claim to cover

migrationVars == <<store, locks, live, made, command, migration, mishap>>
worldVars == <<live, made>>

Ends == {"source", "destination"}
Missing == [file |-> FALSE, obj |-> 0, ver |-> 0]
Emptied == [Missing EXCEPT !.file = TRUE]
Holding(obj) == [file |-> TRUE, obj |-> obj, ver |-> 0]

Listed(end) == {e \in Kept : store[end][e].file}

\* environmentsHoldingState: an environment without resources does not count.
HoldsState(end) == \E e \in Listed(end) : store[end][e].obj # 0

\* Mutant: a state file is enough.
HoldsFiles(end) == Listed(end) # {}

NoStates == [e \in {} |-> Missing]
Taken(r) == {r.taken[i] : i \in DOMAIN r.taken}

Idle == [pc |-> "off", env |-> 0]
NotMigrating ==
  [pc |-> "off", listed |-> {}, taken |-> <<>>, todo |-> {},
   conflict |-> FALSE, copying |-> NoStates, copied |-> FALSE]

\* Environments are gone through in the order they sort.
First(envs) == CHOOSE e \in envs : \A f \in envs : e <= f

\* What is left to copy, with the states read: the next environment is first.
NextCopied(m) == First(DOMAIN migration[m].copying)
BeingCopied(m) == migration[m].copying[NextCopied(m)]

MigrationInit ==
  /\ store \in [Ends -> [Kept -> {Missing, Emptied, Holding(1)}]]
  /\ ~HoldsState("destination")
  /\ locks = [end \in Ends |-> [e \in Kept |-> Unheld]]
  /\ live = [e \in Kept |-> {store["source"][e].obj} \ {0}]
  /\ made = [e \in Kept |-> Cardinality(live[e])]
  /\ command = [c \in Clients |-> Idle]
  /\ migration = [m \in Migrators |-> NotMigrating]
  /\ mishap = FALSE

-----------------------------------------------------------------------------
(***************************************************************************)
(* Ordinary commands.  backendFor opens the backend and asks, unlocked,    *)
(* whether a migration is pending: the destination first, and only an      *)
(* empty one makes it look at the source.                                  *)
(***************************************************************************)
EndOf(c) == IF c \in Stale THEN "source" ELSE "destination"

Begin(c) ==
  /\ command[c].pc = "off"
  /\ \E e \in Works[c] :
       command' = [command EXCEPT ![c] =
                     [pc |-> IF c \in Stale THEN "ready" ELSE "guard", env |-> e]]
  /\ UNCHANGED <<store, locks, worldVars, migration, mishap>>

\* Mutant: a state file at the destination satisfies the guard.
LookAtDestinationFiles(c) ==
  /\ command[c].pc = "guard"
  /\ command' = [command EXCEPT ![c].pc = IF HoldsFiles("destination") THEN "ready" ELSE "guard_source"]
  /\ UNCHANGED <<store, locks, worldVars, migration, mishap>>

\* A destination that cannot be read is left for the command to report.
LookAtDestination(c) ==
  /\ command[c].pc = "guard"
  /\ \/ /\ command' = [command EXCEPT ![c].pc =
                         IF HoldsState("destination") THEN "ready" ELSE "guard_source"]
        /\ UNCHANGED mishap
     \/ /\ "unread" \in Faults
        /\ command' = [command EXCEPT ![c].pc = "ready"]
        /\ mishap' = TRUE
  /\ UNCHANGED <<store, locks, worldVars, migration>>

\* A source that cannot be read, or that holds state, refuses the command.
LookAtSource(c) ==
  /\ command[c].pc = "guard_source"
  /\ \/ /\ HoldsState("source") \/ "unread" \in Faults
        /\ command' = [command EXCEPT ![c] = Idle]
     \/ /\ ~HoldsState("source")
        /\ command' = [command EXCEPT ![c].pc = "ready"]
  /\ UNCHANGED <<store, locks, worldVars, migration, mishap>>

\* withLockedEnvironment: after approval, which takes as long as it takes.
LockEnv(c) ==
  /\ command[c].pc = "ready"
  /\ LET e == command[c].env IN
     IF locks[EndOf(c)][e] = Unheld
     THEN /\ locks' = [locks EXCEPT ![EndOf(c)][e] = c]
          /\ command' = [command EXCEPT ![c].pc = "locked"]
     ELSE command' = [command EXCEPT ![c] = Idle] /\ UNCHANGED locks
  /\ UNCHANGED <<store, worldVars, migration, mishap>>

(***************************************************************************)
(* The work of a run, in one step: Get, what the plan says, the Puts, and  *)
(* the unlocking.  An object that state names and that is gone is created  *)
(* anew.                                                                   *)
(***************************************************************************)
Unlocks(c) ==
  /\ locks' = [locks EXCEPT ![EndOf(c)][command[c].env] = Unheld]
  /\ command' = [command EXCEPT ![c] = Idle]

Writes(c, st) ==
  /\ store' = [store EXCEPT ![EndOf(c)][command[c].env] = st]
  /\ Unlocks(c)
  /\ UNCHANGED migration

ApplyCreates(c) ==
  LET e == command[c].env IN
  /\ command[c].pc = "locked"
  /\ store[EndOf(c)][e].obj \notin live[e]
  /\ made[e] < MaxObjects
  /\ made' = [made EXCEPT ![e] = @ + 1]
  /\ live' = [live EXCEPT ![e] = @ \cup {made'[e]}]
  /\ Writes(c, Holding(made'[e]))
  /\ mishap' = (mishap \/ c \in Stale)

ApplyUpdates(c) ==
  LET st == store[EndOf(c)][command[c].env] IN
  /\ command[c].pc = "locked"
  /\ st.obj \in live[command[c].env]
  /\ Writes(c, [st EXCEPT !.ver = 1 - @])
  /\ UNCHANGED <<worldVars, mishap>>

Destroy(c) ==
  LET e == command[c].env
      st == store[EndOf(c)][e] IN
  /\ command[c].pc = "locked"
  /\ st.obj # 0
  /\ live' = [live EXCEPT ![e] = @ \ {st.obj}]
  /\ Writes(c, Emptied)
  /\ UNCHANGED <<made, mishap>>

NothingToDo(c) ==
  /\ command[c].pc = "locked"
  /\ Unlocks(c)
  /\ UNCHANGED <<store, worldVars, migration, mishap>>

-----------------------------------------------------------------------------
(***************************************************************************)
(* `state migrate`.  List the source; take every environment's lock at     *)
(* both ends, giving up on the first one held; compare; copy; release.     *)
(***************************************************************************)
Locked(m) == {l \in Ends \X Kept : locks[l[1]][l[2]] = m}

\* What the deferred release has left to do.
Releasing(taken) == [NotMigrating EXCEPT !.pc = "releasing", !.taken = taken]

Moves(m, r) == migration' = [migration EXCEPT ![m] = r]

ListSource(m) ==
  /\ migration[m].pc \in {"off", "dead"}
  /\ Locked(m) = {}
  /\ Moves(m, [NotMigrating EXCEPT !.pc = "locking", !.listed = Listed("source")])
  /\ UNCHANGED <<store, locks, worldVars, command, mishap>>

\* Environment by environment, the source's first.
NextLock(r) ==
  LET e == First({e \in r.listed : ~(Ends \X {e} \subseteq Taken(r))})
  IN <<IF <<"source", e>> \in Taken(r) THEN "destination" ELSE "source", e>>

TakeProjectLock(m) ==
  LET r == migration[m]
      l == NextLock(r) IN
  /\ r.pc = "locking" /\ Taken(r) # Ends \X r.listed
  /\ IF locks[l[1]][l[2]] = Unheld
     THEN /\ locks' = [locks EXCEPT ![l[1]][l[2]] = m]
          /\ Moves(m, [r EXCEPT !.taken = Append(r.taken, l)])
     ELSE Moves(m, Releasing(r.taken)) /\ UNCHANGED locks
  /\ UNCHANGED <<store, worldVars, command, mishap>>

\* compareEnds lists the source again: it does not know what is locked.
ListAgain(m) ==
  /\ migration[m].pc = "locking"
  /\ Taken(migration[m]) = Ends \X migration[m].listed
  /\ Moves(m, [migration[m] EXCEPT !.pc = "comparing", !.todo = Listed("source")])
  /\ UNCHANGED <<store, locks, worldVars, command, mishap>>

Compare(m) ==
  LET r == migration[m]
      e == First(r.todo)
      src == store["source"][e]
      dst == store["destination"][e]
      rest == [r EXCEPT !.todo = r.todo \ {e}] IN
  /\ r.pc = "comparing" /\ r.todo # {}
  /\ Moves(m, IF src = dst THEN rest
              ELSE [rest EXCEPT
                      !.copying = [f \in DOMAIN r.copying \cup {e} |-> IF f = e THEN src ELSE r.copying[f]],
                      !.conflict = r.conflict \/ dst.obj # 0])
  /\ UNCHANGED <<store, locks, worldVars, command, mishap>>

\* One conflict makes the whole migration a conflict.
Decide(m) ==
  LET r == migration[m] IN
  /\ r.pc = "comparing" /\ r.todo = {}
  /\ Moves(m, IF r.conflict THEN Releasing(r.taken) ELSE [r EXCEPT !.pc = "copying"])
  /\ UNCHANGED <<store, locks, worldVars, command, mishap>>

\* Giving up on the rest; what was copied stays.
Stops(m) ==
  /\ Moves(m, Releasing(migration[m].taken))
  /\ mishap' = (mishap \/ migration[m].copied)

\* Mutant: the destination's Put does not ask for its lock.
CopyUnchecked(m) ==
  LET r == migration[m] IN
  /\ r.pc = "copying" /\ DOMAIN r.copying # {}
  /\ \/ /\ store' = [store EXCEPT !["destination"][NextCopied(m)] = BeingCopied(m)]
        /\ Moves(m, [r EXCEPT !.pc = "verifying", !.copied = TRUE])
        /\ UNCHANGED mishap
     \/ "put" \in Faults /\ Stops(m) /\ UNCHANGED store
  /\ UNCHANGED <<locks, worldVars, command>>

(***************************************************************************)
(* Put at the destination: refused without its lock, and a bad backend may *)
(* accept it and keep what it had.                                         *)
(***************************************************************************)
Copy(m) ==
  LET r == migration[m]
      e == NextCopied(m)
      stored == [r EXCEPT !.pc = "verifying"] IN
  /\ r.pc = "copying" /\ DOMAIN r.copying # {}
  /\ \/ /\ locks["destination"][e] = m
        /\ store' = [store EXCEPT !["destination"][e] = BeingCopied(m)]
        /\ Moves(m, [stored EXCEPT !.copied = TRUE])
        /\ UNCHANGED mishap
     \/ /\ locks["destination"][e] = m /\ "lossy" \in Faults
        /\ Moves(m, stored)
        /\ UNCHANGED <<store, mishap>>
     \/ /\ locks["destination"][e] # m \/ "put" \in Faults
        /\ Stops(m)
        /\ UNCHANGED store
  /\ UNCHANGED <<locks, worldVars, command>>

\* On to the next environment.
Copied(m) ==
  LET r == migration[m] IN
  Moves(m, [r EXCEPT !.pc = "copying",
              !.copying = [e \in DOMAIN r.copying \ {NextCopied(m)} |-> r.copying[e]]])

\* Mutant: the write is trusted.
VerifyNothing(m) ==
  /\ migration[m].pc = "verifying"
  /\ Copied(m)
  /\ UNCHANGED <<store, locks, worldVars, command, mishap>>

Verify(m) ==
  /\ migration[m].pc = "verifying"
  /\ IF store["destination"][NextCopied(m)] = BeingCopied(m)
     THEN Copied(m) /\ UNCHANGED mishap
     ELSE Stops(m)
  /\ UNCHANGED <<store, locks, worldVars, command>>

\* Everything agrees, or has been copied: the command reports success.
Succeed(m) ==
  /\ migration[m].pc = "copying" /\ DOMAIN migration[m].copying = {}
  /\ Moves(m, [migration[m] EXCEPT !.pc = "succeeded"])
  /\ UNCHANGED <<store, locks, worldVars, command, mishap>>

\* release: in reverse, one lock at a time.
ReleaseLock(m) ==
  LET r == migration[m] IN
  /\ r.pc \in {"releasing", "succeeded"}
  /\ IF r.taken = <<>>
     THEN Moves(m, NotMigrating) /\ UNCHANGED locks
     ELSE LET last == Len(r.taken)
              l == r.taken[last] IN
          /\ locks' = [locks EXCEPT ![l[1]][l[2]] = Unheld]
          /\ Moves(m, Releasing(SubSeq(r.taken, 1, last - 1)))
  /\ UNCHANGED <<store, worldVars, command, mishap>>

\* An interrupt kills it: nothing here runs under runInterruptible.
CrashMigration(m) ==
  /\ "crash" \in Faults /\ migration[m].pc \notin {"off", "dead"}
  /\ Moves(m, [NotMigrating EXCEPT !.pc = "dead"])
  /\ mishap' = (mishap \/ (migration[m].copied /\ DOMAIN migration[m].copying # {}))
  /\ UNCHANGED <<store, locks, worldVars, command>>

\* Somebody runs `state unlock` for a migrator that is gone.
UnlockDead(end, e) ==
  /\ locks[end][e] \in Migrators /\ migration[locks[end][e]].pc = "dead"
  /\ locks' = [locks EXCEPT ![end][e] = Unheld]
  /\ UNCHANGED <<store, worldVars, command, migration, mishap>>

CommandStep(c) ==
  \/ Begin(c) \/ LookAtDestination(c) \/ LookAtSource(c) \/ LockEnv(c)
  \/ ApplyCreates(c) \/ ApplyUpdates(c) \/ Destroy(c) \/ NothingToDo(c)

MigrationStep(m) ==
  \/ ListSource(m) \/ TakeProjectLock(m) \/ ListAgain(m) \/ Compare(m) \/ Decide(m)
  \/ Copy(m) \/ Verify(m) \/ Succeed(m) \/ ReleaseLock(m) \/ CrashMigration(m)

MigrationNext ==
  \/ \E c \in Clients : CommandStep(c)
  \/ \E m \in Migrators : MigrationStep(m)
  \/ \E end \in Ends, e \in Kept : UnlockDead(end, e)

MigrationSpec == MigrationInit /\ [][MigrationNext]_migrationVars

-----------------------------------------------------------------------------
(***************************************************************************)
(* state_migrate.go:184-195, "both are compared before anything is         *)
(* written": a copy lands only where no resource is recorded, whatever ran *)
(* between the comparison and the copy.  (--force is not modelled.)        *)
(***************************************************************************)
OverwritesNothing ==
  [][\A m \in Migrators : Copy(m) =>
       store["destination"][NextCopied(m)].obj = 0 \/ UNCHANGED store]_migrationVars

(***************************************************************************)
(* state_migrate.go:203-205.  When a migration reports success, the        *)
(* destination holds what the source holds for every environment it was    *)
(* about, although a write may be lost and commands run beside it.         *)
(***************************************************************************)
SuccessIsFaithful ==
  \A m \in Migrators : migration[m].pc = "succeeded" =>
    \A e \in migration[m].listed : store["destination"][e] = store["source"][e]

(***************************************************************************)
(* state_migrate.go:405-408, "a migration that gave up holding half the    *)
(* locks it took would leave environments nobody can use": a migrator that *)
(* did not die holds exactly the locks it is still going to release.       *)
(***************************************************************************)
LocksAreAccounted ==
  \A m \in Migrators : migration[m].pc # "dead" => Locked(m) = Taken(migration[m])

(***************************************************************************)
(* A migration means what it says, and holds what it says it holds.        *)
(***************************************************************************)
MigrationIsHonest == SuccessIsFaithful /\ LocksAreAccounted

(***************************************************************************)
(* docs/state-backends.md:184-192.  No command creates an environment's    *)
(* object a second time while a migration is pending, being made or done,  *)
(* unless one was cut short, the guard could not read, or a stale checkout *)
(* created something.                                                      *)
(***************************************************************************)
NoDuplicates == \A e \in Kept : Cardinality(live[e]) <= 1

DuplicatesNeedAMishap == NoDuplicates \/ mishap
=============================================================================
