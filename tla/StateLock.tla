----------------------------- MODULE StateLock -----------------------------
(***************************************************************************)
(* internal/state/lock.go and local.go, and the way every command that     *)
(* writes state uses them (internal/cli/interrupt.go): one environment,    *)
(* its lock file, its state file, the processes that run commands on it    *)
(* and the people who run `infrena state unlock`.                          *)
(*                                                                         *)
(* Atomic are the steps the file system makes atomic: linking the lock     *)
(* file into place, reading a file, renaming the state file over the old   *)
(* one, removing the lock file.  A process is known by its PID, as in the  *)
(* lock file, and a PID may be used again.                                 *)
(***************************************************************************)
EXTENDS Integers, Sequences, FiniteSets

CONSTANTS
  Procs,        \* PIDs
  Unlockers,    \* people who may run `infrena state unlock`
  Free,         \* no lock file; also nobody seen holding it
  Puts,         \* writes one run attempts at most
  MaxSerial,    \* bound on the serial of the state file
  MaxSaved,     \* bound on the number of plans saved
  Mortal,       \* the processes that may die in the middle of a command
  UnlockLive    \* a person may unlock a run that is still alive

ASSUME StateLockAssumption ==
  /\ Free \notin Procs
  /\ Puts \in Nat /\ MaxSerial \in Nat /\ MaxSaved \in Nat
  /\ Mortal \subseteq Procs /\ UnlockLive \in BOOLEAN

VARIABLES
  lock,     \* the PID in the lock file, or Free
  disk,     \* the state file: its serial and its content
  saved,    \* the states that saved plans carry the fingerprint of
  run,      \* each process
  seen      \* the holder each unlocker was told about, or Free

lockVars == <<lock, disk, saved, run, seen>>

(***************************************************************************)
(* A state's content is abstracted to the writes it is made of.            *)
(***************************************************************************)
States == [serial : Nat, log : Seq(Procs)]
NoState == [serial |-> 0, log |-> <<>>]

Stamped(mem) == [mem EXCEPT !.serial = @ + 1]
Restored(mem) == [mem EXCEPT !.serial = @ - 1]

\* The premise of a command that plans for itself, inside the lock.
Unplanned == [serial |-> -1, log |-> <<>>]

Off == [pc |-> "off", premise |-> Unplanned, mem |-> NoState, left |-> 0, wrote |-> FALSE]

LockInit ==
  /\ lock = Free
  /\ disk = NoState
  /\ saved = {}
  /\ run = [p \in Procs |-> Off]
  /\ seen = [u \in Unlockers |-> Free]

\* A command starts: apply, destroy, refresh, import or state rm, or apply of a saved plan.
Start(p) ==
  /\ run[p].pc = "off"
  /\ \E premise \in saved \cup {Unplanned} :
       run' = [run EXCEPT ![p] = [Off EXCEPT !.pc = "ready", !.premise = premise, !.left = Puts]]
  /\ UNCHANGED <<lock, disk, saved, seen>>

\* `infrena plan --output` fingerprints the state it read, without the lock.
SavePlan ==
  /\ Cardinality(saved) < MaxSaved
  /\ saved' = saved \cup {disk}
  /\ UNCHANGED <<lock, disk, run, seen>>

\* Mutant: a renamed lock file replaces the one already there.
LockRenames(p) ==
  /\ run[p].pc = "ready"
  /\ lock' = p
  /\ run' = [run EXCEPT ![p].pc = "locked"]
  /\ UNCHANGED <<disk, saved, seen>>

\* Lock: the link fails if there is a lock file, and the command ends.
Lock(p) ==
  /\ run[p].pc = "ready"
  /\ \/ /\ lock = Free
        /\ lock' = p
        /\ run' = [run EXCEPT ![p].pc = "locked"]
     \/ /\ lock # Free
        /\ run' = [run EXCEPT ![p] = Off]
        /\ UNCHANGED lock
  /\ UNCHANGED <<disk, saved, seen>>

\* Mutant: the fingerprint is not compared.
GetUnchecked(p) ==
  /\ run[p].pc = "locked"
  /\ run' = [run EXCEPT ![p].mem = disk, ![p].pc = "holding"]
  /\ UNCHANGED <<lock, disk, saved, seen>>

(***************************************************************************)
(* Get, and for a saved plan the comparison of its fingerprint with what   *)
(* was read: a state that moved ends the run.                              *)
(***************************************************************************)
Get(p) ==
  /\ run[p].pc = "locked"
  /\ LET fresh == run[p].premise \in {Unplanned, disk} IN
     run' = [run EXCEPT ![p] = [@ EXCEPT !.mem = disk,
                                         !.pc = IF fresh THEN "holding" ELSE "releasing"]]
  /\ UNCHANGED <<lock, disk, saved, seen>>

(***************************************************************************)
(* Put, up to the rename: the lock file must name this process, and the    *)
(* serial is stamped in memory.  A refused Put does not end the run.       *)
(***************************************************************************)
PutBegin(p) ==
  /\ run[p].pc = "holding" /\ run[p].left > 0
  /\ disk.serial < MaxSerial
  /\ LET tried == [run[p] EXCEPT !.left = @ - 1] IN
     run' = [run EXCEPT ![p] = IF lock = p
                               THEN [tried EXCEPT !.pc = "writing", !.mem = Stamped(@)]
                               ELSE tried]
  /\ UNCHANGED <<lock, disk, saved, seen>>

PutCommit(p) ==
  /\ run[p].pc = "writing"
  /\ LET mem == [run[p].mem EXCEPT !.log = Append(@, p)] IN
     /\ disk' = mem
     /\ run' = [run EXCEPT ![p] = [@ EXCEPT !.pc = "holding", !.mem = mem, !.wrote = TRUE]]
  /\ UNCHANGED <<lock, saved, seen>>

PutFail(p) ==
  /\ run[p].pc = "writing"
  /\ run' = [run EXCEPT ![p] = [run[p] EXCEPT !.pc = "holding", !.mem = Restored(@)]]
  /\ UNCHANGED <<lock, disk, saved, seen>>

\* The command is done, or was interrupted once: releaseLock runs either way.
Finish(p) ==
  /\ run[p].pc = "holding"
  /\ run' = [run EXCEPT ![p].pc = "releasing"]
  /\ UNCHANGED <<lock, disk, saved, seen>>

\* Unlock, first half: the lock file must name this process.
UnlockCheck(p) ==
  /\ run[p].pc = "releasing"
  /\ run' = [run EXCEPT ![p] = IF lock = p THEN [@ EXCEPT !.pc = "removing"] ELSE Off]
  /\ UNCHANGED <<lock, disk, saved, seen>>

\* Mutant: the lock file stays.
UnlockForgets(p) ==
  /\ run[p].pc = "removing"
  /\ run' = [run EXCEPT ![p] = Off]
  /\ UNCHANGED <<lock, disk, saved, seen>>

\* Unlock, second half: whatever lock file is there is removed.
UnlockRemove(p) ==
  /\ run[p].pc = "removing"
  /\ lock' = Free
  /\ run' = [run EXCEPT ![p] = Off]
  /\ UNCHANGED <<disk, saved, seen>>

\* The process is killed, or interrupted a second time: the lock stays.
Crash(p) ==
  /\ p \in Mortal
  /\ run[p].pc # "off"
  /\ run' = [run EXCEPT ![p] = Off]
  /\ UNCHANGED <<lock, disk, saved, seen>>

\* `infrena state unlock` reads the lock file and names the holder ...
Inspect(u) ==
  /\ seen[u] = Free /\ lock # Free
  /\ UnlockLive \/ run[lock].pc = "off"
  /\ seen' = [seen EXCEPT ![u] = lock]
  /\ UNCHANGED <<lock, disk, saved, run>>

\* ... and then removes whatever lock file is there.
ForceUnlock(u) ==
  /\ seen[u] # Free
  /\ lock' = Free
  /\ seen' = [seen EXCEPT ![u] = Free]
  /\ UNCHANGED <<disk, saved, run>>

Working(p) ==
  \/ Lock(p) \/ Get(p) \/ PutBegin(p) \/ PutCommit(p) \/ PutFail(p)
  \/ Finish(p) \/ UnlockCheck(p) \/ UnlockRemove(p)

LockNext ==
  \/ \E p \in Procs : Start(p) \/ Working(p) \/ Crash(p)
  \/ \E u \in Unlockers : Inspect(u) \/ ForceUnlock(u)
  \/ SavePlan

LockSpec == LockInit /\ [][LockNext]_lockVars

(***************************************************************************)
(* A started command keeps executing, a hung file system excepted, and has *)
(* finitely many writes to make; nobody has to start one, crash one or     *)
(* unlock.                                                                 *)
(***************************************************************************)
LockFairSpec == LockSpec /\ \A p \in Procs : WF_lockVars(Working(p))

-----------------------------------------------------------------------------
\* Between a successful Lock and the end of its Unlock.
Inside == {"locked", "holding", "writing", "releasing", "removing"}

Runs == [pc : {"off", "ready"} \cup Inside, premise : States \cup {Unplanned},
         mem : States, left : Nat, wrote : BOOLEAN]

LockTypeOK ==
  /\ lock \in Procs \cup {Free}
  /\ disk \in States
  /\ saved \subseteq States
  /\ run \in [Procs -> Runs]
  /\ seen \in [Unlockers -> Procs \cup {Free}]

(***************************************************************************)
(* lock.go:20-25, "a timeout that guesses wrong is exactly how two applies *)
(* end up running at once": at most one process is inside, and the lock    *)
(* file names it.                                                          *)
(***************************************************************************)
HolderIsAlone == \A p \in Procs : run[p].pc \in Inside => lock = p

(***************************************************************************)
(* local.go:76-79.  The serial on disk counts the writes made, failed      *)
(* writes and retries included: it neither skips nor repeats a value.      *)
(***************************************************************************)
SerialCountsWrites == disk.serial = Len(disk.log)

(***************************************************************************)
(* Writes form one history: none is lost under another, and each is made   *)
(* by the one process that owns the environment.                           *)
(***************************************************************************)
Owner == IF lock \in Procs /\ run[lock].pc \in Inside THEN lock ELSE Free

LedgerOf == INSTANCE Ledger WITH
  Writers <- Procs, NoWriter <- Free, owner <- Owner, history <- disk.log

ImplementsLedger == LedgerOf!LedgerSpec

(***************************************************************************)
(* apply_saved.go:123-140.  A saved plan's first write lands on the very   *)
(* state its before-values describe, however many runs came in between,    *)
(* and however often the plan is applied.                                  *)
(***************************************************************************)
SavedPlanOnItsPremise ==
  [][\A p \in Procs :
       PutCommit(p) /\ ~run[p].wrote => run[p].premise \in {Unplanned, disk}]_lockVars

(***************************************************************************)
(* interrupt.go:109-119.  A process that does not die gives back the lock  *)
(* it took, after a refused plan and a failed write too, and whichever     *)
(* other processes die.                                                    *)
(***************************************************************************)
LockIsGivenBack == \A p \in Procs \ Mortal : lock = p ~> lock # p
=============================================================================
