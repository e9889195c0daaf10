-------------------------- MODULE CommandsProofs --------------------------
(***************************************************************************)
(* For any number of sessions, environments and objects: what is recorded  *)
(* is declared, nothing that goes on existing is forgotten, and no object  *)
(* gets a second name in one environment.  For any number of environments, *)
(* commands and migrators: a migration that reports success has copied     *)
(* everything, copies over nothing, and lets no command create an object a *)
(* second time.                                                            *)
(***************************************************************************)
EXTENDS Commands, Migration, FiniteSetTheorems, SequenceTheorems, WellFoundedInduction, TLAPS

\* A set of naturals that is not empty has a least element, and First is it.
LEMMA FirstIsThere ==
  ASSUME NEW S \in SUBSET Nat, S # {}
  PROVE  First(S) \in S
  <1>1. PICK x \in S : \A y \in S : ~(<<y, x>> \in OpToRel(<, Nat))
    BY NatLessThanWellFounded, WFMin
  <1>2. \A y \in S : ~(y < x)
    BY <1>1 DEF OpToRel
  <1>3. \A y \in S : x <= y
    BY <1>2
  <1> QED BY <1>3 DEF First

-----------------------------------------------------------------------------
(***************************************************************************)
(* The migration: who holds which locks, and what has become of each       *)
(* environment a migration is about.                                       *)
(***************************************************************************)
States == [file : BOOLEAN, obj : Nat, ver : {0, 1}]
Locks == Ends \X Kept

IsMigrator(r) ==
  /\ r = [pc |-> r.pc, listed |-> r.listed, taken |-> r.taken, todo |-> r.todo,
          conflict |-> r.conflict, copying |-> r.copying, copied |-> r.copied]
  /\ r.pc \in {"off", "locking", "comparing", "copying", "verifying",
               "succeeded", "releasing", "dead"}
  /\ r.listed \subseteq Kept /\ r.todo \subseteq Kept
  /\ r.taken \in Seq(Locks)
  /\ r.conflict \in BOOLEAN /\ r.copied \in BOOLEAN
  /\ DOMAIN r.copying \subseteq Kept

MigrationTypeOK ==
  /\ store \in [Ends -> [Kept -> States]]
  /\ locks \in [Ends -> [Kept -> Clients \cup Migrators \cup {Unheld}]]
  /\ live \in [Kept -> SUBSET (Nat \ {0})]
  /\ made \in [Kept -> Nat]
  /\ command \in [Clients -> [pc : {"off", "guard", "guard_source", "ready", "locked"},
                              env : Kept \cup {0}]]
  /\ DOMAIN migration = Migrators
  /\ \A m \in Migrators : IsMigrator(migration[m])
  /\ mishap \in BOOLEAN

\* From the comparison to the report a migrator has every lock it wants.
HasAll == {"comparing", "copying", "verifying", "succeeded"}
NoTwice(taken) == \A i, j \in DOMAIN taken : taken[i] = taken[j] => i = j

CommandHolds(c) ==
  /\ command[c].pc # "off" => command[c].env \in Kept
  /\ command[c].pc = "locked" => locks[EndOf(c)][command[c].env] = c

MigratorHolds(m) ==
  LET r == migration[m] IN
  /\ r.pc # "dead" => Locked(m) = Taken(r) /\ NoTwice(r.taken)
  /\ r.pc \in {"off", "dead"} => r = [NotMigrating EXCEPT !.pc = r.pc]
  /\ r.pc = "releasing" => r = Releasing(r.taken)
  /\ r.pc = "locking" => Taken(r) \subseteq Ends \X r.listed
  /\ r.pc \in HasAll => Taken(r) = Ends \X r.listed
  /\ r.listed \subseteq Listed("source")

(***************************************************************************)
(* An environment a migration is about is still to be compared, or read as *)
(* it is and to be copied where no object is recorded, or the same at both *)
(* ends.                                                                   *)
(***************************************************************************)
Accounted(m, e) ==
  LET r == migration[m]
      dst == store["destination"][e] IN
  /\ e \in DOMAIN r.copying =>
       /\ r.copying[e] = store["source"][e]
       /\ r.conflict \/ (r.pc = "verifying" /\ e = NextCopied(m)) \/ dst.obj = 0
  /\ \/ e \in r.todo /\ r.pc = "comparing"
     \/ e \in DOMAIN r.copying
     \/ dst = store["source"][e]

MigratorCopies(m) ==
  LET r == migration[m] IN
  /\ r.pc = "locking" => DOMAIN r.copying = {}
  /\ r.pc \in HasAll => \A e \in r.listed : Accounted(m, e)
  /\ r.pc \in HasAll \ {"comparing"} => ~r.conflict
  /\ r.pc = "verifying" => DOMAIN r.copying # {} /\ NextCopied(m) \in r.listed
  /\ r.pc = "succeeded" => DOMAIN r.copying = {}

HoldInv ==
  /\ MigrationTypeOK
  /\ \A c \in Clients : CommandHolds(c)
  /\ \A m \in Migrators : MigratorHolds(m) /\ MigratorCopies(m)

USE MigrationAssumption DEF Ends

-----------------------------------------------------------------------------
\* The locks of a migrator, one more or one less.
LEMMA TakenMore ==
  ASSUME NEW r, NEW r2, NEW l, r.taken \in Seq(Locks), l \in Locks, NoTwice(r.taken),
         l \notin Taken(r), r2.taken = Append(r.taken, l)
  PROVE  Taken(r2) = Taken(r) \cup {l} /\ NoTwice(r2.taken) /\ r2.taken \in Seq(Locks)
  <1>1. /\ DOMAIN r2.taken = 1..(Len(r.taken) + 1) /\ DOMAIN r.taken = 1..Len(r.taken)
        /\ r2.taken \in Seq(Locks) /\ Len(r.taken) \in Nat
        /\ r2.taken[Len(r.taken) + 1] = l
        /\ \A i \in DOMAIN r.taken : r2.taken[i] = r.taken[i]
    OBVIOUS
  <1>2. Taken(r2) = Taken(r) \cup {l}
    BY <1>1 DEF Taken
  <1>3. NoTwice(r2.taken)
    BY <1>1 DEF NoTwice, Taken
  <1> QED BY <1>1, <1>2, <1>3

LEMMA TakenLess ==
  ASSUME NEW r, NEW r2, r.taken \in Seq(Locks), r.taken # <<>>, NoTwice(r.taken),
         r2.taken = SubSeq(r.taken, 1, Len(r.taken) - 1)
  PROVE  /\ r.taken[Len(r.taken)] \in Taken(r) /\ r.taken[Len(r.taken)] \in Locks
         /\ Taken(r2) = Taken(r) \ {r.taken[Len(r.taken)]}
         /\ NoTwice(r2.taken) /\ r2.taken \in Seq(Locks)
  <1>1. /\ DOMAIN r2.taken = 1..(Len(r.taken) - 1) /\ DOMAIN r.taken = 1..Len(r.taken)
        /\ r2.taken \in Seq(Locks) /\ Len(r.taken) \in Nat \ {0}
        /\ \A i \in DOMAIN r2.taken : r2.taken[i] = r.taken[i]
        /\ \A i \in DOMAIN r.taken : r.taken[i] \in Locks
    OBVIOUS
  <1>2. \A i \in DOMAIN r2.taken : i \in DOMAIN r.taken /\ i # Len(r.taken)
    BY <1>1
  <1>3. \A i \in DOMAIN r.taken : i = Len(r.taken) \/ i \in DOMAIN r2.taken
    BY <1>1
  <1>4. Len(r.taken) \in DOMAIN r.taken
    BY <1>1
  <1>5. Taken(r2) = Taken(r) \ {r.taken[Len(r.taken)]}
    BY <1>1, <1>2, <1>3, <1>4 DEF Taken, NoTwice
  <1>6. NoTwice(r2.taken)
    BY <1>1, <1>2 DEF NoTwice
  <1> QED BY <1>1, <1>4, <1>5, <1>6 DEF Taken

LEMMA TakenAreLocks ==
  ASSUME NEW r, IsMigrator(r) PROVE Taken(r) \subseteq Locks
  BY DEF IsMigrator, Taken

\* The next lock is one that is still to be taken.
LEMMA NextLockIsFree ==
  ASSUME NEW r, IsMigrator(r), Taken(r) \subseteq Ends \X r.listed, Taken(r) # Ends \X r.listed
  PROVE  NextLock(r) \in (Ends \X r.listed) \ Taken(r)
  <1> DEFINE open == {e \in r.listed : ~(Ends \X {e} \subseteq Taken(r))}
  <1>1. open # {}
    BY DEF open
  <1>2. open \in SUBSET Nat
    BY DEF open, IsMigrator
  <1>3. First(open) \in open
    BY <1>1, <1>2, FirstIsThere
  <1>4. PICK e \in r.listed : e = First(open) /\ ~(Ends \X {e} \subseteq Taken(r))
    BY <1>3
  <1>5. NextLock(r) = <<IF <<"source", e>> \in Taken(r) THEN "destination" ELSE "source", e>>
    BY <1>4 DEF NextLock
  <1>6. CASE <<"source", e>> \in Taken(r)
    <2>1. \A l \in Ends \X {e} : l = <<"source", e>> \/ l = <<"destination", e>>
      OBVIOUS
    <2>2. <<"destination", e>> \notin Taken(r)
      BY <1>4, <1>6, <2>1
    <2> QED BY <1>5, <1>6, <2>2
  <1>7. CASE <<"source", e>> \notin Taken(r)
    BY <1>4, <1>5, <1>7
  <1> QED BY <1>6, <1>7

-----------------------------------------------------------------------------
(***************************************************************************)
(* What another's step leaves of a migrator and of a command: their locks, *)
(* and the states under them.                                              *)
(***************************************************************************)
LEMMA MigratorFrame ==
  ASSUME HoldInv, MigrationTypeOK', NEW m \in Migrators, migration'[m] = migration[m],
         \A l \in Locks : locks'[l[1]][l[2]] = m <=> locks[l[1]][l[2]] = m,
         \A end \in Ends, e \in Kept : locks[end][e] = m => store'[end][e] = store[end][e],
         \A e \in Kept : store["source"][e].file => store'["source"][e].file
  PROVE  MigratorHolds(m)' /\ MigratorCopies(m)'
  <1>1. Locked(m)' = Locked(m)
    BY DEF Locked, Locks
  <1>2. Listed("source") \subseteq Listed("source")'
    BY DEF Listed
  <1>3. MigratorHolds(m)'
    BY <1>1, <1>2 DEF HoldInv, MigratorHolds
  <1>4. ASSUME migration[m].pc \in HasAll, NEW e \in migration[m].listed
        PROVE  /\ store'["source"][e] = store["source"][e]
               /\ store'["destination"][e] = store["destination"][e]
    <2>1. e \in Kept /\ migration[m].pc # "dead"
      BY <1>4 DEF HoldInv, MigrationTypeOK, IsMigrator, HasAll
    <2>2. Locked(m) = Ends \X migration[m].listed
      BY <1>4, <2>1 DEF HoldInv, MigratorHolds
    <2>3. <<"source", e>> \in Locked(m) /\ <<"destination", e>> \in Locked(m)
      BY <1>4, <2>2
    <2>4. locks["source"][e] = m /\ locks["destination"][e] = m
      BY <2>3 DEF Locked
    <2> QED BY <2>1, <2>4
  <1>5. NextCopied(m)' = NextCopied(m)
    BY DEF NextCopied
  <1>6. ASSUME migration[m].pc \in HasAll, NEW e \in migration[m].listed, Accounted(m, e)
        PROVE  Accounted(m, e)'
    BY <1>4, <1>5, <1>6 DEF Accounted
  <1>7. MigratorCopies(m)'
    BY <1>5, <1>6 DEF HoldInv, MigratorCopies
  <1> QED BY <1>3, <1>7

LEMMA CommandFrame ==
  ASSUME HoldInv, NEW c \in Clients, command'[c] = command[c],
         \A l \in Locks : locks[l[1]][l[2]] = c => locks'[l[1]][l[2]] = c
  PROVE  CommandHolds(c)'
  <1>1. EndOf(c) \in Ends
    BY DEF EndOf
  <1>2. ASSUME command[c].pc = "locked" PROVE locks'[EndOf(c)][command[c].env] = c
    <2>1. <<EndOf(c), command[c].env>> \in Locks /\ locks[EndOf(c)][command[c].env] = c
      BY <1>1, <1>2 DEF HoldInv, CommandHolds, Locks
    <2> QED BY <2>1
  <1> QED BY <1>2 DEF HoldInv, CommandHolds, EndOf

\* A command's step, of which a migrator sees nothing.
LEMMA CommandKeeps ==
  ASSUME HoldInv, NEW c \in Clients, MigrationTypeOK', UNCHANGED migration, CommandHolds(c)',
         \A d \in Clients : d # c => command'[d] = command[d],
         \A l \in Locks : \/ locks'[l[1]][l[2]] = locks[l[1]][l[2]]
                          \/ {locks[l[1]][l[2]], locks'[l[1]][l[2]]} \subseteq {c, Unheld},
         \A end \in Ends, e \in Kept : locks[end][e] # c => store'[end][e] = store[end][e],
         \A e \in Kept : store["source"][e].file => store'["source"][e].file
  PROVE  HoldInv'
  <1>1. \A m \in Migrators : m # c /\ m # Unheld
    OBVIOUS
  <1>2. ASSUME NEW m \in Migrators PROVE MigratorHolds(m)' /\ MigratorCopies(m)'
    <2>1. \A l \in Locks : locks'[l[1]][l[2]] = m <=> locks[l[1]][l[2]] = m
      BY <1>1
    <2> QED BY <1>1, <2>1, MigratorFrame
  <1>3. ASSUME NEW d \in Clients, d # c PROVE CommandHolds(d)'
    <2>1. d # Unheld
      OBVIOUS
    <2>2. \A l \in Locks : locks[l[1]][l[2]] = d => locks'[l[1]][l[2]] = d
      BY <1>3, <2>1
    <2> QED BY <1>3, <2>2, CommandFrame
  <1> QED BY <1>2, <1>3 DEF HoldInv

\* A migrator's step, of which the others and the commands see nothing.
LEMMA MigrationKeeps ==
  ASSUME HoldInv, NEW m \in Migrators, MigrationTypeOK', UNCHANGED command,
         MigratorHolds(m)', MigratorCopies(m)',
         \A n \in Migrators : n # m => migration'[n] = migration[n],
         \A l \in Locks : \/ locks'[l[1]][l[2]] = locks[l[1]][l[2]]
                          \/ {locks[l[1]][l[2]], locks'[l[1]][l[2]]} \subseteq {m, Unheld},
         UNCHANGED store["source"],
         \A e \in Kept : locks["destination"][e] # m => store'["destination"][e] = store["destination"][e]
  PROVE  HoldInv'
  <1>1. \A c \in Clients : m # c /\ c # Unheld
    OBVIOUS
  <1>2. ASSUME NEW n \in Migrators, n # m PROVE MigratorHolds(n)' /\ MigratorCopies(n)'
    <2>1. \A l \in Locks : locks'[l[1]][l[2]] = n <=> locks[l[1]][l[2]] = n
      BY <1>2
    <2>2. \A end \in Ends, e \in Kept : locks[end][e] = n => store'[end][e] = store[end][e]
      BY <1>2
    <2> QED BY <1>2, <2>1, <2>2, MigratorFrame
  <1>3. ASSUME NEW d \in Clients PROVE CommandHolds(d)'
    <2>2. \A l \in Locks : locks[l[1]][l[2]] = d => locks'[l[1]][l[2]] = d
      BY <1>1
    <2> QED BY <1>3, <2>2, CommandFrame
  <1> QED BY <1>2, <1>3 DEF HoldInv

-----------------------------------------------------------------------------
(***************************************************************************)
(* The commands' steps.                                                    *)
(***************************************************************************)
\* Neither state nor locks are touched: before the lock is asked for.
LEMMA CommandMovesOn ==
  ASSUME HoldInv, NEW c \in Clients,
         NEW at \in {"off", "guard", "guard_source", "ready"}, NEW e \in Kept \cup {0},
         at # "off" => e \in Kept,
         command' = [command EXCEPT ![c] = [pc |-> at, env |-> e]],
         UNCHANGED <<store, locks, worldVars, migration>>, mishap' \in BOOLEAN
  PROVE  HoldInv'
  <1>1. MigrationTypeOK'
    BY DEF HoldInv, MigrationTypeOK, worldVars
  <1>2. command'[c] = [pc |-> at, env |-> e]
    BY DEF HoldInv, MigrationTypeOK
  <1>3. CommandHolds(c)'
    <2>1. command'[c].pc = at /\ command'[c].env = e /\ at # "locked"
      BY <1>2
    <2> QED BY <2>1 DEF CommandHolds, EndOf
  <1>4. \A d \in Clients : d # c => command'[d] = command[d]
    BY DEF HoldInv, MigrationTypeOK
  <1>5. store' = store /\ locks' = locks /\ migration' = migration
    OBVIOUS
  <1> QED BY <1>1, <1>3, <1>4, <1>5, CommandKeeps

LEMMA CommandFields ==
  ASSUME HoldInv, NEW c \in Clients
  PROVE  /\ command[c] = [pc |-> command[c].pc, env |-> command[c].env]
         /\ command[c].env \in Kept \cup {0}
         /\ \A at \in {"ready", "guard_source", "locked"} :
              [command[c] EXCEPT !.pc = at] = [pc |-> at, env |-> command[c].env]
  <1>1. command[c] \in [pc : {"off", "guard", "guard_source", "ready", "locked"}, env : Kept \cup {0}]
    BY DEF HoldInv, MigrationTypeOK
  <1> QED BY <1>1

LEMMA BeginKeeps == ASSUME HoldInv, NEW c \in Clients, Begin(c) PROVE HoldInv'
  <1>1. PICK e \in Works[c] :
          command' = [command EXCEPT ![c] = [pc |-> IF c \in Stale THEN "ready" ELSE "guard", env |-> e]]
    BY DEF Begin
  <1>2. e \in Kept
    OBVIOUS
  <1>3. mishap' \in BOOLEAN
    BY DEF Begin, HoldInv, MigrationTypeOK
  <1>4. CASE c \in Stale
    BY <1>1, <1>2, <1>3, <1>4, CommandMovesOn DEF Begin
  <1>5. CASE c \notin Stale
    BY <1>1, <1>2, <1>3, <1>5, CommandMovesOn DEF Begin
  <1> QED BY <1>4, <1>5

\* A command at one of these places knows its environment.
LEMMA EnvIsKept ==
  ASSUME HoldInv, NEW c \in Clients, command[c].pc # "off" PROVE command[c].env \in Kept
  BY DEF HoldInv, CommandHolds

LEMMA LooksKeep ==
  ASSUME HoldInv, NEW c \in Clients, LookAtDestination(c) \/ LookAtSource(c) PROVE HoldInv'
  <1>1. command[c].env \in Kept
    BY EnvIsKept DEF LookAtDestination, LookAtSource
  <1>2. mishap' \in BOOLEAN
    BY DEF LookAtDestination, LookAtSource, HoldInv, MigrationTypeOK
  <1>3. \/ \E at \in {"ready", "guard_source"} :
             command' = [command EXCEPT ![c] = [pc |-> at, env |-> command[c].env]]
        \/ command' = [command EXCEPT ![c] = [pc |-> "off", env |-> 0]]
    BY CommandFields DEF LookAtDestination, LookAtSource, Idle
  <1>4. UNCHANGED <<store, locks, worldVars, migration>>
    BY DEF LookAtDestination, LookAtSource
  <1>5. ASSUME NEW at \in {"ready", "guard_source"},
               command' = [command EXCEPT ![c] = [pc |-> at, env |-> command[c].env]]
        PROVE  HoldInv'
    BY <1>1, <1>2, <1>4, <1>5, CommandMovesOn
  <1>6. CASE command' = [command EXCEPT ![c] = [pc |-> "off", env |-> 0]]
    BY <1>2, <1>4, <1>6, CommandMovesOn
  <1> QED BY <1>3, <1>5, <1>6

LEMMA LockEnvKeeps == ASSUME HoldInv, NEW c \in Clients, LockEnv(c) PROVE HoldInv'
  <1> DEFINE e == command[c].env
  <1>1. e \in Kept /\ EndOf(c) \in Ends
    BY EnvIsKept DEF LockEnv, EndOf
  <1>2. CASE locks[EndOf(c)][e] = Unheld
    <2>1. /\ locks' = [locks EXCEPT ![EndOf(c)][e] = c]
          /\ command' = [command EXCEPT ![c] = [pc |-> "locked", env |-> e]]
          /\ UNCHANGED <<store, live, made, migration, mishap>>
      BY <1>2, CommandFields DEF LockEnv, worldVars
    <2>2. MigrationTypeOK'
      BY <1>1, <2>1 DEF HoldInv, MigrationTypeOK
    <2>3. command'[c] = [pc |-> "locked", env |-> e] /\ locks'[EndOf(c)][e] = c
      BY <1>1, <2>1 DEF HoldInv, MigrationTypeOK
    <2>4. CommandHolds(c)'
      BY <1>1, <2>3 DEF CommandHolds, EndOf
    <2>5. \A l \in Locks : \/ locks'[l[1]][l[2]] = locks[l[1]][l[2]]
                           \/ {locks[l[1]][l[2]], locks'[l[1]][l[2]]} \subseteq {c, Unheld}
      BY <1>1, <1>2, <2>1 DEF HoldInv, MigrationTypeOK, Locks
    <2> QED BY <2>1, <2>2, <2>4, <2>5, CommandKeeps
  <1>3. CASE locks[EndOf(c)][e] # Unheld
    <2>1. /\ command' = [command EXCEPT ![c] = [pc |-> "off", env |-> 0]]
          /\ UNCHANGED <<store, locks, worldVars, migration, mishap>>
      BY <1>3 DEF LockEnv, Idle
    <2>2. mishap' \in BOOLEAN
      BY <2>1 DEF HoldInv, MigrationTypeOK
    <2> QED BY <2>1, <2>2, CommandMovesOn
  <1> QED BY <1>2, <1>3

\* The work of a run touches one environment at one end, whose lock it gives back.
LEMMA WorkKeeps ==
  ASSUME HoldInv, NEW c \in Clients, command[c].pc = "locked", Unlocks(c), UNCHANGED migration,
         store' = [store EXCEPT ![EndOf(c)][command[c].env] = store'[EndOf(c)][command[c].env]],
         store'[EndOf(c)][command[c].env] \in States,
         store[EndOf(c)][command[c].env].file => store'[EndOf(c)][command[c].env].file,
         live' \in [Kept -> SUBSET (Nat \ {0})], made' \in [Kept -> Nat], mishap' \in BOOLEAN
  PROVE  HoldInv'
  <1> DEFINE e == command[c].env
             end == EndOf(c)
             st == store'[end][e]
  <1>1. e \in Kept /\ end \in Ends
    BY EnvIsKept DEF EndOf
  <1>2. locks[end][e] = c
    BY DEF HoldInv, CommandHolds
  <1>3. /\ locks' = [locks EXCEPT ![end][e] = Unheld]
        /\ command' = [command EXCEPT ![c] = [pc |-> "off", env |-> 0]]
    BY DEF Unlocks, Idle
  <1>4. store \in [Ends -> [Kept -> States]]
    BY DEF HoldInv, MigrationTypeOK
  <1> HIDE DEF e, end
  <1>5. store' \in [Ends -> [Kept -> States]]
    <2>1. st \in States /\ store' = [store EXCEPT ![end][e] = st]
      BY DEF e, end
    <2> HIDE DEF st
    <2> QED BY <1>1, <1>4, <2>1
  <1>6. MigrationTypeOK'
    BY <1>1, <1>3, <1>5 DEF HoldInv, MigrationTypeOK
  <1>7. command'[c] = [pc |-> "off", env |-> 0]
    BY <1>3 DEF HoldInv, MigrationTypeOK
  <1>8. CommandHolds(c)'
    BY <1>7 DEF CommandHolds
  <1>9. \A l \in Locks : \/ locks'[l[1]][l[2]] = locks[l[1]][l[2]]
                         \/ {locks[l[1]][l[2]], locks'[l[1]][l[2]]} \subseteq {c, Unheld}
    <2>1. \A d \in Ends, f \in Kept : locks'[d][f] = IF d = end /\ f = e THEN Unheld ELSE locks[d][f]
      BY <1>1, <1>3 DEF HoldInv, MigrationTypeOK
    <2> SUFFICES ASSUME NEW l \in Locks
                 PROVE  \/ locks'[l[1]][l[2]] = locks[l[1]][l[2]]
                        \/ {locks[l[1]][l[2]], locks'[l[1]][l[2]]} \subseteq {c, Unheld}
      OBVIOUS
    <2>2. l[1] \in Ends /\ l[2] \in Kept
      BY DEF Locks
    <2> QED BY <1>2, <2>1, <2>2
  <1>10. \A d \in Ends, f \in Kept : store'[d][f] = store[d][f] \/ (d = end /\ f = e)
    <2>1. store' = [store EXCEPT ![end][e] = st]
      BY DEF e, end
    <2> HIDE DEF st
    <2>2. \A d \in Ends : d # end => store'[d] = store[d]
      BY <1>4, <2>1
    <2>3. store'[end] = [store[end] EXCEPT ![e] = st]
      BY <1>1, <1>4, <2>1
    <2>4. store[end] \in [Kept -> States]
      BY <1>1, <1>4
    <2>5. \A f \in Kept : f # e => store'[end][f] = store[end][f]
      BY <2>3, <2>4
    <2> TAKE d \in Ends, f \in Kept
    <2>6. CASE d = end
      BY <2>5, <2>6
    <2>7. CASE d # end
      BY <2>2, <2>7
    <2> QED BY <2>6, <2>7
  <1>11. \A d \in Ends, f \in Kept : locks[d][f] # c => store'[d][f] = store[d][f]
    BY <1>2, <1>10
  <1>12. \A f \in Kept : store["source"][f].file => store'["source"][f].file
    BY <1>10 DEF e, end
  <1>13. \A d \in Clients : d # c => command'[d] = command[d]
    BY <1>3 DEF HoldInv, MigrationTypeOK
  <1> QED BY <1>6, <1>8, <1>9, <1>11, <1>12, <1>13, CommandKeeps

\* Where the work of a run takes place, and what is written there.
LEMMA WorkPlace ==
  ASSUME HoldInv, NEW c \in Clients, command[c].pc = "locked"
  PROVE  /\ command[c].env \in Kept /\ EndOf(c) \in Ends
         /\ locks[EndOf(c)][command[c].env] = c
         /\ store[EndOf(c)][command[c].env] \in States
  <1>1. command[c].env \in Kept /\ EndOf(c) \in Ends
    BY EnvIsKept DEF EndOf
  <1>2. store[EndOf(c)] \in [Kept -> States] /\ store \in [Ends -> [Kept -> States]]
    BY <1>1 DEF HoldInv, MigrationTypeOK
  <1>3. store[EndOf(c)][command[c].env] \in States
    BY <1>1, <1>2
  <1>4. locks[EndOf(c)][command[c].env] = c
    BY DEF HoldInv, CommandHolds
  <1> QED BY <1>1, <1>2, <1>3, <1>4

LEMMA WritesKeep ==
  ASSUME HoldInv, NEW c \in Clients, command[c].pc = "locked",
         NEW st \in States, Writes(c, st), store[EndOf(c)][command[c].env].file => st.file,
         live' \in [Kept -> SUBSET (Nat \ {0})], made' \in [Kept -> Nat], mishap' \in BOOLEAN
  PROVE  HoldInv'
  <1>1. store' = [store EXCEPT ![EndOf(c)][command[c].env] = st]
    BY DEF Writes
  <1>2. store'[EndOf(c)][command[c].env] = st
    <2>1. EndOf(c) \in Ends /\ command[c].env \in Kept
      BY WorkPlace
    <2>2. store \in [Ends -> [Kept -> States]]
      BY DEF HoldInv, MigrationTypeOK
    <2>3. store'[EndOf(c)] = [store[EndOf(c)] EXCEPT ![command[c].env] = st]
      BY <1>1, <2>1, <2>2
    <2>4. store[EndOf(c)] \in [Kept -> States]
      BY <2>1, <2>2
    <2> QED BY <2>1, <2>3, <2>4
  <1>3. Unlocks(c) /\ UNCHANGED migration
    BY DEF Writes
  <1> QED BY <1>1, <1>2, <1>3, WorkKeeps

LEMMA ApplyCreatesKeeps == ASSUME HoldInv, NEW c \in Clients, ApplyCreates(c) PROVE HoldInv'
  <1> DEFINE e == command[c].env
  <1>1. /\ command[c].pc = "locked" /\ made' = [made EXCEPT ![e] = made[e] + 1]
        /\ live' = [live EXCEPT ![e] = live[e] \cup {made'[e]}]
        /\ Writes(c, Holding(made'[e])) /\ mishap' = (mishap \/ c \in Stale)
    BY DEF ApplyCreates
  <1>2. e \in Kept
    BY <1>1, WorkPlace
  <1>3. made \in [Kept -> Nat] /\ live \in [Kept -> SUBSET (Nat \ {0})] /\ mishap \in BOOLEAN
    BY DEF HoldInv, MigrationTypeOK
  <1> HIDE DEF e
  <1>4. made' \in [Kept -> Nat] /\ made'[e] \in Nat \ {0}
    BY <1>1, <1>2, <1>3
  <1>5. live' \in [Kept -> SUBSET (Nat \ {0})]
    <2>1. live[e] \cup {made'[e]} \in SUBSET (Nat \ {0})
      BY <1>2, <1>3, <1>4
    <2> QED BY <1>1, <1>2, <1>3, <2>1
  <1>6. Holding(made'[e]) \in States /\ Holding(made'[e]).file
    BY <1>4 DEF Holding, States
  <1>7. mishap' \in BOOLEAN
    BY <1>1, <1>3
  <1> QED BY <1>1, <1>4, <1>5, <1>6, <1>7, WritesKeep

LEMMA ApplyUpdatesKeeps == ASSUME HoldInv, NEW c \in Clients, ApplyUpdates(c) PROVE HoldInv'
  <1> DEFINE st == store[EndOf(c)][command[c].env]
             new == [st EXCEPT !.ver = 1 - st.ver]
  <1>1. command[c].pc = "locked" /\ Writes(c, new) /\ UNCHANGED <<live, made, mishap>>
    BY DEF ApplyUpdates, worldVars
  <1>2. st \in States
    BY <1>1, WorkPlace
  <1>3. new \in States /\ new.file = st.file
    <2> HIDE DEF st
    <2> QED BY <1>2 DEF States, new
  <1>4. /\ live' \in [Kept -> SUBSET (Nat \ {0})] /\ made' \in [Kept -> Nat] /\ mishap' \in BOOLEAN
    BY <1>1 DEF HoldInv, MigrationTypeOK
  <1> HIDE DEF new
  <1> QED BY <1>1, <1>3, <1>4, WritesKeep

LEMMA DestroyKeeps == ASSUME HoldInv, NEW c \in Clients, Destroy(c) PROVE HoldInv'
  <1> DEFINE e == command[c].env
             o == store[EndOf(c)][e].obj
  <1>1. /\ command[c].pc = "locked" /\ live' = [live EXCEPT ![e] = live[e] \ {o}]
        /\ Writes(c, Emptied) /\ UNCHANGED <<made, mishap>>
    BY DEF Destroy
  <1>2. e \in Kept
    BY <1>1, WorkPlace
  <1>3. live' \in [Kept -> SUBSET (Nat \ {0})]
    <2> HIDE DEF e, o
    <2> QED BY <1>1, <1>2 DEF HoldInv, MigrationTypeOK
  <1>4. Emptied \in States /\ Emptied.file
    BY DEF Emptied, Missing, States
  <1>5. made' \in [Kept -> Nat] /\ mishap' \in BOOLEAN
    BY <1>1 DEF HoldInv, MigrationTypeOK
  <1> QED BY <1>1, <1>3, <1>4, <1>5, WritesKeep

LEMMA NothingToDoKeeps == ASSUME HoldInv, NEW c \in Clients, NothingToDo(c) PROVE HoldInv'
  <1> DEFINE e == command[c].env
  <1>1. /\ command[c].pc = "locked" /\ Unlocks(c)
        /\ UNCHANGED <<store, live, made, migration, mishap>>
    BY DEF NothingToDo, worldVars
  <1>2. e \in Kept /\ EndOf(c) \in Ends /\ store[EndOf(c)][e] \in States
    BY <1>1, WorkPlace
  <1>3. store \in [Ends -> [Kept -> States]] /\ live \in [Kept -> SUBSET (Nat \ {0})]
        /\ made \in [Kept -> Nat] /\ mishap \in BOOLEAN
    BY DEF HoldInv, MigrationTypeOK
  <1>4. [store EXCEPT ![EndOf(c)][e] = store[EndOf(c)][e]] = store
    <2>1. [store[EndOf(c)] EXCEPT ![e] = store[EndOf(c)][e]] = store[EndOf(c)]
      BY <1>2, <1>3
    <2>2. [store EXCEPT ![EndOf(c)] = store[EndOf(c)]] = store
      BY <1>2, <1>3
    <2> QED BY <2>1, <2>2
  <1> QED BY <1>1, <1>2, <1>3, <1>4, WorkKeeps

LEMMA CommandStepKeeps == ASSUME HoldInv, NEW c \in Clients, CommandStep(c) PROVE HoldInv'
  BY BeginKeeps, LooksKeep, LockEnvKeeps, ApplyCreatesKeeps, ApplyUpdatesKeeps, DestroyKeeps,
     NothingToDoKeeps DEF CommandStep

-----------------------------------------------------------------------------
(***************************************************************************)
(* The migrators' steps.                                                   *)
(***************************************************************************)
LEMMA MigratorTypes ==
  ASSUME HoldInv, NEW m \in Migrators, NEW r2, Moves(m, r2), IsMigrator(r2),
         store' \in [Ends -> [Kept -> States]],
         locks' \in [Ends -> [Kept -> Clients \cup Migrators \cup {Unheld}]],
         UNCHANGED <<worldVars, command>>, mishap' \in BOOLEAN
  PROVE  /\ MigrationTypeOK' /\ migration'[m] = r2
         /\ \A n \in Migrators : n # m => migration'[n] = migration[n]
  <1>1. DOMAIN migration = Migrators /\ \A n \in Migrators : IsMigrator(migration[n])
    BY DEF HoldInv, MigrationTypeOK
  <1>2. /\ migration'[m] = r2 /\ DOMAIN migration' = Migrators
        /\ \A n \in Migrators : n # m => migration'[n] = migration[n]
    BY <1>1 DEF Moves
  <1>3. \A n \in Migrators : IsMigrator(migration'[n])
    BY <1>1, <1>2
  <1> QED BY <1>2, <1>3 DEF HoldInv, MigrationTypeOK, worldVars

\* Locks and states stay as they are.
LEMMA MigratorMovesOn ==
  ASSUME HoldInv, NEW m \in Migrators, NEW r2, Moves(m, r2), IsMigrator(r2),
         UNCHANGED <<store, locks, worldVars, command>>, mishap' \in BOOLEAN,
         migration'[m] = r2 => MigratorHolds(m)' /\ MigratorCopies(m)'
  PROVE  HoldInv'
  <1>1. /\ store' \in [Ends -> [Kept -> States]]
        /\ locks' \in [Ends -> [Kept -> Clients \cup Migrators \cup {Unheld}]]
    BY DEF HoldInv, MigrationTypeOK
  <1>2. /\ MigrationTypeOK' /\ migration'[m] = r2
        /\ \A n \in Migrators : n # m => migration'[n] = migration[n]
    BY <1>1, MigratorTypes
  <1>3. command' = command /\ locks' = locks /\ store' = store
    OBVIOUS
  <1> QED BY <1>2, <1>3, MigrationKeeps

LEMMA MigratorFields ==
  ASSUME HoldInv, NEW m \in Migrators
  PROVE  IsMigrator(migration[m]) /\ mishap \in BOOLEAN /\ MigratorHolds(m) /\ MigratorCopies(m)
  BY DEF HoldInv, MigrationTypeOK

LEMMA BlankMigrator ==
  ASSUME NEW r,
         r = [pc |-> r.pc, listed |-> r.listed, taken |-> r.taken, todo |-> r.todo,
              conflict |-> r.conflict, copying |-> r.copying, copied |-> r.copied],
         r.pc \in {"off", "locking", "releasing", "dead"}, r.listed \subseteq Kept,
         r.taken \in Seq(Locks), r.todo = {}, r.conflict = FALSE, r.copying = NoStates,
         r.copied = FALSE
  PROVE  IsMigrator(r) /\ DOMAIN r.copying = {}
  <1>1. DOMAIN NoStates = {}
    BY DEF NoStates
  <1> QED BY <1>1 DEF IsMigrator

LEMMA ReleasingFields ==
  ASSUME NEW r, NEW taken \in Seq(Locks), r = Releasing(taken)
  PROVE  /\ IsMigrator(r) /\ DOMAIN r.copying = {} /\ r.copied = FALSE
         /\ r.pc = "releasing" /\ r.listed = {} /\ r.taken = taken
  <1>1. /\ r = [pc |-> r.pc, listed |-> r.listed, taken |-> r.taken, todo |-> r.todo,
                conflict |-> r.conflict, copying |-> r.copying, copied |-> r.copied]
        /\ r.pc = "releasing" /\ r.listed = {} /\ r.taken = taken /\ r.todo = {}
        /\ r.conflict = FALSE /\ r.copying = NoStates /\ r.copied = FALSE
    BY DEF Releasing, NotMigrating
  <1> QED BY <1>1, BlankMigrator

LEMMA IdleFields ==
  ASSUME NEW r, r = NotMigrating \/ r = [NotMigrating EXCEPT !.pc = "dead"]
  PROVE  /\ IsMigrator(r) /\ r.pc \in {"off", "dead"} /\ r.listed = {} /\ r.taken = <<>>
         /\ r = [NotMigrating EXCEPT !.pc = r.pc]
  <1>1. /\ r = [pc |-> r.pc, listed |-> r.listed, taken |-> r.taken, todo |-> r.todo,
                conflict |-> r.conflict, copying |-> r.copying, copied |-> r.copied]
        /\ r.pc \in {"off", "dead"} /\ r.listed = {} /\ r.taken = <<>> /\ r.todo = {}
        /\ r.conflict = FALSE /\ r.copying = NoStates /\ r.copied = FALSE
    BY DEF NotMigrating
  <1>2. <<>> \in Seq(Locks)
    OBVIOUS
  <1>3. IsMigrator(r)
    BY <1>1, <1>2, BlankMigrator
  <1>4. r = [NotMigrating EXCEPT !.pc = r.pc]
    <2>1. CASE r = NotMigrating
      <3>1. NotMigrating.pc = "off" /\ NotMigrating = [NotMigrating EXCEPT !.pc = NotMigrating.pc]
        BY DEF NotMigrating
      <3> QED BY <2>1, <3>1
    <2>2. CASE r = [NotMigrating EXCEPT !.pc = "dead"]
      <3>1. r.pc = "dead"
        BY <2>2 DEF NotMigrating
      <3> QED BY <2>2, <3>1
    <2> QED BY <2>1, <2>2
  <1> QED BY <1>1, <1>3, <1>4

\* Giving up, or being done: what is left is to give the locks back.
LEMMA ReleasingKeeps ==
  ASSUME HoldInv, NEW m \in Migrators, migration[m].pc # "dead",
         Moves(m, Releasing(migration[m].taken)),
         UNCHANGED <<store, locks, worldVars, command>>, mishap' \in BOOLEAN
  PROVE  HoldInv'
  <1> DEFINE r == migration[m]
             r2 == Releasing(r.taken)
  <1>1. IsMigrator(r) /\ Locked(m) = Taken(r) /\ NoTwice(r.taken)
    BY MigratorFields DEF MigratorHolds
  <1>2. /\ r2.pc = "releasing" /\ r2.listed = {} /\ r2.taken = r.taken
        /\ IsMigrator(r2) /\ Taken(r2) = Taken(r)
    <2>1. r.taken \in Seq(Locks)
      BY <1>1 DEF IsMigrator
    <2>2. IsMigrator(r2) /\ r2.pc = "releasing" /\ r2.listed = {} /\ r2.taken = r.taken
      <3>1. r2 = Releasing(r.taken)
        OBVIOUS
      <3> HIDE DEF r2
      <3> QED BY <2>1, <3>1, ReleasingFields
    <2> HIDE DEF r2
    <2> QED BY <2>2 DEF Taken
  <1>3. ASSUME migration'[m] = r2 PROVE MigratorHolds(m)' /\ MigratorCopies(m)'
    <2> HIDE DEF r2, r
    <2>1. Locked(m)' = Locked(m)
      BY DEF Locked
    <2>2. r2 = Releasing(r2.taken)
      BY <1>2 DEF r2
    <2>3. MigratorHolds(m)'
      BY <1>1, <1>2, <1>3, <2>1, <2>2 DEF MigratorHolds, HasAll
    <2>4. MigratorCopies(m)'
      BY <1>2, <1>3 DEF MigratorCopies, HasAll
    <2> QED BY <2>3, <2>4
  <1> HIDE DEF r2
  <1>4. Moves(m, r2)
    BY DEF r2
  <1> QED BY <1>2, <1>3, <1>4, MigratorMovesOn

LEMMA ListSourceKeeps == ASSUME HoldInv, NEW m \in Migrators, ListSource(m) PROVE HoldInv'
  <1> DEFINE r2 == [NotMigrating EXCEPT !.pc = "locking", !.listed = Listed("source")]
  <1>1. /\ r2.pc = "locking" /\ r2.listed = Listed("source") /\ r2.taken = <<>>
        /\ IsMigrator(r2) /\ DOMAIN r2.copying = {}
    <2>0. r2 = [NotMigrating EXCEPT !.pc = "locking", !.listed = Listed("source")]
      OBVIOUS
    <2> HIDE DEF r2
    <2>1. /\ r2 = [pc |-> r2.pc, listed |-> r2.listed, taken |-> r2.taken, todo |-> r2.todo,
                   conflict |-> r2.conflict, copying |-> r2.copying, copied |-> r2.copied]
          /\ r2.pc = "locking" /\ r2.listed = Listed("source") /\ r2.taken = <<>> /\ r2.todo = {}
          /\ r2.conflict = FALSE /\ r2.copying = NoStates /\ r2.copied = FALSE
      BY <2>0 DEF NotMigrating
    <2>2. Listed("source") \subseteq Kept /\ <<>> \in Seq(Locks)
      BY DEF Listed
    <2> QED BY <2>1, <2>2, BlankMigrator
  <1>2. Moves(m, r2) /\ UNCHANGED <<store, locks, worldVars, command, mishap>> /\ Locked(m) = {}
    BY DEF ListSource
  <1> HIDE DEF r2
  <1>3. Taken(r2) = {} /\ NoTwice(r2.taken)
    BY <1>1 DEF Taken, NoTwice
  <1>4. ASSUME migration'[m] = r2 PROVE MigratorHolds(m)' /\ MigratorCopies(m)'
    <2>1. Locked(m)' = {} /\ Listed("source")' = Listed("source")
      BY <1>2 DEF Locked, Listed
    <2>2. MigratorHolds(m)'
      BY <1>1, <1>3, <1>4, <2>1 DEF MigratorHolds, HasAll
    <2>3. MigratorCopies(m)'
      BY <1>1, <1>4 DEF MigratorCopies, HasAll
    <2> QED BY <2>2, <2>3
  <1>5. mishap' \in BOOLEAN
    BY <1>2, MigratorFields
  <1> QED BY <1>1, <1>2, <1>4, <1>5, MigratorMovesOn

LEMMA TakeProjectLockKeeps == ASSUME HoldInv, NEW m \in Migrators, TakeProjectLock(m) PROVE HoldInv'
  <1> DEFINE r == migration[m]
             l == NextLock(r)
             r2 == [r EXCEPT !.taken = Append(r.taken, l)]
  <1>1. IsMigrator(r) /\ mishap \in BOOLEAN /\ MigratorHolds(m) /\ MigratorCopies(m)
    BY MigratorFields
  <1>2. r.pc = "locking" /\ Taken(r) # Ends \X r.listed /\ UNCHANGED <<store, worldVars, command, mishap>>
    BY DEF TakeProjectLock
  <1>3. Taken(r) \subseteq Ends \X r.listed /\ Locked(m) = Taken(r) /\ NoTwice(r.taken)
        /\ r.listed \subseteq Listed("source")
    BY <1>1, <1>2 DEF MigratorHolds
  <1>4. l \in (Ends \X r.listed) \ Taken(r)
    BY <1>1, <1>2, <1>3, NextLockIsFree
  <1>5. l[1] \in Ends /\ l[2] \in r.listed /\ l[2] \in Kept /\ l = <<l[1], l[2]>> /\ l \in Locks
    <2> HIDE DEF l, r
    <2> QED BY <1>1, <1>4 DEF IsMigrator, Locks
  <1>6. CASE locks[l[1]][l[2]] = Unheld
    <2>1. locks' = [locks EXCEPT ![l[1]][l[2]] = m] /\ Moves(m, r2)
      BY <1>6 DEF TakeProjectLock
    <2>2. /\ r2.pc = "locking" /\ r2.listed = r.listed /\ r2.taken = Append(r.taken, l)
          /\ r.taken \in Seq(Locks) /\ DOMAIN r2.copying = {}
      BY <1>1, <1>2 DEF IsMigrator, MigratorCopies
    <2>3. Taken(r2) = Taken(r) \cup {l} /\ NoTwice(r2.taken) /\ r2.taken \in Seq(Locks)
      <3> HIDE DEF l, r2, r
      <3> QED BY <1>3, <1>4, <1>5, <2>2, TakenMore
    <2>4. IsMigrator(r2)
      <3>1. r2 = [r EXCEPT !.taken = Append(r.taken, l)]
        OBVIOUS
      <3> HIDE DEF l, r2, r
      <3> QED BY <1>1, <2>3, <3>1 DEF IsMigrator
    <2> HIDE DEF l, r2
    <2>5. locks \in [Ends -> [Kept -> Clients \cup Migrators \cup {Unheld}]]
          /\ store \in [Ends -> [Kept -> States]]
      BY DEF HoldInv, MigrationTypeOK
    <2>6. locks' \in [Ends -> [Kept -> Clients \cup Migrators \cup {Unheld}]]
      BY <1>5, <2>1, <2>5
    <2>7. /\ MigrationTypeOK' /\ migration'[m] = r2
          /\ \A n \in Migrators : n # m => migration'[n] = migration[n]
      BY <1>1, <1>2, <2>1, <2>4, <2>5, <2>6, MigratorTypes
    <2>8. \A end \in Ends, e \in Kept :
             locks'[end][e] = IF end = l[1] /\ e = l[2] THEN m ELSE locks[end][e]
      BY <1>5, <2>1, <2>5
    <2>9. ASSUME NEW k \in Locks PROVE locks'[k[1]][k[2]] = IF k = l THEN m ELSE locks[k[1]][k[2]]
      <3>1. k[1] \in Ends /\ k[2] \in Kept /\ k = <<k[1], k[2]>>
        BY DEF Locks
      <3>2. locks'[k[1]][k[2]] = IF k[1] = l[1] /\ k[2] = l[2] THEN m ELSE locks[k[1]][k[2]]
        BY <2>8, <3>1
      <3>3. k = l <=> k[1] = l[1] /\ k[2] = l[2]
        BY <1>5, <3>1
      <3> QED BY <3>2, <3>3
    <2>10. Locked(m)' = Locked(m) \cup {l}
      BY <1>5, <2>9 DEF Locked, Locks
    <2>11. MigratorHolds(m)'
      <3>1. Taken(r2) \subseteq Ends \X r2.listed
        BY <1>3, <1>4, <2>2, <2>3
      <3>2. Listed("source")' = Listed("source")
        BY <1>2 DEF Listed
      <3> HIDE DEF r
      <3> QED BY <1>3, <2>2, <2>3, <2>7, <2>10, <3>1, <3>2 DEF MigratorHolds, HasAll
    <2>12. MigratorCopies(m)'
      BY <2>2, <2>7 DEF MigratorCopies, HasAll
    <2>13. \A k \in Locks : \/ locks'[k[1]][k[2]] = locks[k[1]][k[2]]
                            \/ {locks[k[1]][k[2]], locks'[k[1]][k[2]]} \subseteq {m, Unheld}
      BY <1>6, <2>9
    <2>14. store' = store /\ command' = command
      BY <1>2
    <2> QED BY <2>7, <2>11, <2>12, <2>13, <2>14, MigrationKeeps
  <1>7. CASE locks[l[1]][l[2]] # Unheld
    <2>1. Moves(m, Releasing(r.taken)) /\ UNCHANGED locks
      BY <1>7 DEF TakeProjectLock
    <2> QED BY <1>1, <1>2, <2>1, ReleasingKeeps
  <1> QED BY <1>6, <1>7

\* Copying begins once everything is compared and nothing conflicts, and goes on.
LEMMA MigratorHoldsAll ==
  ASSUME HoldInv, NEW m \in Migrators, NEW r2, migration[m].pc \in HasAll \cup {"locking"},
         Taken(migration[m]) = Ends \X migration[m].listed, migration'[m] = r2,
         r2.pc \in HasAll, r2.listed = migration[m].listed, r2.taken = migration[m].taken,
         UNCHANGED locks, Listed("source") \subseteq Listed("source")'
  PROVE  MigratorHolds(m)'
  <1>1. Locked(m)' = Locked(m) /\ Taken(r2) = Taken(migration[m])
    BY DEF Locked, Taken
  <1>2. /\ Locked(m) = Taken(migration[m]) /\ NoTwice(migration[m].taken)
        /\ migration[m].listed \subseteq Listed("source")
    BY MigratorFields DEF MigratorHolds, HasAll
  <1> QED BY <1>1, <1>2 DEF MigratorHolds, HasAll

LEMMA ListAgainKeeps == ASSUME HoldInv, NEW m \in Migrators, ListAgain(m) PROVE HoldInv'
  <1> DEFINE r == migration[m]
             r2 == [r EXCEPT !.pc = "comparing", !.todo = Listed("source")]
  <1>1. /\ r.pc = "locking" /\ Taken(r) = Ends \X r.listed /\ Moves(m, r2)
        /\ UNCHANGED <<store, locks, worldVars, command, mishap>>
    BY DEF ListAgain
  <1>2. IsMigrator(r) /\ mishap \in BOOLEAN /\ MigratorHolds(m) /\ MigratorCopies(m)
    BY MigratorFields
  <1>3. r2 = [r EXCEPT !.pc = "comparing", !.todo = Listed("source")]
    OBVIOUS
  <1> HIDE DEF r, r2
  <1>4. /\ r2.pc = "comparing" /\ r2.listed = r.listed /\ r2.taken = r.taken
        /\ r2.todo = Listed("source") /\ DOMAIN r2.copying = {}
    <2>1. DOMAIN r.copying = {}
      BY <1>1, <1>2 DEF MigratorCopies, r
    <2> QED BY <1>2, <1>3, <2>1 DEF IsMigrator
  <1>5. IsMigrator(r2)
    BY <1>2, <1>3 DEF IsMigrator, Listed
  <1>6. r.listed \subseteq Listed("source")
    BY <1>2 DEF MigratorHolds, r
  <1>7. ASSUME migration'[m] = r2 PROVE MigratorHolds(m)' /\ MigratorCopies(m)'
    <2>1. MigratorHolds(m)'
      BY <1>1, <1>4, <1>7, MigratorHoldsAll DEF r, HasAll, Listed
    <2>2. ASSUME NEW e \in r.listed PROVE Accounted(m, e)'
      BY <1>1, <1>4, <1>6, <1>7, <2>2 DEF Accounted, r
    <2> QED BY <1>4, <1>7, <2>1, <2>2 DEF MigratorCopies, HasAll
  <1> QED BY <1>1, <1>2, <1>5, <1>7, MigratorMovesOn

LEMMA CompareKeeps == ASSUME HoldInv, NEW m \in Migrators, Compare(m) PROVE HoldInv'
  <1> DEFINE r == migration[m]
             e == First(r.todo)
             src == store["source"][e]
             dst == store["destination"][e]
             rest == [r EXCEPT !.todo = r.todo \ {e}]
             more == [f \in DOMAIN r.copying \cup {e} |-> IF f = e THEN src ELSE r.copying[f]]
             r2 == IF src = dst THEN rest
                   ELSE [rest EXCEPT !.copying = more, !.conflict = r.conflict \/ dst.obj # 0]
  <1>1. /\ r.pc = "comparing" /\ r.todo # {} /\ Moves(m, r2)
        /\ UNCHANGED <<store, locks, worldVars, command, mishap>>
    BY DEF Compare
  <1>2. IsMigrator(r) /\ mishap \in BOOLEAN /\ MigratorHolds(m) /\ MigratorCopies(m)
    BY MigratorFields
  <1>3. e \in r.todo /\ e \in Kept
    BY <1>1, <1>2, FirstIsThere DEF IsMigrator
  <1>4. DOMAIN more = DOMAIN r.copying \cup {e} /\ more[e] = src
        /\ \A f \in DOMAIN r.copying : f # e => more[f] = r.copying[f]
    OBVIOUS
  <1>5. \/ src = dst /\ r2 = [r EXCEPT !.todo = r.todo \ {e}]
        \/ src # dst /\ r2 = [r EXCEPT !.todo = r.todo \ {e}, !.copying = more,
                                      !.conflict = r.conflict \/ dst.obj # 0]
    OBVIOUS
  <1> HIDE DEF r, r2, e, src, dst, more
  <1>6. /\ IsMigrator(r2) /\ r2.pc = "comparing" /\ r2.listed = r.listed /\ r2.taken = r.taken
        /\ r2.todo = r.todo \ {e}
        /\ \/ src = dst /\ r2.copying = r.copying /\ r2.conflict = r.conflict
           \/ src # dst /\ r2.copying = more /\ r2.conflict = (r.conflict \/ dst.obj # 0)
    <2>1. CASE src = dst
      BY <1>1, <1>2, <1>5, <2>1 DEF IsMigrator
    <2>2. CASE src # dst
      <3>1. r2 = [r EXCEPT !.todo = r.todo \ {e}, !.copying = more, !.conflict = r.conflict \/ dst.obj # 0]
        BY <1>5, <2>2
      <3>2. /\ r2 = [pc |-> r2.pc, listed |-> r2.listed, taken |-> r2.taken, todo |-> r2.todo,
                     conflict |-> r2.conflict, copying |-> r2.copying, copied |-> r2.copied]
            /\ r2.pc = "comparing" /\ r2.listed = r.listed /\ r2.taken = r.taken
            /\ r2.todo = r.todo \ {e} /\ r2.copying = more /\ r2.copied = r.copied
            /\ r2.conflict = (r.conflict \/ dst.obj # 0)
        BY <1>1, <1>2, <3>1 DEF IsMigrator
      <3>3. IsMigrator(r2)
        BY <1>2, <1>3, <1>4, <3>2 DEF IsMigrator
      <3> QED BY <2>2, <3>2, <3>3
    <2> QED BY <2>1, <2>2
  <1>7. ASSUME migration'[m] = r2 PROVE MigratorHolds(m)' /\ MigratorCopies(m)'
    <2>1. Taken(r) = Ends \X r.listed
      BY <1>1, <1>2 DEF MigratorHolds, HasAll, r
    <2>2. MigratorHolds(m)'
      BY <1>1, <1>6, <1>7, <2>1, MigratorHoldsAll DEF r, HasAll, Listed
    <2>3. ASSUME NEW f \in r.listed PROVE Accounted(m, f)'
      <3>1. Accounted(m, f)
        BY <1>1, <1>2 DEF MigratorCopies, HasAll, r
      <3>2. CASE f = e
        BY <1>1, <1>4, <1>6, <1>7, <3>1, <3>2 DEF Accounted, r, src, dst
      <3>3. CASE f # e
        BY <1>1, <1>4, <1>6, <1>7, <3>1, <3>3 DEF Accounted, r
      <3> QED BY <3>2, <3>3
    <2> QED BY <1>6, <1>7, <2>2, <2>3 DEF MigratorCopies, HasAll
  <1> QED BY <1>1, <1>2, <1>6, <1>7, MigratorMovesOn

LEMMA DecideKeeps == ASSUME HoldInv, NEW m \in Migrators, Decide(m) PROVE HoldInv'
  <1> DEFINE r == migration[m]
             r2 == [r EXCEPT !.pc = "copying"]
  <1>1. /\ r.pc = "comparing" /\ r.todo = {} /\ Moves(m, IF r.conflict THEN Releasing(r.taken) ELSE r2)
        /\ UNCHANGED <<store, locks, worldVars, command, mishap>>
    BY DEF Decide
  <1>2. IsMigrator(r) /\ mishap \in BOOLEAN /\ MigratorHolds(m) /\ MigratorCopies(m)
    BY MigratorFields
  <1>3. CASE r.conflict
    BY <1>1, <1>2, <1>3, ReleasingKeeps
  <1>4. CASE ~r.conflict
    <2>1. r2 = [r EXCEPT !.pc = "copying"] /\ Moves(m, r2)
      BY <1>1, <1>4
    <2> HIDE DEF r, r2
    <2>2. /\ IsMigrator(r2) /\ r2.pc = "copying" /\ r2.listed = r.listed /\ r2.taken = r.taken
          /\ r2.todo = {} /\ r2.copying = r.copying /\ r2.conflict = r.conflict
      BY <1>1, <1>2, <2>1 DEF IsMigrator
    <2>3. ASSUME migration'[m] = r2 PROVE MigratorHolds(m)' /\ MigratorCopies(m)'
      <3>1. Taken(r) = Ends \X r.listed
        BY <1>1, <1>2 DEF MigratorHolds, HasAll, r
      <3>2. MigratorHolds(m)'
        BY <1>1, <2>2, <2>3, <3>1, MigratorHoldsAll DEF r, HasAll, Listed
      <3>3. ASSUME NEW f \in r.listed PROVE Accounted(m, f)'
        <4>1. Accounted(m, f)
          BY <1>1, <1>2 DEF MigratorCopies, HasAll, r
        <4> QED BY <1>1, <1>4, <2>2, <2>3, <4>1 DEF Accounted, r
      <3> QED BY <1>4, <2>2, <2>3, <3>2, <3>3 DEF MigratorCopies, HasAll
    <2> QED BY <1>1, <1>2, <2>1, <2>2, <2>3, MigratorMovesOn
  <1> QED BY <1>3, <1>4

\* The environment that is next to be copied, if there is one; under the lock, one it is about.
LEMMA NextIsThere ==
  ASSUME HoldInv, NEW m \in Migrators, DOMAIN migration[m].copying # {}
  PROVE  /\ NextCopied(m) \in DOMAIN migration[m].copying /\ NextCopied(m) \in Kept
         /\ migration[m].pc \in HasAll /\ locks["destination"][NextCopied(m)] = m
              => NextCopied(m) \in migration[m].listed
  <1>1. DOMAIN migration[m].copying \subseteq Kept
    BY MigratorFields DEF IsMigrator
  <1>2. NextCopied(m) \in DOMAIN migration[m].copying
    BY <1>1, FirstIsThere DEF NextCopied
  <1>3. ASSUME migration[m].pc \in HasAll, locks["destination"][NextCopied(m)] = m
        PROVE  NextCopied(m) \in migration[m].listed
    <2>1. <<"destination", NextCopied(m)>> \in Locked(m)
      BY <1>1, <1>2, <1>3 DEF Locked
    <2>2. Locked(m) = Ends \X migration[m].listed
      BY <1>3, MigratorFields DEF MigratorHolds, HasAll
    <2> QED BY <2>1, <2>2
  <1> QED BY <1>1, <1>2, <1>3

LEMMA StopsKeeps ==
  ASSUME HoldInv, NEW m \in Migrators, migration[m].pc # "dead", Stops(m),
         UNCHANGED <<store, locks, worldVars, command>>
  PROVE  HoldInv'
  <1>1. mishap' \in BOOLEAN
    BY MigratorFields DEF Stops, IsMigrator
  <1>2. Moves(m, Releasing(migration[m].taken))
    BY DEF Stops
  <1> QED BY <1>1, <1>2, ReleasingKeeps

\* The copy that is stored, or lost.
LEMMA PutKeeps ==
  ASSUME HoldInv, NEW m \in Migrators, NEW flag \in BOOLEAN,
         migration[m].pc = "copying", DOMAIN migration[m].copying # {},
         locks["destination"][NextCopied(m)] = m,
         Moves(m, [migration[m] EXCEPT !.pc = "verifying", !.copied = flag]),
         \/ store' = [store EXCEPT !["destination"][NextCopied(m)] = BeingCopied(m)]
         \/ store' = store,
         UNCHANGED <<locks, worldVars, command, mishap>>
  PROVE  HoldInv'
  <1> DEFINE r == migration[m]
             e == NextCopied(m)
             r2 == [r EXCEPT !.pc = "verifying", !.copied = flag]
  <1>1. IsMigrator(r) /\ mishap \in BOOLEAN /\ MigratorHolds(m) /\ MigratorCopies(m)
    BY MigratorFields
  <1>2. e \in DOMAIN r.copying /\ e \in Kept /\ e \in r.listed
    BY NextIsThere DEF HasAll
  <1>3. r.copying[e] = store["source"][e] /\ Accounted(m, e)
    BY <1>1, <1>2 DEF MigratorCopies, HasAll, Accounted
  <1>4. store \in [Ends -> [Kept -> States]]
    BY DEF HoldInv, MigrationTypeOK
  <1>5. BeingCopied(m) = store["source"][e] /\ BeingCopied(m) \in States
    BY <1>2, <1>3, <1>4 DEF BeingCopied
  <1>6. r2 = [r EXCEPT !.pc = "verifying", !.copied = flag]
    OBVIOUS
  <1> HIDE DEF r, r2, e
  <1>7. /\ IsMigrator(r2) /\ r2.pc = "verifying" /\ r2.listed = r.listed /\ r2.taken = r.taken
        /\ r2.todo = r.todo /\ r2.copying = r.copying /\ r2.conflict = r.conflict
    <2>1. /\ r2 = [pc |-> r2.pc, listed |-> r2.listed, taken |-> r2.taken, todo |-> r2.todo,
                   conflict |-> r2.conflict, copying |-> r2.copying, copied |-> r2.copied]
          /\ r2.pc = "verifying" /\ r2.listed = r.listed /\ r2.taken = r.taken
          /\ r2.todo = r.todo /\ r2.copying = r.copying /\ r2.conflict = r.conflict /\ r2.copied = flag
      BY <1>1, <1>6 DEF IsMigrator
    <2> QED BY <1>1, <2>1 DEF IsMigrator
  <1>8. /\ store' \in [Ends -> [Kept -> States]] /\ store'["source"] = store["source"]
        /\ \A f \in Kept : f # e => store'["destination"][f] = store["destination"][f]
        /\ \A f \in Kept : store'["destination"][f] \in {store["destination"][f], store["source"][f]}
    <2>1. CASE store' = store
      BY <1>4, <2>1
    <2>2. CASE store' = [store EXCEPT !["destination"][e] = store["source"][e]]
      <3>1. store["destination"] \in [Kept -> States] /\ store["source"][e] \in States
        BY <1>2, <1>4
      <3>2. store'["destination"] = [store["destination"] EXCEPT ![e] = store["source"][e]]
        BY <1>4, <2>2
      <3>3. store'["source"] = store["source"] /\ store' \in [Ends -> [Kept -> States]]
        BY <1>2, <1>4, <2>2, <3>1
      <3> QED BY <1>2, <3>1, <3>2, <3>3
    <2> QED BY <1>5, <2>1, <2>2 DEF e
  <1>9. /\ MigrationTypeOK' /\ migration'[m] = r2
        /\ \A n \in Migrators : n # m => migration'[n] = migration[n]
    <2>1. /\ Moves(m, r2) /\ mishap' \in BOOLEAN /\ UNCHANGED <<worldVars, command>>
          /\ locks' \in [Ends -> [Kept -> Clients \cup Migrators \cup {Unheld}]]
      BY <1>1 DEF HoldInv, MigrationTypeOK, r, r2
    <2> QED BY <1>7, <1>8, <2>1, MigratorTypes
  <1>10. MigratorHolds(m)'
    <2>1. Taken(r) = Ends \X r.listed
      BY <1>1 DEF MigratorHolds, HasAll, r
    <2>2. Listed("source")' = Listed("source")
      BY <1>8 DEF Listed
    <2> QED BY <1>7, <1>9, <2>1, <2>2, MigratorHoldsAll DEF r, HasAll
  <1>11. NextCopied(m)' = e
    BY <1>7, <1>9 DEF NextCopied, e, r
  <1>12. MigratorCopies(m)'
    <2>1. ASSUME NEW f \in r.listed PROVE Accounted(m, f)'
      <3>1. Accounted(m, f) /\ f \in Kept
        BY <1>1, <2>1 DEF MigratorCopies, HasAll, r, IsMigrator
      <3>2. CASE f = e
        BY <1>2, <1>3, <1>7, <1>8, <1>9, <1>11, <3>2 DEF Accounted, r
      <3>3. CASE f # e
        BY <1>7, <1>8, <1>9, <1>11, <3>1, <3>3 DEF Accounted, r
      <3> QED BY <3>2, <3>3
    <2>2. ~r.conflict
      BY <1>1 DEF MigratorCopies, HasAll, r
    <2> QED BY <1>2, <1>7, <1>9, <1>11, <2>1, <2>2 DEF MigratorCopies, HasAll
  <1>13. \A f \in Kept : locks["destination"][f] # m => store'["destination"][f] = store["destination"][f]
    BY <1>8 DEF e
  <1>14. command' = command /\ locks' = locks
    OBVIOUS
  <1> QED BY <1>8, <1>9, <1>10, <1>12, <1>13, <1>14, MigrationKeeps

LEMMA CopyKeeps == ASSUME HoldInv, NEW m \in Migrators, Copy(m) PROVE HoldInv'
  <1>1. IsMigrator(migration[m])
    BY MigratorFields
  <1>2. /\ migration[m].pc = "copying" /\ DOMAIN migration[m].copying # {}
        /\ UNCHANGED <<locks, worldVars, command>>
    BY DEF Copy
  <1>3. CASE /\ locks["destination"][NextCopied(m)] = m
             /\ store' = [store EXCEPT !["destination"][NextCopied(m)] = BeingCopied(m)]
             /\ Moves(m, [[migration[m] EXCEPT !.pc = "verifying"] EXCEPT !.copied = TRUE])
             /\ UNCHANGED mishap
    <2>1. Moves(m, [migration[m] EXCEPT !.pc = "verifying", !.copied = TRUE])
      BY <1>3
    <2> QED BY <1>2, <1>3, <2>1, PutKeeps
  <1>4. CASE /\ locks["destination"][NextCopied(m)] = m
             /\ Moves(m, [migration[m] EXCEPT !.pc = "verifying"])
             /\ UNCHANGED <<store, mishap>>
    <2>1. PICK r : r = migration[m]
      OBVIOUS
    <2>2. PICK r2 : r2 = [r EXCEPT !.pc = "verifying"]
      OBVIOUS
    <2>3. PICK r3 : r3 = [r EXCEPT !.pc = "verifying", !.copied = r.copied]
      OBVIOUS
    <2>4. r2 = r3
      BY <1>1, <2>1, <2>2, <2>3 DEF IsMigrator
    <2>5. Moves(m, [migration[m] EXCEPT !.pc = "verifying", !.copied = migration[m].copied])
      BY <1>4, <2>1, <2>2, <2>3, <2>4
    <2>6. migration[m].copied \in BOOLEAN
      BY <1>1 DEF IsMigrator
    <2> QED BY <1>2, <1>4, <2>5, <2>6, PutKeeps
  <1>5. CASE Stops(m) /\ UNCHANGED store
    BY <1>2, <1>5, StopsKeeps
  <1> QED BY <1>3, <1>4, <1>5 DEF Copy

LEMMA VerifyKeeps == ASSUME HoldInv, NEW m \in Migrators, Verify(m) PROVE HoldInv'
  <1> DEFINE r == migration[m]
             e == NextCopied(m)
             rest == [f \in DOMAIN r.copying \ {e} |-> r.copying[f]]
             r2 == [r EXCEPT !.pc = "copying", !.copying = rest]
  <1>1. r.pc = "verifying" /\ UNCHANGED <<store, locks, worldVars, command>>
    BY DEF Verify
  <1>2. IsMigrator(r) /\ mishap \in BOOLEAN /\ MigratorHolds(m) /\ MigratorCopies(m)
    BY MigratorFields
  <1>3. e \in DOMAIN r.copying /\ e \in r.listed
    BY <1>1, <1>2, NextIsThere DEF MigratorCopies
  <1>4. CASE store["destination"][e] = BeingCopied(m)
    <2>1. Moves(m, r2) /\ UNCHANGED mishap /\ r2 = [r EXCEPT !.pc = "copying", !.copying = rest]
      BY <1>4 DEF Verify, Copied
    <2>2. DOMAIN rest = DOMAIN r.copying \ {e} /\ \A f \in DOMAIN rest : rest[f] = r.copying[f]
      OBVIOUS
    <2>3. store["destination"][e] = r.copying[e]
      BY <1>4 DEF BeingCopied
    <2> HIDE DEF r, r2, rest, e
    <2>4. /\ r2 = [pc |-> r2.pc, listed |-> r2.listed, taken |-> r2.taken, todo |-> r2.todo,
                   conflict |-> r2.conflict, copying |-> r2.copying, copied |-> r2.copied]
          /\ r2.pc = "copying" /\ r2.listed = r.listed /\ r2.taken = r.taken
          /\ r2.todo = r.todo /\ r2.copying = rest /\ r2.conflict = r.conflict /\ r2.copied = r.copied
      BY <1>2, <2>1 DEF IsMigrator
    <2>5. IsMigrator(r2)
      BY <1>2, <2>2, <2>4 DEF IsMigrator
    <2>6. ASSUME migration'[m] = r2 PROVE MigratorHolds(m)' /\ MigratorCopies(m)'
      <3>1. Taken(r) = Ends \X r.listed
        BY <1>1, <1>2 DEF MigratorHolds, HasAll, r
      <3>2. MigratorHolds(m)'
        BY <1>1, <2>4, <2>6, <3>1, MigratorHoldsAll DEF r, HasAll, Listed
      <3>3. ~r.conflict
        BY <1>1, <1>2 DEF MigratorCopies, HasAll, r
      <3>4. ASSUME NEW f \in r.listed PROVE Accounted(m, f)'
        <4>1. Accounted(m, f)
          BY <1>1, <1>2 DEF MigratorCopies, HasAll, r
        <4>2. CASE f = e
          BY <1>1, <1>3, <2>2, <2>3, <2>4, <2>6, <4>1, <4>2 DEF Accounted, r
        <4>3. CASE f # e
          BY <1>1, <2>2, <2>4, <2>6, <3>3, <4>1, <4>3 DEF Accounted, r, e
        <4> QED BY <4>2, <4>3
      <3> QED BY <2>4, <2>6, <3>2, <3>3, <3>4 DEF MigratorCopies, HasAll
    <2>7. mishap' \in BOOLEAN
      BY <1>2, <2>1
    <2> QED BY <1>1, <2>1, <2>5, <2>6, <2>7, MigratorMovesOn
  <1>5. CASE store["destination"][e] # BeingCopied(m)
    BY <1>1, <1>5, StopsKeeps DEF Verify
  <1> QED BY <1>4, <1>5

LEMMA SucceedKeeps == ASSUME HoldInv, NEW m \in Migrators, Succeed(m) PROVE HoldInv'
  <1> DEFINE r == migration[m]
             r2 == [r EXCEPT !.pc = "succeeded"]
  <1>1. /\ r.pc = "copying" /\ DOMAIN r.copying = {} /\ Moves(m, r2)
        /\ UNCHANGED <<store, locks, worldVars, command, mishap>>
        /\ r2 = [r EXCEPT !.pc = "succeeded"]
    BY DEF Succeed
  <1>2. IsMigrator(r) /\ mishap \in BOOLEAN /\ MigratorHolds(m) /\ MigratorCopies(m)
    BY MigratorFields
  <1> HIDE DEF r, r2
  <1>3. /\ IsMigrator(r2) /\ r2.pc = "succeeded" /\ r2.listed = r.listed /\ r2.taken = r.taken
        /\ r2.todo = r.todo /\ r2.copying = r.copying /\ r2.conflict = r.conflict
    BY <1>1, <1>2 DEF IsMigrator
  <1>4. ASSUME migration'[m] = r2 PROVE MigratorHolds(m)' /\ MigratorCopies(m)'
    <2>1. Taken(r) = Ends \X r.listed
      BY <1>1, <1>2 DEF MigratorHolds, HasAll, r
    <2>2. MigratorHolds(m)'
      BY <1>1, <1>3, <1>4, <2>1, MigratorHoldsAll DEF r, HasAll, Listed
    <2>3. ASSUME NEW f \in r.listed PROVE Accounted(m, f)'
      <3>1. Accounted(m, f)
        BY <1>1, <1>2 DEF MigratorCopies, HasAll, r
      <3> QED BY <1>1, <1>3, <1>4, <3>1 DEF Accounted, r
    <2>4. ~r.conflict
      BY <1>1, <1>2 DEF MigratorCopies, HasAll, r
    <2> QED BY <1>1, <1>3, <1>4, <2>2, <2>3, <2>4 DEF MigratorCopies, HasAll
  <1> QED BY <1>1, <1>2, <1>3, <1>4, MigratorMovesOn

\* A migrator with no locks left, or whose process is gone.
LEMMA LeavesKeeps ==
  ASSUME HoldInv, NEW m \in Migrators, NEW r2, Moves(m, r2),
         \/ r2 = NotMigrating /\ Locked(m) = {}
         \/ r2 = [NotMigrating EXCEPT !.pc = "dead"],
         UNCHANGED <<store, locks, worldVars, command>>, mishap' \in BOOLEAN
  PROVE  HoldInv'
  <1>1. /\ IsMigrator(r2) /\ r2.pc \in {"off", "dead"} /\ r2.listed = {} /\ r2.taken = <<>>
        /\ r2 = [NotMigrating EXCEPT !.pc = r2.pc]
    BY IdleFields
  <1>2. r2.pc # "dead" => Locked(m) = {}
    <2>1. CASE r2 = [NotMigrating EXCEPT !.pc = "dead"]
      BY <2>1 DEF NotMigrating
    <2> QED BY <2>1
  <1>3. Taken(r2) = {} /\ NoTwice(r2.taken)
    BY <1>1 DEF Taken, NoTwice
  <1>4. ASSUME migration'[m] = r2 PROVE MigratorHolds(m)' /\ MigratorCopies(m)'
    <2>1. Locked(m)' = Locked(m)
      BY DEF Locked
    <2>2. MigratorHolds(m)'
      BY <1>1, <1>2, <1>3, <1>4, <2>1 DEF MigratorHolds, HasAll
    <2>3. MigratorCopies(m)'
      BY <1>1, <1>4 DEF MigratorCopies, HasAll
    <2> QED BY <2>2, <2>3
  <1> QED BY <1>1, <1>4, MigratorMovesOn

LEMMA CrashKeeps == ASSUME HoldInv, NEW m \in Migrators, CrashMigration(m) PROVE HoldInv'
  <1>1. mishap' \in BOOLEAN
    BY MigratorFields DEF CrashMigration, IsMigrator
  <1> QED BY <1>1, LeavesKeeps DEF CrashMigration

LEMMA ReleaseLockKeeps == ASSUME HoldInv, NEW m \in Migrators, ReleaseLock(m) PROVE HoldInv'
  <1> DEFINE r == migration[m]
             l == r.taken[Len(r.taken)]
             fewer == SubSeq(r.taken, 1, Len(r.taken) - 1)
             r2 == Releasing(fewer)
  <1>1. r.pc \in {"releasing", "succeeded"} /\ UNCHANGED <<store, worldVars, command, mishap>>
    BY DEF ReleaseLock
  <1>2. IsMigrator(r) /\ mishap \in BOOLEAN /\ Locked(m) = Taken(r) /\ NoTwice(r.taken)
        /\ r.taken \in Seq(Locks)
    BY <1>1, MigratorFields DEF MigratorHolds, IsMigrator
  <1>3. CASE r.taken = <<>>
    <2>1. Taken(r) = {}
      BY <1>3 DEF Taken
    <2> QED BY <1>1, <1>2, <1>3, <2>1, LeavesKeeps DEF ReleaseLock
  <1>4. CASE r.taken # <<>>
    <2>1. locks' = [locks EXCEPT ![l[1]][l[2]] = Unheld] /\ Moves(m, r2)
      BY <1>4 DEF ReleaseLock
    <2>2. r2 = Releasing(fewer) /\ r2.taken = fewer /\ l = r.taken[Len(r.taken)]
          /\ fewer = SubSeq(r.taken, 1, Len(r.taken) - 1)
      BY DEF Releasing, NotMigrating
    <2> HIDE DEF r, r2, l, fewer
    <2>3. l \in Taken(r) /\ l \in Locks /\ Taken(r2) = Taken(r) \ {l}
          /\ NoTwice(r2.taken) /\ r2.taken \in Seq(Locks)
      BY <1>2, <1>4, <2>2, TakenLess
    <2>4. fewer \in Seq(Locks) /\ NoTwice(fewer)
      BY <2>2, <2>3
    <2>5. /\ IsMigrator(r2) /\ r2.pc = "releasing" /\ r2.listed = {} /\ r2.taken = fewer
      BY <2>2, <2>4, ReleasingFields
    <2>6. Taken(r2) = Taken(r) \ {l}
      BY <2>3
    <2>7. l[1] \in Ends /\ l[2] \in Kept /\ l = <<l[1], l[2]>> /\ locks[l[1]][l[2]] = m
      BY <1>2, <2>3 DEF Locks, Locked
    <2>8. locks \in [Ends -> [Kept -> Clients \cup Migrators \cup {Unheld}]]
          /\ store \in [Ends -> [Kept -> States]]
      BY DEF HoldInv, MigrationTypeOK
    <2>9. locks' \in [Ends -> [Kept -> Clients \cup Migrators \cup {Unheld}]]
      BY <2>1, <2>7, <2>8
    <2>10. /\ MigrationTypeOK' /\ migration'[m] = r2
           /\ \A n \in Migrators : n # m => migration'[n] = migration[n]
      BY <1>1, <1>2, <2>1, <2>5, <2>8, <2>9, MigratorTypes
    <2>11. \A end \in Ends, e \in Kept :
              locks'[end][e] = IF end = l[1] /\ e = l[2] THEN Unheld ELSE locks[end][e]
      BY <2>1, <2>7, <2>8
    <2>12. \A k \in Locks : locks'[k[1]][k[2]] = IF k = l THEN Unheld ELSE locks[k[1]][k[2]]
      BY <2>7, <2>11 DEF Locks
    <2>13. Locked(m)' = Locked(m) \ {l}
      BY <2>12 DEF Locked, Locks
    <2>14. MigratorHolds(m)'
      BY <1>2, <2>2, <2>3, <2>4, <2>5, <2>6, <2>10, <2>13 DEF MigratorHolds, HasAll, r
    <2>15. MigratorCopies(m)'
      BY <2>5, <2>10 DEF MigratorCopies, HasAll
    <2>16. \A k \in Locks : \/ locks'[k[1]][k[2]] = locks[k[1]][k[2]]
                            \/ {locks[k[1]][k[2]], locks'[k[1]][k[2]]} \subseteq {m, Unheld}
      BY <2>7, <2>12
    <2>17. store' = store /\ command' = command
      BY <1>1
    <2> QED BY <2>10, <2>14, <2>15, <2>16, <2>17, MigrationKeeps
  <1> QED BY <1>3, <1>4

LEMMA MigrationStepKeeps == ASSUME HoldInv, NEW m \in Migrators, MigrationStep(m) PROVE HoldInv'
  BY ListSourceKeeps, TakeProjectLockKeeps, ListAgainKeeps, CompareKeeps, DecideKeeps, CopyKeeps,
     VerifyKeeps, SucceedKeeps, ReleaseLockKeeps, CrashKeeps DEF MigrationStep

\* Only the locks of a migrator that is gone are broken.
LEMMA UnlockDeadKeeps ==
  ASSUME HoldInv, NEW end \in Ends, NEW e \in Kept, UnlockDead(end, e) PROVE HoldInv'
  <1> DEFINE m == locks[end][e]
  <1>1. /\ m \in Migrators /\ migration[m].pc = "dead" /\ locks' = [locks EXCEPT ![end][e] = Unheld]
        /\ UNCHANGED <<store, live, made, command, migration, mishap>>
    BY DEF UnlockDead, worldVars
  <1>2. locks \in [Ends -> [Kept -> Clients \cup Migrators \cup {Unheld}]]
    BY DEF HoldInv, MigrationTypeOK
  <1>3. \A d \in Ends, f \in Kept :
           locks'[d][f] = IF d = end /\ f = e THEN Unheld ELSE locks[d][f]
    BY <1>1, <1>2
  <1>4. locks' \in [Ends -> [Kept -> Clients \cup Migrators \cup {Unheld}]]
    BY <1>1, <1>2
  <1>5. MigrationTypeOK'
    BY <1>1, <1>4 DEF HoldInv, MigrationTypeOK
  <1>6. ASSUME NEW n \in Migrators PROVE MigratorHolds(n)' /\ MigratorCopies(n)'
    <2>1. CASE n = m
      <3>1. migration'[n] = migration[n] /\ migration[n].pc = "dead"
        BY <1>1, <2>1
      <3>2. Listed("source")' = Listed("source")
        BY <1>1 DEF Listed
      <3> QED BY <3>1, <3>2, MigratorFields DEF MigratorHolds, MigratorCopies, HasAll
    <2>2. CASE n # m
      <3>1. ASSUME NEW l \in Locks PROVE locks'[l[1]][l[2]] = n <=> locks[l[1]][l[2]] = n
        <4> HIDE DEF m
        <4>1. l[1] \in Ends /\ l[2] \in Kept
          BY DEF Locks
        <4>2. locks'[l[1]][l[2]] = IF l[1] = end /\ l[2] = e THEN Unheld ELSE locks[l[1]][l[2]]
          BY <1>3, <4>1
        <4>3. n # Unheld /\ locks[end][e] # n
          BY <2>2 DEF m
        <4> QED BY <4>2, <4>3
      <3> QED BY <1>1, <1>5, <3>1, MigratorFrame
    <2> QED BY <2>1, <2>2
  <1>7. ASSUME NEW c \in Clients PROVE CommandHolds(c)'
    <2>1. \A l \in Locks : locks[l[1]][l[2]] = c => locks'[l[1]][l[2]] = c
      BY <1>1, <1>3 DEF Locks
    <2> QED BY <1>1, <2>1, CommandFrame
  <1> QED BY <1>5, <1>6, <1>7 DEF HoldInv

LEMMA HoldInvInit == MigrationInit => HoldInv
  <1> SUFFICES ASSUME MigrationInit PROVE HoldInv
    OBVIOUS
  <1>1. Missing \in States /\ Emptied \in States /\ Holding(1) \in States
    BY DEF Missing, Emptied, Holding, States
  <1>2. store \in [Ends -> [Kept -> States]]
    BY <1>1 DEF MigrationInit
  <1>3. locks = [end \in Ends |-> [e \in Kept |-> Unheld]] /\ command = [c \in Clients |-> Idle]
        /\ migration = [m \in Migrators |-> NotMigrating] /\ mishap = FALSE
    BY DEF MigrationInit
  <1>4. live \in [Kept -> SUBSET (Nat \ {0})]
    <2>1. live = [e \in Kept |-> {store["source"][e].obj} \ {0}]
      BY DEF MigrationInit
    <2>2. \A e \in Kept : store["source"][e] \in States
      BY <1>2
    <2>3. \A e \in Kept : store["source"][e].obj \in Nat
      BY <2>2 DEF States
    <2> QED BY <2>1, <2>3
  <1>5. made \in [Kept -> Nat]
    <2>1. made = [e \in Kept |-> Cardinality(live[e])]
          /\ live = [e \in Kept |-> {store["source"][e].obj} \ {0}]
      BY DEF MigrationInit
    <2>2. ASSUME NEW e \in Kept PROVE Cardinality(live[e]) \in Nat
      <3>1. IsFiniteSet({store["source"][e].obj})
        BY FS_Singleton
      <3>2. IsFiniteSet({store["source"][e].obj} \ {0})
        BY <3>1, FS_Subset
      <3> QED BY <2>1, <3>2, FS_CardinalityType
    <2> QED BY <2>1, <2>2
  <1>6. /\ IsMigrator(NotMigrating) /\ NotMigrating.pc = "off" /\ NotMigrating.listed = {}
        /\ NotMigrating.taken = <<>> /\ NotMigrating = [NotMigrating EXCEPT !.pc = "off"]
    <2>1. NotMigrating.pc = "off"
      BY DEF NotMigrating
    <2> QED BY <2>1, IdleFields
  <1>7. MigrationTypeOK
    BY <1>2, <1>3, <1>4, <1>5, <1>6 DEF MigrationTypeOK, Idle
  <1>8. ASSUME NEW c \in Clients PROVE CommandHolds(c)
    BY <1>3 DEF CommandHolds, Idle
  <1>9. ASSUME NEW m \in Migrators PROVE MigratorHolds(m) /\ MigratorCopies(m)
    <2>1. migration[m] = NotMigrating
      BY <1>3
    <2>2. Locked(m) = {}
      BY <1>3 DEF Locked
    <2>3. Taken(NotMigrating) = {} /\ NoTwice(NotMigrating.taken)
      BY <1>6 DEF Taken, NoTwice
    <2>4. MigratorHolds(m)
      BY <1>6, <2>1, <2>2, <2>3 DEF MigratorHolds, HasAll
    <2> QED BY <1>6, <2>1, <2>4 DEF MigratorCopies, HasAll
  <1> QED BY <1>7, <1>8, <1>9 DEF HoldInv

LEMMA HoldInvNext == HoldInv /\ [MigrationNext]_migrationVars => HoldInv'
  <1> SUFFICES ASSUME HoldInv, [MigrationNext]_migrationVars PROVE HoldInv'
    OBVIOUS
  <1>1. CASE MigrationNext
    BY <1>1, CommandStepKeeps, MigrationStepKeeps, UnlockDeadKeeps DEF MigrationNext
  <1>2. CASE UNCHANGED migrationVars
    BY <1>2 DEF migrationVars, worldVars, HoldInv, MigrationTypeOK, CommandHolds, MigratorHolds,
       MigratorCopies, Accounted, NextCopied, Locked, Listed, EndOf
  <1> QED BY <1>1, <1>2

(***************************************************************************)
(* A migration that reports success has left at the destination what the   *)
(* source holds, for every environment it listed; and a migrator that did  *)
(* not die holds exactly the locks it is still going to release.           *)
(***************************************************************************)
THEOREM MigrationHonest == MigrationSpec => []MigrationIsHonest
  <1>1. HoldInv => MigrationIsHonest
    <2> SUFFICES ASSUME HoldInv PROVE MigrationIsHonest
      OBVIOUS
    <2>1. SuccessIsFaithful
      <3> SUFFICES ASSUME NEW m \in Migrators, migration[m].pc = "succeeded",
                          NEW e \in migration[m].listed
                   PROVE  store["destination"][e] = store["source"][e]
        BY DEF SuccessIsFaithful
      <3>1. Accounted(m, e) /\ DOMAIN migration[m].copying = {}
        BY MigratorFields DEF MigratorCopies, HasAll
      <3> QED BY <3>1 DEF Accounted
    <2>2. LocksAreAccounted
      BY MigratorFields DEF LocksAreAccounted, MigratorHolds
    <2> QED BY <2>1, <2>2 DEF MigrationIsHonest
  <1> QED BY <1>1, HoldInvInit, HoldInvNext, PTL DEF MigrationSpec

(***************************************************************************)
(* What is copied lands only where no object is recorded, whatever ran     *)
(* between the comparison and the copy.                                    *)
(***************************************************************************)
THEOREM CopiesOverNothing == MigrationSpec => OverwritesNothing
  <1>1. HoldInv /\ [MigrationNext]_migrationVars =>
          [\A m \in Migrators : Copy(m) =>
             store["destination"][NextCopied(m)].obj = 0 \/ UNCHANGED store]_migrationVars
    <2> SUFFICES ASSUME HoldInv, NEW m \in Migrators, Copy(m)
                 PROVE  store["destination"][NextCopied(m)].obj = 0 \/ UNCHANGED store
      OBVIOUS
    <2>1. /\ migration[m].pc = "copying" /\ DOMAIN migration[m].copying # {}
          /\ UNCHANGED store \/ locks["destination"][NextCopied(m)] = m
      BY DEF Copy
    <2>2. CASE locks["destination"][NextCopied(m)] = m
      <3>1. NextCopied(m) \in DOMAIN migration[m].copying /\ NextCopied(m) \in migration[m].listed
        BY <2>1, <2>2, NextIsThere DEF HasAll
      <3>2. Accounted(m, NextCopied(m)) /\ ~migration[m].conflict
        BY <2>1, <3>1, MigratorFields DEF MigratorCopies, HasAll
      <3> QED BY <2>1, <3>1, <3>2 DEF Accounted
    <2> QED BY <2>1, <2>2
  <1> QED BY <1>1, HoldInvInit, HoldInvNext, PTL DEF MigrationSpec, OverwritesNothing


-----------------------------------------------------------------------------
(***************************************************************************)
(* No object is created twice.  What only the source knows of keeps the    *)
(* guard closed, or is under the destination's lock of a migrator that is  *)
(* on its way to copy it; so a command that gets as far as creating finds  *)
(* the object recorded.                                                    *)
(***************************************************************************)
\* An object only the source knows of.
Unmigrated(e) == 1 \in live[e] /\ store["destination"][e].obj # 1

\* The destination passes for the project's state.
Opened == \/ HoldsState("destination")
          \/ \E c \in Clients \ Stale : command[c].pc \in {"ready", "locked"}

Protects(m, e) ==
  /\ migration[m].pc \in {"copying", "verifying"} /\ migration[m].copied
  /\ e \in DOMAIN migration[m].copying /\ locks["destination"][e] = m

Single ==
  /\ \A e \in Kept :
       /\ store["source"][e].obj \in {0, 1}
       /\ store["source"][e].obj # 0 => store["source"][e].file
       /\ live[e] \subseteq {1, store["destination"][e].obj}
       /\ Unmigrated(e) => store["destination"][e].obj = 0 /\ store["source"][e].obj = 1
       /\ Opened /\ Unmigrated(e) => \E m \in Migrators : Protects(m, e)
  /\ \A m \in Migrators, e \in Kept :
       migration[m].pc \in HasAll \cup {"locking"} /\ store["source"][e].obj # 0
         => e \in migration[m].listed

MigrationInv == HoldInv /\ (mishap \/ Single)

\* Steps after which every environment has the objects it had, recorded where they were.
LEMMA QuietSingle ==
  ASSUME Single, UNCHANGED live,
         \A end \in Ends, e \in Kept : /\ store'[end][e].obj = store[end][e].obj
                                       /\ store'[end][e].file = store[end][e].file,
         Opened' => Opened \/ ~HoldsState("source"),
         \A m \in Migrators, e \in Kept : Unmigrated(e) /\ Protects(m, e) => Protects(m, e)',
         \A m \in Migrators : migration'[m].pc \in HasAll \cup {"locking"} =>
           \/ migration'[m].listed = Listed("source")
           \/ /\ migration[m].pc \in HasAll \cup {"locking"}
              /\ migration'[m].listed = migration[m].listed
  PROVE  Single'
  <1>1. ASSUME NEW e \in Kept
        PROVE  /\ store'["source"][e].obj \in {0, 1}
               /\ store'["source"][e].obj # 0 => store'["source"][e].file
               /\ live'[e] \subseteq {1, store'["destination"][e].obj}
               /\ Unmigrated(e)' => store'["destination"][e].obj = 0 /\ store'["source"][e].obj = 1
               /\ Opened' /\ Unmigrated(e)' => \E m \in Migrators : Protects(m, e)'
    <2>1. /\ store'["source"][e].obj = store["source"][e].obj
          /\ store'["source"][e].file = store["source"][e].file
          /\ store'["destination"][e].obj = store["destination"][e].obj
      OBVIOUS
    <2>2. Unmigrated(e)' <=> Unmigrated(e)
      BY <2>1 DEF Unmigrated
    <2>3. Unmigrated(e) => HoldsState("source")
      BY DEF Single, HoldsState, Listed
    <2>4. ASSUME Opened', Unmigrated(e)' PROVE \E m \in Migrators : Protects(m, e)'
      <3>1. PICK m \in Migrators : Protects(m, e)
        BY <2>2, <2>3, <2>4 DEF Single
      <3> QED BY <2>2, <2>4, <3>1
    <2>5. /\ store["source"][e].obj \in {0, 1}
          /\ store["source"][e].obj # 0 => store["source"][e].file
          /\ live[e] \subseteq {1, store["destination"][e].obj}
          /\ Unmigrated(e) => store["destination"][e].obj = 0 /\ store["source"][e].obj = 1
      BY DEF Single
    <2> QED BY <2>1, <2>2, <2>4, <2>5
  <1>2. ASSUME NEW m \in Migrators, NEW e \in Kept,
               migration'[m].pc \in HasAll \cup {"locking"}, store'["source"][e].obj # 0
        PROVE  e \in migration'[m].listed
    <2>1. store["source"][e].obj # 0
      BY <1>2
    <2>2. e \in Listed("source")
      BY <2>1 DEF Single, Listed
    <2>3. migration[m].pc \in HasAll \cup {"locking"} => e \in migration[m].listed
      BY <2>1 DEF Single
    <2> QED BY <1>2, <2>2, <2>3
  <1>3. HasAll' = HasAll
    BY DEF HasAll
  <1> QED BY <1>1, <1>2, <1>3 DEF Single

LEMMA HoldsStateSame ==
  ASSUME \A end \in Ends, e \in Kept : /\ store'[end][e].obj = store[end][e].obj
                                       /\ store'[end][e].file = store[end][e].file
  PROVE  HoldsState("destination")' <=> HoldsState("destination")
  BY DEF HoldsState, Listed

\* A command that leaves the objects alone, and gets ready only where the guard may let it.
LEMMA CommandQuiet ==
  ASSUME HoldInv, Single, NEW c \in Clients, UNCHANGED <<live, migration>>,
         \A d \in Clients : d # c => command'[d] = command[d],
         \A end \in Ends, e \in Kept : /\ store'[end][e].obj = store[end][e].obj
                                       /\ store'[end][e].file = store[end][e].file,
         \A e \in Kept : \/ locks'["destination"][e] = locks["destination"][e]
                         \/ locks["destination"][e] \in {c, Unheld},
         c \in Stale \/ command'[c].pc \notin {"ready", "locked"} \/ Opened \/ ~HoldsState("source")
  PROVE  Single'
  <1>1. Opened' => Opened \/ ~HoldsState("source")
    <2>1. HoldsState("destination")' <=> HoldsState("destination")
      BY HoldsStateSame
    <2> QED BY <2>1 DEF Opened
  <1>2. \A m \in Migrators : m # c /\ m # Unheld
    OBVIOUS
  <1>3. \A m \in Migrators, e \in Kept : Protects(m, e) => Protects(m, e)'
    BY <1>2 DEF Protects
  <1> QED BY <1>1, <1>3, QuietSingle

LEMMA Moved ==
  ASSUME HoldInv, NEW m \in Migrators, NEW r2, Moves(m, r2)
  PROVE  /\ migration'[m] = r2
         /\ \A n \in Migrators : n # m => migration'[n] = migration[n]
  BY DEF HoldInv, MigrationTypeOK, Moves

\* A migrator that keeps what it protects, and what it is about.
LEMMA MigratorQuiet ==
  ASSUME HoldInv, Single, NEW m \in Migrators, UNCHANGED <<store, live, command>>,
         \A n \in Migrators : n # m => migration'[n] = migration[n],
         \A e \in Kept : \/ locks'["destination"][e] = locks["destination"][e]
                         \/ locks["destination"][e] \in {m, Unheld},
         \A e \in Kept : Unmigrated(e) /\ Protects(m, e) => Protects(m, e)',
         migration'[m].pc \in HasAll \cup {"locking"} =>
           \/ migration'[m].listed = Listed("source")
           \/ /\ migration[m].pc \in HasAll \cup {"locking"}
              /\ migration'[m].listed = migration[m].listed
  PROVE  Single'
  <1>1. Opened' => Opened
    BY DEF Opened, HoldsState, Listed
  <1>2. \A n \in Migrators, e \in Kept : n # m /\ Protects(n, e) => Protects(n, e)'
    BY DEF Protects
  <1>3. store' = store /\ live' = live
    OBVIOUS
  <1> QED BY <1>1, <1>2, <1>3, QuietSingle


\* Before the lock is asked for.
LEMMA GuardSingle ==
  ASSUME HoldInv, Single, NEW c \in Clients, Begin(c) \/ LookAtDestination(c) \/ LookAtSource(c),
         ~mishap'
  PROVE  Single'
  <1>1. /\ UNCHANGED <<store, locks, live, migration>>
        /\ \A d \in Clients : d # c => command'[d] = command[d]
    BY DEF Begin, LookAtDestination, LookAtSource, worldVars, HoldInv, MigrationTypeOK
  <1>2. c \in Stale \/ command'[c].pc \notin {"ready", "locked"} \/ Opened \/ ~HoldsState("source")
    <2>1. CASE Begin(c)
      <3>1. PICK e \in Works[c] :
              command' = [command EXCEPT ![c] = [pc |-> IF c \in Stale THEN "ready" ELSE "guard", env |-> e]]
        BY <2>1 DEF Begin
      <3>2. command'[c].pc = IF c \in Stale THEN "ready" ELSE "guard"
        BY <3>1 DEF HoldInv, MigrationTypeOK
      <3> QED BY <3>2
    <2>2. CASE LookAtDestination(c)
      <3>1. command' = [command EXCEPT ![c].pc = IF HoldsState("destination") THEN "ready" ELSE "guard_source"]
        BY <2>2 DEF LookAtDestination
      <3>2. command'[c].pc = IF HoldsState("destination") THEN "ready" ELSE "guard_source"
        BY <3>1 DEF HoldInv, MigrationTypeOK
      <3> QED BY <3>2 DEF Opened
    <2>3. CASE LookAtSource(c)
      <3>1. ~HoldsState("source") \/ command' = [command EXCEPT ![c] = Idle]
        BY <2>3 DEF LookAtSource
      <3>2. ~HoldsState("source") \/ command'[c].pc = "off"
        BY <3>1 DEF HoldInv, MigrationTypeOK, Idle
      <3> QED BY <3>2
    <2> QED BY <2>1, <2>2, <2>3
  <1> QED BY <1>1, <1>2, CommandQuiet

LEMMA LockEnvSingle ==
  ASSUME HoldInv, Single, NEW c \in Clients, LockEnv(c) PROVE Single'
  <1> DEFINE e == command[c].env
  <1>1. /\ UNCHANGED <<store, live, migration>> /\ command[c].pc = "ready" /\ e \in Kept
        /\ \A d \in Clients : d # c => command'[d] = command[d]
    BY EnvIsKept DEF LockEnv, worldVars, HoldInv, MigrationTypeOK
  <1>2. \A f \in Kept : \/ locks'["destination"][f] = locks["destination"][f]
                        \/ locks["destination"][f] \in {c, Unheld}
    <2>1. locks \in [Ends -> [Kept -> Clients \cup Migrators \cup {Unheld}]] /\ EndOf(c) \in Ends
      BY DEF HoldInv, MigrationTypeOK, EndOf
    <2>2. \/ locks' = locks
          \/ locks' = [locks EXCEPT ![EndOf(c)][e] = c] /\ locks[EndOf(c)][e] = Unheld
      BY DEF LockEnv
    <2> HIDE DEF e
    <2> QED BY <1>1, <2>1, <2>2
  <1>3. c \in Stale \/ Opened
    BY <1>1 DEF Opened
  <1> QED BY <1>1, <1>2, <1>3, CommandQuiet

\* The work of a run lets go of its own lock, and of nobody else's.
LEMMA UnlocksOwn ==
  ASSUME HoldInv, NEW c \in Clients, command[c].pc = "locked", Unlocks(c)
  PROVE  /\ \A d \in Clients : d # c => command'[d] = command[d]
         /\ command'[c].pc = "off"
         /\ \A f \in Kept : \/ locks'["destination"][f] = locks["destination"][f]
                            \/ locks["destination"][f] = c
  <1> DEFINE e == command[c].env
  <1>1. e \in Kept /\ EndOf(c) \in Ends /\ locks[EndOf(c)][e] = c
    BY WorkPlace
  <1>2. locks' = [locks EXCEPT ![EndOf(c)][e] = Unheld] /\ command' = [command EXCEPT ![c] = Idle]
    BY DEF Unlocks
  <1>3. locks \in [Ends -> [Kept -> Clients \cup Migrators \cup {Unheld}]]
    BY DEF HoldInv, MigrationTypeOK
  <1>4. /\ \A d \in Clients : d # c => command'[d] = command[d]
        /\ command'[c].pc = "off"
    BY <1>2 DEF HoldInv, MigrationTypeOK, Idle
  <1> HIDE DEF e
  <1> QED BY <1>1, <1>2, <1>3, <1>4

\* What a run writes, and where.
LEMMA WritesThere ==
  ASSUME HoldInv, NEW c \in Clients, command[c].pc = "locked", NEW st, Writes(c, st)
  PROVE  /\ store'[EndOf(c)][command[c].env] = st
         /\ \A end \in Ends, f \in Kept :
              end # EndOf(c) \/ f # command[c].env => store'[end][f] = store[end][f]
  <1> DEFINE e == command[c].env
  <1>1. e \in Kept /\ EndOf(c) \in Ends
    BY WorkPlace
  <1>2. store \in [Ends -> [Kept -> States]] /\ store' = [store EXCEPT ![EndOf(c)][e] = st]
    BY DEF HoldInv, MigrationTypeOK, Writes
  <1> HIDE DEF e
  <1>3. store'[EndOf(c)] = [store[EndOf(c)] EXCEPT ![e] = st] /\ store[EndOf(c)] \in [Kept -> States]
    BY <1>1, <1>2
  <1>4. \A end \in Ends : end # EndOf(c) => store'[end] = store[end]
    BY <1>1, <1>2
  <1>5. \A f \in Kept : f # e => store'[EndOf(c)][f] = store[EndOf(c)][f]
    BY <1>3
  <1>6. store'[EndOf(c)][e] = st
    BY <1>1, <1>3
  <1>7. ASSUME NEW end \in Ends, NEW f \in Kept, end # EndOf(c) \/ f # e
        PROVE  store'[end][f] = store[end][f]
    BY <1>4, <1>5, <1>7
  <1> QED BY <1>6, <1>7 DEF e

LEMMA NothingToDoSingle ==
  ASSUME HoldInv, Single, NEW c \in Clients, NothingToDo(c) PROVE Single'
  <1>1. command[c].pc = "locked" /\ Unlocks(c) /\ UNCHANGED <<store, live, migration>>
    BY DEF NothingToDo, worldVars
  <1> QED BY <1>1, UnlocksOwn, CommandQuiet

LEMMA ApplyUpdatesSingle ==
  ASSUME HoldInv, Single, NEW c \in Clients, ApplyUpdates(c) PROVE Single'
  <1> DEFINE st == store[EndOf(c)][command[c].env]
             new == [st EXCEPT !.ver = 1 - st.ver]
  <1>1. command[c].pc = "locked" /\ Writes(c, new) /\ Unlocks(c) /\ UNCHANGED <<live, migration>>
    BY DEF ApplyUpdates, worldVars, Writes
  <1>2. st \in States
    BY <1>1, WorkPlace
  <1>3. new.file = st.file /\ new.obj = st.obj
    <2> HIDE DEF st
    <2> QED BY <1>2 DEF States, new
  <1> HIDE DEF new
  <1>4. \A end \in Ends, e \in Kept : /\ store'[end][e].obj = store[end][e].obj
                                      /\ store'[end][e].file = store[end][e].file
    BY <1>1, <1>3, WritesThere
  <1> QED BY <1>1, <1>4, UnlocksOwn, CommandQuiet


\* One environment's objects change; of the others everything stays as it was.
LEMMA WorkSingle ==
  ASSUME HoldInv, Single, NEW c \in Clients, command[c].pc = "locked", NEW st, Writes(c, st),
         \A f \in Kept : f # command[c].env => live'[f] = live[f],
         Opened' => Opened,
         1 \in live'[command[c].env] => store'["destination"][command[c].env].obj = 1,
         EndOf(c) = "source" => st.obj = 0,
         live'[command[c].env] \subseteq {1, store'["destination"][command[c].env].obj}
  PROVE  Single'
  <1> DEFINE e == command[c].env
  <1>1. /\ store'[EndOf(c)][e] = st /\ e \in Kept /\ EndOf(c) \in Ends
        /\ \A end \in Ends, f \in Kept : end # EndOf(c) \/ f # e => store'[end][f] = store[end][f]
    BY WritesThere, WorkPlace
  <1>2. UNCHANGED migration /\ Unlocks(c)
    BY DEF Writes
  <1>3. ASSUME NEW f \in Kept PROVE \/ store'["source"][f] = store["source"][f]
                                    \/ store'["source"][f].obj = 0
    BY <1>1
  <1>4. \A m \in Migrators, f \in Kept : Protects(m, f) => Protects(m, f)'
    <2>1. \A f \in Kept : \/ locks'["destination"][f] = locks["destination"][f]
                          \/ locks["destination"][f] = c
      BY <1>2, UnlocksOwn
    <2>2. \A m \in Migrators : m # c
      OBVIOUS
    <2> QED BY <1>2, <2>1, <2>2 DEF Protects
  <1>5. ASSUME NEW f \in Kept, f # e
        PROVE  /\ Unmigrated(f)' <=> Unmigrated(f)
               /\ store'["source"][f] = store["source"][f]
               /\ store'["destination"][f] = store["destination"][f] /\ live'[f] = live[f]
    BY <1>1, <1>5 DEF Unmigrated
  <1>6. ASSUME NEW f \in Kept
        PROVE  /\ store'["source"][f].obj \in {0, 1}
               /\ store'["source"][f].obj # 0 => store'["source"][f].file
               /\ live'[f] \subseteq {1, store'["destination"][f].obj}
               /\ Unmigrated(f)' => store'["destination"][f].obj = 0 /\ store'["source"][f].obj = 1
               /\ Opened' /\ Unmigrated(f)' => \E m \in Migrators : Protects(m, f)'
    <2>1. CASE f # e
      <3>1. Opened' /\ Unmigrated(f)' => \E m \in Migrators : Protects(m, f)'
        BY <1>4, <1>5, <2>1 DEF Single
      <3> QED BY <1>5, <2>1, <3>1 DEF Single
    <2>2. CASE f = e
      <3>1. ~Unmigrated(f)' /\ live'[f] \subseteq {1, store'["destination"][f].obj}
        BY <2>2 DEF Unmigrated
      <3>2. /\ store'["source"][f].obj \in {0, 1}
            /\ store'["source"][f].obj # 0 => store'["source"][f].file
        BY <1>3 DEF Single
      <3> QED BY <3>1, <3>2
    <2> QED BY <2>1, <2>2
  <1>7. ASSUME NEW m \in Migrators, NEW f \in Kept,
               migration'[m].pc \in HasAll \cup {"locking"}, store'["source"][f].obj # 0
        PROVE  f \in migration'[m].listed
    BY <1>2, <1>3, <1>7 DEF Single
  <1>8. HasAll' = HasAll
    BY DEF HasAll
  <1> QED BY <1>6, <1>7, <1>8 DEF Single

LEMMA ApplyCreatesSingle ==
  ASSUME HoldInv, Single, NEW c \in Clients, ApplyCreates(c), ~mishap' PROVE Single'
  <1> DEFINE e == command[c].env
             n == made'[e]
  <1>1. /\ command[c].pc = "locked" /\ store[EndOf(c)][e].obj \notin live[e]
        /\ live' = [live EXCEPT ![e] = live[e] \cup {n}]
        /\ Writes(c, Holding(n)) /\ c \notin Stale
    BY DEF ApplyCreates
  <1>2. EndOf(c) = "destination" /\ Opened
    BY <1>1 DEF EndOf, Opened
  <1>3. e \in Kept /\ locks["destination"][e] = c
    BY <1>1, <1>2, WorkPlace
  <1>4. /\ store'["destination"][e] = Holding(n)
        /\ \A f \in Kept : f # e => live'[f] = live[f]
        /\ live'[e] = live[e] \cup {n}
    <2>1. store'["destination"][e] = Holding(n)
      BY <1>1, <1>2, WritesThere
    <2>2. live \in [Kept -> SUBSET (Nat \ {0})]
      BY DEF HoldInv, MigrationTypeOK
    <2> HIDE DEF e, n
    <2> QED BY <1>1, <1>3, <2>1, <2>2
  <1>5. 1 \notin live[e]
    <2> SUFFICES ASSUME 1 \in live[e] PROVE FALSE
      OBVIOUS
    <2>1. Unmigrated(e)
      BY <1>1, <1>2 DEF Unmigrated
    <2>2. PICK m \in Migrators : Protects(m, e)
      BY <1>2, <1>3, <2>1 DEF Single
    <2> QED BY <1>3, <2>2 DEF Protects
  <1>6. live[e] = {}
    <2>1. live[e] \subseteq {1, store["destination"][e].obj}
      BY <1>3 DEF Single
    <2> HIDE DEF e
    <2> QED BY <1>1, <1>2, <1>5, <2>1
  <1>7. Holding(n).obj = n
    BY DEF Holding
  <1>8. /\ 1 \in live'[e] => store'["destination"][e].obj = 1
        /\ live'[e] \subseteq {1, store'["destination"][e].obj}
    <2>1. live'[e] = {n} /\ store'["destination"][e].obj = n
      BY <1>4, <1>6, <1>7
    <2> HIDE DEF e, n
    <2> QED BY <2>1
  <1> HIDE DEF n
  <1> QED BY <1>1, <1>2, <1>4, <1>8, WorkSingle

LEMMA DestroySingle ==
  ASSUME HoldInv, Single, NEW c \in Clients, Destroy(c) PROVE Single'
  <1> DEFINE e == command[c].env
             o == store[EndOf(c)][e].obj
  <1>1. /\ command[c].pc = "locked" /\ o # 0 /\ live' = [live EXCEPT ![e] = live[e] \ {o}]
        /\ Writes(c, Emptied)
    BY DEF Destroy
  <1>2. e \in Kept /\ EndOf(c) \in Ends /\ Emptied.obj = 0
    BY <1>1, WorkPlace DEF Emptied, Missing
  <1>3. /\ store'[EndOf(c)][e] = Emptied
        /\ \A end \in Ends, f \in Kept : end # EndOf(c) \/ f # e => store'[end][f] = store[end][f]
    BY <1>1, WritesThere
  <1>4. live'[e] = live[e] \ {o} /\ \A f \in Kept : f # e => live'[f] = live[f]
    <2>1. live \in [Kept -> SUBSET (Nat \ {0})]
      BY DEF HoldInv, MigrationTypeOK
    <2> HIDE DEF e, o
    <2> QED BY <1>1, <1>2, <2>1
  <1>5. Opened' => Opened
    <2>1. Unlocks(c)
      BY <1>1 DEF Writes
    <2>2. \A d \in Clients : command'[d].pc \in {"ready", "locked"} => command[d].pc \in {"ready", "locked"}
      BY <1>1, <2>1, UnlocksOwn
    <2>3. ASSUME HoldsState("destination")' PROVE HoldsState("destination")
      <3>1. PICK f \in Kept : store'["destination"][f].file /\ store'["destination"][f].obj # 0
        BY <2>3 DEF HoldsState, Listed
      <3>2. store'["destination"][f] = store["destination"][f]
        BY <1>2, <1>3, <3>1
      <3> QED BY <3>1, <3>2 DEF HoldsState, Listed
    <2> QED BY <2>2, <2>3 DEF Opened
  <1>6. live'[e] \subseteq {1, store'["destination"][e].obj} /\ 1 \notin live'[e]
    <2>1. live[e] \subseteq {1, store["destination"][e].obj} /\ store["source"][e].obj \in {0, 1}
          /\ (Unmigrated(e) => store["destination"][e].obj = 0)
      BY <1>2 DEF Single
    <2>2. CASE EndOf(c) = "source"
      <3>1. o = 1 /\ store'["destination"][e] = store["destination"][e]
        BY <1>1, <1>2, <1>3, <2>1, <2>2
      <3> QED BY <1>4, <2>1, <3>1
    <2>3. CASE EndOf(c) = "destination"
      <3>1. o = store["destination"][e].obj
        BY <2>3
      <3>2. 1 \notin live'[e]
        BY <1>1, <1>4, <2>1, <3>1 DEF Unmigrated
      <3> QED BY <1>4, <2>1, <3>1, <3>2
    <2> QED BY <1>2, <2>2, <2>3
  <1> HIDE DEF o
  <1> QED BY <1>1, <1>2, <1>4, <1>5, <1>6, WorkSingle


\* A migrator that has not begun to copy, or has stopped, protects nothing.
LEMMA BeforeCopySingle ==
  ASSUME HoldInv, Single, NEW m \in Migrators,
         ListSource(m) \/ ListAgain(m) \/ Compare(m) \/ Decide(m) \/ Succeed(m)
  PROVE  Single'
  <1> DEFINE r == migration[m]
  <1>1. UNCHANGED <<store, live, locks, command>>
    BY DEF ListSource, ListAgain, Compare, Decide, Succeed, worldVars
  <1>2. IsMigrator(r)
    BY MigratorFields
  <1>3. \A e \in Kept : ~Protects(m, e)
    BY DEF ListSource, ListAgain, Compare, Decide, Succeed, Protects
  <1>4. PICK r2 : Moves(m, r2) /\ (r2.pc \in HasAll \cup {"locking"} =>
                                     \/ r2.listed = Listed("source")
                                     \/ r.pc \in HasAll \cup {"locking"} /\ r2.listed = r.listed)
    <2>1. CASE ListSource(m)
      <3>1. Moves(m, [NotMigrating EXCEPT !.pc = "locking", !.listed = Listed("source")])
        BY <2>1 DEF ListSource
      <3>2. [NotMigrating EXCEPT !.pc = "locking", !.listed = Listed("source")].listed = Listed("source")
        BY DEF NotMigrating
      <3> QED BY <3>1, <3>2
    <2>2. CASE ListAgain(m)
      <3>1. r.pc = "locking" /\ Moves(m, [r EXCEPT !.pc = "comparing", !.todo = Listed("source")])
        BY <2>2 DEF ListAgain
      <3>2. [r EXCEPT !.pc = "comparing", !.todo = Listed("source")].listed = r.listed
        BY <1>2 DEF IsMigrator
      <3> QED BY <3>1, <3>2
    <2>3. CASE Compare(m)
      <3> DEFINE e == First(r.todo)
                 src == store["source"][e]
                 dst == store["destination"][e]
                 rest == [r EXCEPT !.todo = r.todo \ {e}]
                 more == [f \in DOMAIN r.copying \cup {e} |-> IF f = e THEN src ELSE r.copying[f]]
                 both == [rest EXCEPT !.copying = more, !.conflict = r.conflict \/ dst.obj # 0]
      <3>1. r.pc = "comparing" /\ (Moves(m, rest) \/ Moves(m, both))
        BY <2>3 DEF Compare
      <3>2. rest.listed = r.listed /\ both.listed = r.listed
        <4> HIDE DEF r, more, e, dst
        <4> QED BY <1>2 DEF IsMigrator
      <3> HIDE DEF rest, both
      <3>3. CASE Moves(m, rest)
        BY <3>1, <3>2, <3>3 DEF HasAll
      <3>4. CASE Moves(m, both)
        BY <3>1, <3>2, <3>4 DEF HasAll
      <3> QED BY <3>1, <3>3, <3>4
    <2>4. CASE Decide(m)
      <3>1. r.pc = "comparing" /\ (Moves(m, Releasing(r.taken)) \/ Moves(m, [r EXCEPT !.pc = "copying"]))
        BY <2>4 DEF Decide
      <3>2. Releasing(r.taken).pc = "releasing" /\ [r EXCEPT !.pc = "copying"].listed = r.listed
        BY <1>2 DEF IsMigrator, Releasing, NotMigrating
      <3> QED BY <3>1, <3>2 DEF HasAll
    <2>5. CASE Succeed(m)
      <3>1. r.pc = "copying" /\ Moves(m, [r EXCEPT !.pc = "succeeded"])
        BY <2>5 DEF Succeed
      <3>2. [r EXCEPT !.pc = "succeeded"].listed = r.listed
        BY <1>2 DEF IsMigrator
      <3> QED BY <3>1, <3>2 DEF HasAll
    <2> QED BY <2>1, <2>2, <2>3, <2>4, <2>5
  <1>5. migration'[m] = r2 /\ \A n \in Migrators : n # m => migration'[n] = migration[n]
    BY <1>4, Moved
  <1>6. store' = store /\ live' = live /\ command' = command /\ locks' = locks
    BY <1>1
  <1> QED BY <1>3, <1>4, <1>5, <1>6, MigratorQuiet

\* Giving up, after which nothing is protected; whatever was copied is a mishap.
LEMMA EndsSingle ==
  ASSUME HoldInv, Single, NEW m \in Migrators, NEW r2, Moves(m, r2),
         r2.pc \in {"off", "releasing", "dead"}, \A e \in Kept : ~Protects(m, e),
         \A e \in Kept : \/ locks'["destination"][e] = locks["destination"][e]
                         \/ locks["destination"][e] \in {m, Unheld},
         UNCHANGED <<store, live, command>>
  PROVE  Single'
  <1>1. migration'[m] = r2 /\ \A n \in Migrators : n # m => migration'[n] = migration[n]
    BY Moved
  <1> QED BY <1>1, MigratorQuiet DEF HasAll

LEMMA StopsSingle ==
  ASSUME HoldInv, Single, NEW m \in Migrators, Stops(m), ~mishap',
         UNCHANGED <<store, live, locks, command>>
  PROVE  Single'
  <1>1. Moves(m, Releasing(migration[m].taken)) /\ \A e \in Kept : ~Protects(m, e)
    BY DEF Stops, Protects
  <1>2. Releasing(migration[m].taken).pc = "releasing"
    BY DEF Releasing, NotMigrating
  <1>3. store' = store /\ live' = live /\ command' = command /\ locks' = locks
    OBVIOUS
  <1> QED BY <1>1, <1>2, <1>3, EndsSingle

LEMMA CrashSingle ==
  ASSUME HoldInv, Single, NEW m \in Migrators, CrashMigration(m), ~mishap' PROVE Single'
  <1>1. Moves(m, [NotMigrating EXCEPT !.pc = "dead"]) /\ \A e \in Kept : ~Protects(m, e)
    BY DEF CrashMigration, Protects
  <1>2. [NotMigrating EXCEPT !.pc = "dead"].pc = "dead"
    BY DEF NotMigrating
  <1>3. store' = store /\ live' = live /\ command' = command /\ locks' = locks
    BY DEF CrashMigration, worldVars
  <1> QED BY <1>1, <1>2, <1>3, EndsSingle

LEMMA TakeProjectLockSingle ==
  ASSUME HoldInv, Single, NEW m \in Migrators, TakeProjectLock(m) PROVE Single'
  <1> DEFINE r == migration[m]
             l == NextLock(r)
             r2 == [r EXCEPT !.taken = Append(r.taken, l)]
  <1>1. r.pc = "locking" /\ Taken(r) # Ends \X r.listed /\ UNCHANGED <<store, live, command>>
    BY DEF TakeProjectLock, worldVars
  <1>2. IsMigrator(r) /\ Taken(r) \subseteq Ends \X r.listed
    BY <1>1, MigratorFields DEF MigratorHolds
  <1>3. l \in Ends \X r.listed /\ r.listed \subseteq Kept
    BY <1>1, <1>2, NextLockIsFree DEF IsMigrator
  <1>4. l[1] \in Ends /\ l[2] \in Kept
    <2> HIDE DEF l, r
    <2> QED BY <1>3
  <1>5. \A e \in Kept : ~Protects(m, e)
    BY <1>1 DEF Protects
  <1>6. locks \in [Ends -> [Kept -> Clients \cup Migrators \cup {Unheld}]]
    BY DEF HoldInv, MigrationTypeOK
  <1>7. CASE locks[l[1]][l[2]] = Unheld
    <2>1. locks' = [locks EXCEPT ![l[1]][l[2]] = m] /\ Moves(m, r2)
      BY <1>7 DEF TakeProjectLock
    <2>2. r2.pc = "locking" /\ r2.listed = r.listed
      <3> HIDE DEF l, r
      <3> QED BY <1>1, <1>2 DEF IsMigrator
    <2> HIDE DEF l, r2
    <2>3. migration'[m] = r2 /\ \A n \in Migrators : n # m => migration'[n] = migration[n]
      BY <2>1, Moved
    <2>4. \A e \in Kept : \/ locks'["destination"][e] = locks["destination"][e]
                          \/ locks["destination"][e] \in {m, Unheld}
      BY <1>4, <1>6, <1>7, <2>1
    <2>5. store' = store /\ live' = live /\ command' = command
      BY <1>1
    <2> QED BY <1>1, <1>5, <2>2, <2>3, <2>4, <2>5, MigratorQuiet DEF HasAll
  <1>8. CASE locks[l[1]][l[2]] # Unheld
    <2>1. Moves(m, Releasing(r.taken)) /\ locks' = locks
      BY <1>8 DEF TakeProjectLock
    <2>2. Releasing(r.taken).pc = "releasing"
      BY DEF Releasing, NotMigrating
    <2> QED BY <1>1, <1>5, <2>1, <2>2, EndsSingle
  <1> QED BY <1>7, <1>8

LEMMA ReleaseLockSingle ==
  ASSUME HoldInv, Single, NEW m \in Migrators, ReleaseLock(m) PROVE Single'
  <1> DEFINE r == migration[m]
             l == r.taken[Len(r.taken)]
             fewer == SubSeq(r.taken, 1, Len(r.taken) - 1)
  <1>1. r.pc \in {"releasing", "succeeded"} /\ UNCHANGED <<store, live, command>>
    BY DEF ReleaseLock, worldVars
  <1>2. Locked(m) = Taken(r) /\ r.taken \in Seq(Locks)
    BY <1>1, MigratorFields DEF MigratorHolds, IsMigrator
  <1>3. \A e \in Kept : ~Protects(m, e)
    BY <1>1 DEF Protects
  <1>4. CASE r.taken = <<>>
    <2>1. NotMigrating.pc = "off"
      BY DEF NotMigrating
    <2>2. Moves(m, NotMigrating) /\ locks' = locks
      BY <1>4 DEF ReleaseLock
    <2> QED BY <1>1, <1>3, <2>1, <2>2, EndsSingle
  <1>5. CASE r.taken # <<>>
    <2>1. locks' = [locks EXCEPT ![l[1]][l[2]] = Unheld] /\ Moves(m, Releasing(fewer))
      BY <1>5 DEF ReleaseLock
    <2>2. l \in Locked(m) /\ l \in Locks
      <3>1. Len(r.taken) \in DOMAIN r.taken
        BY <1>2, <1>5
      <3>2. l \in Taken(r) /\ l \in Locks
        BY <1>2, <3>1 DEF Taken
      <3> QED BY <1>2, <3>2
    <2>3. Releasing(fewer).pc = "releasing"
      BY DEF Releasing, NotMigrating
    <2> HIDE DEF l, fewer
    <2>4. l[1] \in Ends /\ l[2] \in Kept /\ locks[l[1]][l[2]] = m
      BY <2>2 DEF Locked, Locks
    <2>5. \A e \in Kept : \/ locks'["destination"][e] = locks["destination"][e]
                          \/ locks["destination"][e] \in {m, Unheld}
      BY <2>1, <2>4 DEF HoldInv, MigrationTypeOK
    <2> QED BY <1>1, <1>3, <2>1, <2>3, <2>5, EndsSingle
  <1> QED BY <1>4, <1>5


\* The copy is stored, lost, or refused.
LEMMA CopySingle ==
  ASSUME HoldInv, Single, NEW m \in Migrators, Copy(m), ~mishap' PROVE Single'
  <1> DEFINE r == migration[m]
             e == NextCopied(m)
             stored == [r EXCEPT !.pc = "verifying"]
             r2 == [stored EXCEPT !.copied = TRUE]
  <1>1. /\ r.pc = "copying" /\ DOMAIN r.copying # {}
        /\ UNCHANGED <<live, locks, command>>
    BY DEF Copy, worldVars
  <1>2. IsMigrator(r) /\ MigratorHolds(m) /\ MigratorCopies(m) /\ e \in DOMAIN r.copying /\ e \in Kept
        /\ (locks["destination"][e] = m => e \in r.listed)
    BY <1>1, MigratorFields, NextIsThere DEF HasAll
  <1>3. CASE locks["destination"][e] = m /\ store' = [store EXCEPT !["destination"][e] = BeingCopied(m)]
             /\ Moves(m, r2)
    <2>1. /\ r2.pc = "verifying" /\ r2.listed = r.listed /\ r2.copying = r.copying /\ r2.copied
      <3> HIDE DEF r
      <3> QED BY <1>1, <1>2 DEF IsMigrator
    <2> HIDE DEF r2
    <2>2. migration'[m] = r2 /\ \A n \in Migrators : n # m => migration'[n] = migration[n]
      BY <1>3, Moved
    <2>3. /\ r.copying[e] = store["source"][e] /\ store["destination"][e].obj = 0
      BY <1>1, <1>2, <1>3 DEF MigratorCopies, HasAll, Accounted
    <2>4. /\ store'["source"] = store["source"] /\ store'["destination"][e] = store["source"][e]
          /\ \A f \in Kept : f # e => store'["destination"][f] = store["destination"][f]
      <3>1. BeingCopied(m) = store["source"][e]
        BY <2>3 DEF BeingCopied
      <3>2. store \in [Ends -> [Kept -> States]]
        BY DEF HoldInv, MigrationTypeOK
      <3> HIDE DEF e
      <3> QED BY <1>2, <1>3, <3>1, <3>2
    <2>5. live \in [Kept -> SUBSET (Nat \ {0})]
      BY DEF HoldInv, MigrationTypeOK
    <2>6. ASSUME NEW f \in Kept
          PROVE  /\ store'["source"][f].obj \in {0, 1}
                 /\ store'["source"][f].obj # 0 => store'["source"][f].file
                 /\ live'[f] \subseteq {1, store'["destination"][f].obj}
                 /\ Unmigrated(f)' => store'["destination"][f].obj = 0 /\ store'["source"][f].obj = 1
                 /\ Opened' /\ Unmigrated(f)' => \E n \in Migrators : Protects(n, f)'
      <3>1. /\ store["source"][f].obj \in {0, 1}
            /\ store["source"][f].obj # 0 => store["source"][f].file
            /\ live[f] \subseteq {1, store["destination"][f].obj}
            /\ Unmigrated(f) => store["destination"][f].obj = 0 /\ store["source"][f].obj = 1
        BY DEF Single
      <3>2. live'[f] = live[f] /\ store'["source"][f] = store["source"][f]
        BY <1>1, <2>4
      <3>3. CASE f = e
        <4>1. live[e] \subseteq {1}
          BY <1>2, <2>3, <2>5, <3>1, <3>3
        <4>2. 1 \in live[e] => store["source"][e].obj = 1
          BY <2>3, <3>1, <3>3 DEF Unmigrated
        <4>3. ~Unmigrated(f)'
          BY <2>4, <3>2, <3>3, <4>2 DEF Unmigrated
        <4> QED BY <3>1, <3>2, <3>3, <4>1, <4>3
      <3>4. CASE f # e
        <4>1. store'["destination"][f] = store["destination"][f] /\ (Unmigrated(f)' <=> Unmigrated(f))
          BY <2>4, <3>2, <3>4 DEF Unmigrated
        <4>2. ASSUME Unmigrated(f) PROVE Protects(m, f)'
          <5>1. store["source"][f].obj = 1 /\ store["destination"][f].obj = 0
            BY <3>1, <4>2
          <5>2. f \in r.listed
            BY <1>1, <5>1 DEF Single, HasAll
          <5>3. Accounted(m, f)
            BY <1>1, <1>2, <5>2 DEF MigratorCopies, HasAll
          <5>4. f \in DOMAIN r.copying
            BY <1>1, <5>1, <5>3 DEF Accounted
          <5>5. <<"destination", f>> \in Locked(m)
            BY <1>1, <1>2, <5>2 DEF MigratorHolds, HasAll
          <5>6. locks'["destination"][f] = m
            BY <1>1, <5>5 DEF Locked
          <5> QED BY <2>1, <2>2, <5>4, <5>6 DEF Protects
        <4> QED BY <3>1, <3>2, <4>1, <4>2
      <3> QED BY <3>3, <3>4
    <2>7. ASSUME NEW n \in Migrators, NEW f \in Kept,
                 migration'[n].pc \in HasAll \cup {"locking"}, store'["source"][f].obj # 0
          PROVE  f \in migration'[n].listed
      BY <1>1, <2>1, <2>2, <2>4, <2>7 DEF Single, HasAll
    <2>8. HasAll' = HasAll
      BY DEF HasAll
    <2> QED BY <2>6, <2>7, <2>8 DEF Single
  <1>4. CASE Moves(m, stored) /\ store' = store
    <2>1. stored.pc = "verifying" /\ stored.listed = r.listed /\ stored.copying = r.copying
          /\ stored.copied = r.copied
      <3> HIDE DEF r
      <3> QED BY <1>1, <1>2 DEF IsMigrator
    <2> HIDE DEF stored
    <2>2. migration'[m] = stored /\ \A n \in Migrators : n # m => migration'[n] = migration[n]
      BY <1>4, Moved
    <2>3. \A f \in Kept : Protects(m, f) => Protects(m, f)'
      BY <1>1, <2>1, <2>2 DEF Protects
    <2>4. store' = store /\ live' = live /\ command' = command /\ locks' = locks
      BY <1>1, <1>4
    <2> QED BY <1>1, <2>1, <2>2, <2>3, <2>4, MigratorQuiet DEF HasAll
  <1>5. CASE Stops(m) /\ store' = store
    BY <1>1, <1>5, StopsSingle
  <1> QED BY <1>3, <1>4, <1>5 DEF Copy

LEMMA VerifySingle ==
  ASSUME HoldInv, Single, NEW m \in Migrators, Verify(m), ~mishap' PROVE Single'
  <1> DEFINE r == migration[m]
             e == NextCopied(m)
             rest == [f \in DOMAIN r.copying \ {e} |-> r.copying[f]]
             r2 == [r EXCEPT !.pc = "copying", !.copying = rest]
  <1>1. r.pc = "verifying" /\ UNCHANGED <<store, live, locks, command>>
    BY DEF Verify, worldVars
  <1>2. IsMigrator(r) /\ MigratorCopies(m) /\ e \in DOMAIN r.copying /\ e \in r.listed
    BY <1>1, MigratorFields, NextIsThere DEF MigratorCopies
  <1>3. CASE store["destination"][e] = BeingCopied(m)
    <2>1. Moves(m, r2)
      BY <1>3 DEF Verify, Copied
    <2>2. /\ r2.pc = "copying" /\ r2.listed = r.listed /\ r2.copying = rest /\ r2.copied = r.copied
          /\ DOMAIN rest = DOMAIN r.copying \ {e}
      <3> HIDE DEF r, e
      <3> QED BY <1>1, <1>2 DEF IsMigrator
    <2>3. store["destination"][e] = store["source"][e]
      BY <1>1, <1>2, <1>3 DEF BeingCopied, MigratorCopies, HasAll, Accounted
    <2> HIDE DEF r2, rest
    <2>4. migration'[m] = r2 /\ \A n \in Migrators : n # m => migration'[n] = migration[n]
      BY <2>1, Moved
    <2>5. ASSUME NEW f \in Kept, Unmigrated(f), Protects(m, f) PROVE Protects(m, f)'
      <3>1. f # e
        BY <2>3, <2>5 DEF Single
      <3> QED BY <1>1, <2>2, <2>4, <2>5, <3>1 DEF Protects
    <2>6. store' = store /\ live' = live /\ command' = command /\ locks' = locks
      BY <1>1
    <2> QED BY <1>1, <2>2, <2>4, <2>5, <2>6, MigratorQuiet DEF HasAll
  <1>4. CASE store["destination"][e] # BeingCopied(m)
    BY <1>1, <1>4, StopsSingle DEF Verify
  <1> QED BY <1>3, <1>4

LEMMA UnlockDeadSingle ==
  ASSUME HoldInv, Single, NEW end \in Ends, NEW e \in Kept, UnlockDead(end, e) PROVE Single'
  <1> DEFINE m == locks[end][e]
  <1>1. /\ m \in Migrators /\ migration[m].pc = "dead" /\ locks' = [locks EXCEPT ![end][e] = Unheld]
        /\ UNCHANGED <<store, live, command, migration>>
    BY DEF UnlockDead, worldVars
  <1>2. \A f \in Kept : ~Protects(m, f)
    BY <1>1 DEF Protects
  <1>3. locks \in [Ends -> [Kept -> Clients \cup Migrators \cup {Unheld}]]
    BY DEF HoldInv, MigrationTypeOK
  <1> HIDE DEF m
  <1>4. \A f \in Kept : \/ locks'["destination"][f] = locks["destination"][f]
                        \/ locks["destination"][f] \in {m, Unheld}
    BY <1>1, <1>3 DEF m
  <1>5. store' = store /\ live' = live /\ command' = command /\ migration' = migration
    BY <1>1
  <1>6. migration'[m].pc = "dead"
    BY <1>1
  <1> QED BY <1>1, <1>2, <1>4, <1>5, <1>6, MigratorQuiet DEF HasAll

LEMMA MishapStays == [MigrationNext]_migrationVars /\ mishap => mishap'
  BY DEF MigrationNext, CommandStep, MigrationStep, UnlockDead, Begin, LookAtDestination,
     LookAtSource, LockEnv, ApplyCreates, ApplyUpdates, Destroy, NothingToDo, ListSource,
     TakeProjectLock, ListAgain, Compare, Decide, Copy, Stops, Verify, Succeed, ReleaseLock,
     CrashMigration, migrationVars

LEMMA SingleNext ==
  ASSUME HoldInv, Single, [MigrationNext]_migrationVars, ~mishap' PROVE Single'
  <1>1. CASE UNCHANGED migrationVars
    BY <1>1 DEF migrationVars, worldVars, Single, Unmigrated, Opened, Protects, HoldsState, Listed, HasAll
  <1>2. ASSUME NEW c \in Clients, CommandStep(c) PROVE Single'
    BY <1>2, GuardSingle, LockEnvSingle, ApplyCreatesSingle, ApplyUpdatesSingle, DestroySingle,
       NothingToDoSingle DEF CommandStep
  <1>3. ASSUME NEW m \in Migrators, MigrationStep(m) PROVE Single'
    BY <1>3, BeforeCopySingle, TakeProjectLockSingle, CopySingle, VerifySingle, ReleaseLockSingle,
       CrashSingle DEF MigrationStep
  <1> QED BY <1>1, <1>2, <1>3, UnlockDeadSingle DEF MigrationNext

LEMMA SingleInit == MigrationInit => Single
  <1> SUFFICES ASSUME MigrationInit PROVE Single
    OBVIOUS
  <1>1. /\ store \in [Ends -> [Kept -> {Missing, Emptied, Holding(1)}]] /\ ~HoldsState("destination")
        /\ live = [e \in Kept |-> {store["source"][e].obj} \ {0}]
        /\ command = [c \in Clients |-> Idle] /\ migration = [m \in Migrators |-> NotMigrating]
    BY DEF MigrationInit
  <1>2. ASSUME NEW end \in Ends, NEW e \in Kept
        PROVE  /\ store[end][e].obj \in {0, 1}
               /\ store[end][e].obj # 0 => store[end][e].file
    <2>1. store[end][e] \in {Missing, Emptied, Holding(1)}
      BY <1>1
    <2>2. Missing.obj = 0 /\ Emptied.obj = 0 /\ Holding(1).obj = 1 /\ Holding(1).file
      BY DEF Missing, Emptied, Holding
    <2> QED BY <2>1, <2>2
  <1>3. \A e \in Kept : store["destination"][e].obj = 0
    BY <1>1, <1>2 DEF HoldsState, Listed
  <1>4. ~Opened
    BY <1>1 DEF Opened, Idle
  <1>5. \A m \in Migrators : migration[m].pc = "off"
    BY <1>1 DEF NotMigrating
  <1>6. ASSUME NEW e \in Kept
        PROVE  /\ store["source"][e].obj \in {0, 1}
               /\ store["source"][e].obj # 0 => store["source"][e].file
               /\ live[e] = {store["source"][e].obj} \ {0}
    <2>1. "source" \in Ends
      OBVIOUS
    <2> QED BY <1>1, <1>2, <2>1
  <1>7. ASSUME NEW e \in Kept
        PROVE  /\ live[e] \subseteq {1, store["destination"][e].obj}
               /\ Unmigrated(e) => store["destination"][e].obj = 0 /\ store["source"][e].obj = 1
    BY <1>3, <1>6 DEF Unmigrated
  <1> QED BY <1>4, <1>5, <1>6, <1>7 DEF Single, HasAll

(***************************************************************************)
(* While a migration is pending, being made or done, no command creates an *)
(* environment's object a second time, unless a migration that had copied  *)
(* something was cut short, the guard could not read the destination, or a *)
(* stale checkout created something.                                       *)
(***************************************************************************)
THEOREM NoSecondObject == MigrationSpec => []DuplicatesNeedAMishap
  <1>1. MigrationInit => MigrationInv
    BY HoldInvInit, SingleInit DEF MigrationInv
  <1>2. MigrationInv /\ [MigrationNext]_migrationVars => MigrationInv'
    BY HoldInvNext, SingleNext, MishapStays DEF MigrationInv
  <1>3. MigrationInv => DuplicatesNeedAMishap
    <2> SUFFICES ASSUME HoldInv, Single, NEW e \in Kept PROVE Cardinality(live[e]) <= 1
      BY DEF MigrationInv, DuplicatesNeedAMishap, NoDuplicates
    <2>1. PICK x : live[e] \subseteq {x}
      <3>1. live[e] \subseteq {1, store["destination"][e].obj} /\ live[e] \in SUBSET (Nat \ {0})
            /\ (Unmigrated(e) => store["destination"][e].obj = 0)
        BY DEF Single, HoldInv, MigrationTypeOK
      <3>2. CASE 1 \in live[e]
        <4>1. live[e] \subseteq {1}
          BY <3>1, <3>2 DEF Unmigrated
        <4> QED BY <4>1
      <3>3. CASE 1 \notin live[e]
        <4>1. live[e] \subseteq {store["destination"][e].obj}
          BY <3>1, <3>3
        <4> QED BY <4>1
      <3> QED BY <3>2, <3>3
    <2>2. Cardinality({x}) = 1 /\ IsFiniteSet({x})
      BY FS_Singleton
    <2>3. Cardinality(live[e]) <= Cardinality({x})
      BY <2>1, <2>2, FS_Subset
    <2> QED BY <2>2, <2>3
  <1> QED BY <1>1, <1>2, <1>3, PTL DEF MigrationSpec


-----------------------------------------------------------------------------
(***************************************************************************)
(* The commands: what a session holds in memory of the environment it has  *)
(* locked, and what of it may be missing.                                  *)
(***************************************************************************)
\* The names somebody declared, took out, or imported without a declaration.
Written == config.names \cup config.dropped
Known == Written \cup AdoptedByHand

\* Names that are known, of objects that were created once.
Recorded(st) ==
  /\ DOMAIN st \subseteq Known
  /\ \A n \in DOMAIN st : st[n] \in Objects /\ world[st[n]] # "unborn"

Inside == {"replan", "execute", "observe", "remove", "index", "select", "generate", "adopt",
           "write", "unlock"}

IsSession(r) ==
  /\ r = [pc |-> r.pc, req |-> r.req, names |-> r.names, shown |-> r.shown, mem |-> r.mem,
          todo |-> r.todo, index |-> r.index, adopt |-> r.adopt]
  /\ IF r.pc = "off" THEN r.req.cmd = "none" ELSE r.req \in Requests
  /\ r.todo # {} => r.pc \in {"execute", "write", "unlock", "done"}
  /\ DOMAIN r.adopt # {} => r.pc \in {"generate", "adopt", "execute", "write", "unlock", "done"}
  /\ r.pc \in {"index", "select", "generate", "adopt"} => r.req.cmd = "import"
  /\ r.pc = "remove" => r.req.cmd = "rm"

CommandsTypeOK ==
  /\ config = [names |-> config.names, envs |-> config.envs, dropped |-> config.dropped]
  /\ DOMAIN states = Envs
  /\ lock \in [Envs -> Sessions \cup {Free}]
  /\ world \in [Objects -> {"unborn", "alive", "gone"}]
  /\ DOMAIN sess = Sessions
  /\ \A s \in Sessions : IsSession(sess[s])

\* An operation still to be performed, on what is in memory.
Due(r, op) ==
  /\ op.kind \in {"create", "destroy", "forget"}
  /\ IF op.kind = "create"
     THEN /\ op.name \in r.names
          /\ op.name \in DOMAIN r.mem => world[r.mem[op.name]] = "gone"
     ELSE /\ op.name \in DOMAIN r.mem /\ op.obj = r.mem[op.name]
          /\ op.kind = "forget" => world[op.obj] = "gone"

\* What the write that is due leaves out is gone, or was asked to be removed.
Covers(r) ==
  LET st == states[r.req.env] IN
  \A n \in DOMAIN st :
    \/ n \in DOMAIN r.mem /\ r.mem[n] = st[n]
    \/ world[st[n]] = "gone"
    \/ r.req.cmd = "rm" /\ r.req.name = n

SessionHolds(s) ==
  LET r == sess[s] IN
  /\ r.names \subseteq Known
  /\ r.pc \in Inside => lock[r.req.env] = s
  /\ r.pc \in {"execute", "write"} =>
       /\ Recorded(r.mem)
       /\ \A a, b \in r.todo : a.name = b.name => a = b
       /\ \A op \in r.todo : Due(r, op)
  /\ r.pc = "write" => Covers(r)
  /\ r.pc \in {"execute", "generate", "adopt"} => r.mem = states[r.req.env]
  /\ r.pc \in {"generate", "adopt"} => DOMAIN r.adopt \cap DOMAIN r.mem = {}
  /\ r.pc = "adopt" /\ r.req.generate => DOMAIN r.adopt \subseteq Written

CommandsInv ==
  /\ CommandsTypeOK
  /\ \A e \in Envs : Recorded(states[e])
  /\ \A s \in Sessions : SessionHolds(s)


USE CommandsAssumption

LEMMA SessionEnv ==
  ASSUME CommandsInv, NEW s \in Sessions, sess[s].pc # "off"
  PROVE  sess[s].req \in Requests /\ sess[s].req.env \in Envs
  BY DEF CommandsInv, CommandsTypeOK, IsSession

LEMMA KnownGrows ==
  ASSUME NEW s \in Sessions,
         \A t \in Sessions : t # s => sess'[t] = sess[t],
         \/ DOMAIN sess[s].adopt = {}
         \/ sess'[s].req = sess[s].req /\ sess'[s].adopt = sess[s].adopt,
         Written \subseteq Written'
  PROVE  Known \subseteq Known'
  <1> SUFFICES ASSUME NEW n \in AdoptedByHand PROVE n \in AdoptedByHand'
    BY DEF Known
  <1>1. PICK t \in Sessions : Runs(t, {"import"}) /\ ~sess[t].req.generate /\ n \in DOMAIN sess[t].adopt
    BY DEF AdoptedByHand
  <1>2. sess'[t].req = sess[t].req /\ sess'[t].adopt = sess[t].adopt
    BY <1>1
  <1> QED BY <1>1, <1>2 DEF AdoptedByHand, Runs

\* What is recorded stays as it was recorded: of known names, and of objects that were created.
LEMMA RecordedStays ==
  ASSUME NEW st, Recorded(st), Known \subseteq Known',
         \A o \in Objects : world[o] # "unborn" => world'[o] # "unborn"
  PROVE  /\ DOMAIN st \subseteq Known'
         /\ \A n \in DOMAIN st : st[n] \in Objects /\ world'[st[n]] # "unborn"
  BY DEF Recorded

\* A session that does not move, whose environment nobody else writes.
LEMMA OthersHold ==
  ASSUME CommandsInv, NEW t \in Sessions, sess'[t] = sess[t],
         Known \subseteq Known', Written \subseteq Written',
         \A o \in Objects : /\ world[o] # "unborn" => world'[o] # "unborn"
                            /\ world[o] = "gone" => world'[o] = "gone",
         \A e \in Envs : lock[e] = t => lock'[e] = t /\ states'[e] = states[e]
  PROVE  SessionHolds(t)'
  <1> DEFINE r == sess[t]
  <1>1. SessionHolds(t) /\ \A e \in Envs : Recorded(states[e])
    BY DEF CommandsInv
  <1>2. r.pc \in Inside => /\ r.req.env \in Envs /\ lock'[r.req.env] = t
                           /\ states'[r.req.env] = states[r.req.env]
    <2> SUFFICES ASSUME r.pc \in Inside PROVE r.req.env \in Envs /\ lock[r.req.env] = t
      OBVIOUS
    <2>1. r.pc # "off"
      BY DEF Inside
    <2> QED BY <1>1, <2>1, SessionEnv DEF SessionHolds
  <1>3. r.pc \in {"execute", "write"} =>
          /\ Recorded(r.mem)'
          /\ \A op \in r.todo : Due(r, op)'
    <2> SUFFICES ASSUME r.pc \in {"execute", "write"}
                 PROVE  Recorded(r.mem)' /\ \A op \in r.todo : Due(r, op)'
      OBVIOUS
    <2>1. Recorded(r.mem) /\ \A op \in r.todo : Due(r, op)
      BY <1>1 DEF SessionHolds
    <2>2. Recorded(r.mem)'
      BY <2>1, RecordedStays DEF Recorded
    <2>3. ASSUME NEW op \in r.todo PROVE Due(r, op)'
      <3>1. Due(r, op) /\ \A n \in DOMAIN r.mem : r.mem[n] \in Objects
        BY <2>1 DEF Recorded
      <3>2. r' = r
        OBVIOUS
      <3> HIDE DEF r
      <3>3. CASE op.kind = "create"
        BY <3>1, <3>2, <3>3 DEF Due
      <3>4. CASE op.kind # "create"
        BY <3>1, <3>2, <3>4 DEF Due
      <3> QED BY <3>3, <3>4
    <2> QED BY <2>2, <2>3
  <1>4. r.pc = "write" => Covers(r)'
    <2> SUFFICES ASSUME r.pc = "write" PROVE Covers(r)'
      OBVIOUS
    <2>1. Covers(r) /\ r.req.env \in Envs /\ states'[r.req.env] = states[r.req.env]
      BY <1>1, <1>2 DEF SessionHolds, Inside
    <2>2. Recorded(states[r.req.env])
      BY <1>1, <2>1
    <2>3. r' = r /\ \A n \in DOMAIN states[r.req.env] : states[r.req.env][n] \in Objects
      BY <2>2 DEF Recorded
    <2> HIDE DEF r
    <2>4. ASSUME NEW n \in DOMAIN states[r.req.env]
          PROVE  \/ n \in DOMAIN r.mem /\ r.mem[n] = states[r.req.env][n]
                 \/ world'[states[r.req.env][n]] = "gone"
                 \/ r.req.cmd = "rm" /\ r.req.name = n
      BY <2>1, <2>3 DEF Covers
    <2> QED BY <2>1, <2>3, <2>4 DEF Covers
  <1>5. /\ r.names \subseteq Known'
        /\ r.pc \in {"execute", "generate", "adopt"} => r.mem = states'[r.req.env]
        /\ r.pc \in {"generate", "adopt"} => DOMAIN r.adopt \cap DOMAIN r.mem = {}
        /\ r.pc = "adopt" /\ r.req.generate => DOMAIN r.adopt \subseteq Written'
    BY <1>1, <1>2 DEF SessionHolds, Inside
  <1>6. r.pc \in {"execute", "write"} => \A a, b \in r.todo : a.name = b.name => a = b
    BY <1>1 DEF SessionHolds
  <1>7. Inside' = Inside
    BY DEF Inside
  <1>8. r' = r
    OBVIOUS
  <1> HIDE DEF r
  <1>9. sess'[t] = r
    BY <1>8 DEF r
  <1> QED BY <1>2, <1>3, <1>4, <1>5, <1>6, <1>7, <1>8, <1>9 DEF SessionHolds


\* One session moves; the others see nothing of it.
LEMMA SessionMoves ==
  ASSUME CommandsInv, NEW s \in Sessions,
         \A t \in Sessions : t # s => sess'[t] = sess[t],
         DOMAIN sess' = Sessions, IsSession(sess'[s]),
         \/ DOMAIN sess[s].adopt = {}
         \/ sess'[s].req = sess[s].req /\ sess'[s].adopt = sess[s].adopt,
         Written \subseteq Written',
         config' = [names |-> config'.names, envs |-> config'.envs, dropped |-> config'.dropped],
         DOMAIN states' = Envs, lock' \in [Envs -> Sessions \cup {Free}],
         world' \in [Objects -> {"unborn", "alive", "gone"}],
         \A o \in Objects : /\ world[o] # "unborn" => world'[o] # "unborn"
                            /\ world[o] = "gone" => world'[o] = "gone",
         \A e \in Envs : lock[e] \in Sessions \ {s} => lock'[e] = lock[e] /\ states'[e] = states[e],
         \A e \in Envs : states'[e] = states[e] \/ Recorded(states'[e]),
         Known \subseteq Known' => SessionHolds(s)'
  PROVE  CommandsInv'
  <1>1. Known \subseteq Known'
    BY KnownGrows
  <1>2. ASSUME NEW t \in Sessions, t # s PROVE SessionHolds(t)' /\ IsSession(sess'[t])
    <2>1. \A e \in Envs : lock[e] = t => lock'[e] = t /\ states'[e] = states[e]
      BY <1>2
    <2>2. IsSession(sess[t])
      BY DEF CommandsInv, CommandsTypeOK
    <2> QED BY <1>1, <1>2, <2>1, <2>2, OthersHold
  <1>3. ASSUME NEW e \in Envs PROVE Recorded(states[e])'
    <2>1. Recorded(states'[e]) \/ (states'[e] = states[e] /\ Recorded(states[e]))
      BY DEF CommandsInv
    <2>2. PICK st : st = states'[e] /\ Recorded(st)
      BY <2>1
    <2> QED BY <1>1, <2>2, RecordedStays DEF Recorded
  <1>4. CommandsTypeOK'
    BY <1>2 DEF CommandsTypeOK
  <1> QED BY <1>1, <1>2, <1>3, <1>4 DEF CommandsInv

\* Nothing but the session itself.
LEMMA SessionThinks ==
  ASSUME CommandsInv, NEW s \in Sessions, NEW r, NEW r2, r = sess[s],
         sess' = [sess EXCEPT ![s] = r2], IsSession(r2),
         UNCHANGED <<config, states, lock, world>>,
         \/ r.pc = "off"
         \/ r2.req = r.req /\ (DOMAIN r.adopt = {} \/ r2.adopt = r.adopt),
         r2.names \subseteq Known,
         r2.pc \in Inside => lock[r2.req.env] = s,
         r2.pc \in {"execute", "write"} =>
           /\ Recorded(r2.mem)
           /\ \A a, b \in r2.todo : a.name = b.name => a = b
           /\ \A op \in r2.todo : Due(r2, op),
         r2.pc = "write" => Covers(r2),
         r2.pc \in {"execute", "generate", "adopt"} => r2.mem = states[r2.req.env],
         r2.pc \in {"generate", "adopt"} => DOMAIN r2.adopt \cap DOMAIN r2.mem = {},
         r2.pc = "adopt" /\ r2.req.generate => DOMAIN r2.adopt \subseteq Written
  PROVE  CommandsInv'
  <1>1. CommandsTypeOK /\ IsSession(r)
    BY DEF CommandsInv, CommandsTypeOK
  <1>2. /\ \A t \in Sessions : t # s => sess'[t] = sess[t]
        /\ DOMAIN sess' = Sessions /\ sess'[s] = r2
    BY <1>1 DEF CommandsTypeOK
  <1>3. DOMAIN r.adopt = {} \/ (r2.req = r.req /\ r2.adopt = r.adopt)
    BY <1>1 DEF IsSession
  <1>4. Written' = Written /\ Inside' = Inside
    BY DEF Written, Inside
  <1>5. config' = config /\ states' = states /\ lock' = lock /\ world' = world
    OBVIOUS
  <1>6. ASSUME Known \subseteq Known' PROVE SessionHolds(s)'
    <2>1. r2.pc \in {"execute", "write"} => Recorded(r2.mem)' /\ \A op \in r2.todo : Due(r2, op)'
      BY <1>5, <1>6 DEF Recorded, Due
    <2>2. r2.pc = "write" => Covers(r2)'
      BY <1>5 DEF Covers
    <2> QED BY <1>2, <1>4, <1>5, <1>6, <2>1, <2>2 DEF SessionHolds
  <1> QED BY <1>1, <1>2, <1>3, <1>4, <1>5, <1>6, SessionMoves DEF CommandsTypeOK


\* Towards the end, or on to the lock after the question.
LEMMA MovesOut ==
  ASSUME CommandsInv, NEW s \in Sessions, NEW pc \in {"done", "unlock", "approved"}, Move(s, pc),
         UNCHANGED <<config, states, lock, world>>, sess[s].pc # "off",
         pc = "unlock" => sess[s].pc \in Inside, pc = "approved" => sess[s].pc = "asked"
  PROVE  CommandsInv'
  <1>1. PICK r : r = sess[s]
    OBVIOUS
  <1>2. PICK r2 : r2 = [r EXCEPT !.pc = pc]
    OBVIOUS
  <1>3. DOMAIN sess = Sessions /\ IsSession(r) /\ SessionHolds(s)
    BY <1>1 DEF CommandsInv, CommandsTypeOK
  <1>4. sess' = [sess EXCEPT ![s] = r2]
    BY <1>1, <1>2, <1>3 DEF Move, IsSession
  <1>5. /\ r2 = [pc |-> r2.pc, req |-> r2.req, names |-> r2.names, shown |-> r2.shown, mem |-> r2.mem,
                 todo |-> r2.todo, index |-> r2.index, adopt |-> r2.adopt]
        /\ r2.pc = pc /\ r2.req = r.req /\ r2.names = r.names /\ r2.todo = r.todo /\ r2.adopt = r.adopt
    BY <1>2, <1>3 DEF IsSession
  <1>6. IsSession(r2)
    BY <1>1, <1>3, <1>5 DEF IsSession
  <1>7. r2.names \subseteq Known /\ (r2.pc \in Inside => lock[r2.req.env] = s)
    BY <1>1, <1>3, <1>5 DEF SessionHolds, Inside
  <1> QED BY <1>1, <1>4, <1>5, <1>6, <1>7, SessionThinks

LEMMA StartSessionHolds == ASSUME CommandsInv, NEW s \in Sessions, StartSession(s) PROVE CommandsInv'
  <1>1. PICK q \in Requests : sess' = [sess EXCEPT ![s] = [Off EXCEPT !.req = q, !.pc = FirstStep(q.cmd)]]
    BY DEF StartSession
  <1>2. PICK r2 : r2 = [Off EXCEPT !.req = q, !.pc = FirstStep(q.cmd)]
    OBVIOUS
  <1>3. q.cmd \in {"apply", "destroy", "refresh", "rm", "import"}
    BY DEF CommandsAssumption
  <1>4. FirstStep(q.cmd) \in {"load", "resolve", "approved"}
    BY <1>3 DEF FirstStep
  <1>5. /\ r2 = [pc |-> r2.pc, req |-> r2.req, names |-> r2.names, shown |-> r2.shown, mem |-> r2.mem,
                 todo |-> r2.todo, index |-> r2.index, adopt |-> r2.adopt]
        /\ r2.pc = FirstStep(q.cmd) /\ r2.req = q /\ r2.names = {} /\ r2.todo = {} /\ r2.adopt = Nothing
    BY <1>2 DEF Off
  <1>6. DOMAIN Nothing = {}
    BY DEF Nothing
  <1>7. IsSession(r2)
    BY <1>4, <1>5, <1>6 DEF IsSession
  <1>8. sess[s].pc = "off" /\ sess' = [sess EXCEPT ![s] = r2] /\ UNCHANGED <<config, states, lock, world>>
    BY <1>1, <1>2 DEF StartSession, At
  <1>9. r2.pc \notin Inside
    BY <1>4, <1>5 DEF Inside
  <1> QED BY <1>4, <1>5, <1>7, <1>8, <1>9, SessionThinks DEF Inside

\* Reading and asking, before the lock.
LEMMA ReadsHold ==
  ASSUME CommandsInv, NEW s \in Sessions, NEW r, NEW r2, r = sess[s],
         sess' = [sess EXCEPT ![s] = r2], UNCHANGED <<config, states, lock, world>>,
         r.pc \in {"load", "preview", "resolve"}, r2.pc \in {"preview", "asked", "approved"},
         r2 = [pc |-> r2.pc, req |-> r2.req, names |-> r2.names, shown |-> r2.shown, mem |-> r2.mem,
               todo |-> r2.todo, index |-> r2.index, adopt |-> r2.adopt],
         r2.req = r.req, r2.todo = r.todo, r2.adopt = r.adopt, r2.names \subseteq Known
  PROVE  CommandsInv'
  <1>1. IsSession(r)
    BY DEF CommandsInv, CommandsTypeOK
  <1>2. IsSession(r2)
    BY <1>1 DEF IsSession
  <1>3. r2.pc \notin Inside
    BY DEF Inside
  <1> QED BY <1>2, <1>3, SessionThinks

LEMMA LoadHolds == ASSUME CommandsInv, NEW s \in Sessions, Load(s) PROVE CommandsInv'
  <1>1. PICK r : r = sess[s]
    OBVIOUS
  <1>2. DOMAIN sess = Sessions /\ IsSession(r) /\ r.pc = "load" /\ UNCHANGED <<config, states, lock, world>>
    BY <1>1 DEF CommandsInv, CommandsTypeOK, Load, At
  <1>3. CASE Move(s, "done")
    BY <1>1, <1>2, <1>3, MovesOut
  <1>4. ASSUME NEW names, names \subseteq config.names,
               sess' = [sess EXCEPT ![s].pc = "preview", ![s].names = names]
        PROVE  CommandsInv'
    <2>1. PICK r2 : r2 = [r EXCEPT !.pc = "preview", !.names = names]
      OBVIOUS
    <2>2. sess' = [sess EXCEPT ![s] = r2]
      BY <1>1, <1>2, <1>4, <2>1 DEF IsSession
    <2>3. /\ r2 = [pc |-> r2.pc, req |-> r2.req, names |-> r2.names, shown |-> r2.shown, mem |-> r2.mem,
                   todo |-> r2.todo, index |-> r2.index, adopt |-> r2.adopt]
          /\ r2.pc = "preview" /\ r2.req = r.req /\ r2.names = names /\ r2.todo = r.todo /\ r2.adopt = r.adopt
      BY <1>2, <2>1 DEF IsSession
    <2>4. names \subseteq Known
      BY <1>4 DEF Known, Written
    <2> QED BY <1>1, <1>2, <2>2, <2>3, <2>4, ReadsHold
  <1>5. PICK orphaned \in BOOLEAN :
          \/ Move(s, "done")
          \/ sess' = [sess EXCEPT ![s].pc = "preview",
                                  ![s].names = IF Runs(s, {"apply"}) /\ ~orphaned THEN config.names ELSE {}]
    BY DEF Load
  <1> QED BY <1>3, <1>4, <1>5

LEMMA PreviewHolds == ASSUME CommandsInv, NEW s \in Sessions, Preview(s) PROVE CommandsInv'
  <1> DEFINE plan == PlanFor(sess[s].names, states[Env(s)])
             pc == IF sess[s].req.auto THEN "approved" ELSE "asked"
  <1>1. PICK r : r = sess[s]
    OBVIOUS
  <1>2. DOMAIN sess = Sessions /\ IsSession(r) /\ r.pc = "preview" /\ UNCHANGED <<config, states, lock, world>>
        /\ r.names \subseteq Known
    BY <1>1 DEF CommandsInv, CommandsTypeOK, Preview, At, SessionHolds
  <1>3. CASE Move(s, "done")
    BY <1>1, <1>2, <1>3, MovesOut
  <1>4. CASE sess' = [sess EXCEPT ![s].pc = pc, ![s].shown = plan]
    <2>1. PICK r2 : r2 = [r EXCEPT !.pc = pc, !.shown = plan]
      OBVIOUS
    <2>0. pc \in {"approved", "asked"}
      OBVIOUS
    <2> HIDE DEF pc, plan
    <2>2. sess' = [sess EXCEPT ![s] = r2]
      BY <1>1, <1>2, <1>4, <2>1 DEF IsSession
    <2>3. /\ r2 = [pc |-> r2.pc, req |-> r2.req, names |-> r2.names, shown |-> r2.shown, mem |-> r2.mem,
                   todo |-> r2.todo, index |-> r2.index, adopt |-> r2.adopt]
          /\ r2.pc = pc /\ r2.req = r.req /\ r2.names = r.names /\ r2.todo = r.todo /\ r2.adopt = r.adopt
      BY <1>2, <2>1 DEF IsSession
    <2> QED BY <1>1, <1>2, <2>0, <2>2, <2>3, ReadsHold
  <1> QED BY <1>3, <1>4 DEF Preview

LEMMA ResolveHolds == ASSUME CommandsInv, NEW s \in Sessions, Resolve(s) PROVE CommandsInv'
  <1>1. PICK r : r = sess[s]
    OBVIOUS
  <1>2. DOMAIN sess = Sessions /\ IsSession(r) /\ r.pc = "resolve" /\ UNCHANGED <<config, states, lock, world>>
        /\ r.names \subseteq Known
    BY <1>1 DEF CommandsInv, CommandsTypeOK, Resolve, At, SessionHolds
  <1>3. CASE Move(s, "done")
    BY <1>1, <1>2, <1>3, MovesOut
  <1>4. ASSUME NEW pc \in {"approved", "asked"}, NEW mem, NEW shown,
               sess' = [sess EXCEPT ![s].pc = pc, ![s].mem = mem, ![s].shown = shown]
        PROVE  CommandsInv'
    <2>1. PICK r2 : r2 = [r EXCEPT !.pc = pc, !.mem = mem, !.shown = shown]
      OBVIOUS
    <2>2. sess' = [sess EXCEPT ![s] = r2]
      BY <1>1, <1>2, <1>4, <2>1 DEF IsSession
    <2>3. /\ r2 = [pc |-> r2.pc, req |-> r2.req, names |-> r2.names, shown |-> r2.shown, mem |-> r2.mem,
                   todo |-> r2.todo, index |-> r2.index, adopt |-> r2.adopt]
          /\ r2.pc = pc /\ r2.req = r.req /\ r2.names = r.names /\ r2.todo = r.todo /\ r2.adopt = r.adopt
      BY <1>2, <2>1 DEF IsSession
    <2> QED BY <1>1, <1>2, <2>2, <2>3, ReadsHold
  <1>5. CASE ~Move(s, "done")
    <2>1. sess' = [sess EXCEPT ![s].pc = IF sess[s].req.auto THEN "approved" ELSE "asked",
                               ![s].mem = states[Env(s)],
                               ![s].shown = {Op("forget", sess[s].req.name, states[Env(s)][sess[s].req.name])}]
      BY <1>5 DEF Resolve
    <2>2. (IF sess[s].req.auto THEN "approved" ELSE "asked") \in {"approved", "asked"}
      OBVIOUS
    <2> QED BY <1>4, <2>1, <2>2
  <1> QED BY <1>3, <1>5


LEMMA ConfirmHolds == ASSUME CommandsInv, NEW s \in Sessions, Confirm(s) PROVE CommandsInv'
  BY MovesOut DEF Confirm, At

LEMMA StopEarlyHolds == ASSUME CommandsInv, NEW s \in Sessions, StopEarly(s) PROVE CommandsInv'
  BY MovesOut DEF StopEarly, At, Inside

LEMMA CrashHolds == ASSUME CommandsInv, NEW s \in Sessions, Crash(s) PROVE CommandsInv'
  BY MovesOut DEF Crash

LEMMA TakeLockHolds == ASSUME CommandsInv, NEW s \in Sessions, TakeLock(s) PROVE CommandsInv'
  <1>1. PICK r : r = sess[s]
    OBVIOUS
  <1>2. CommandsTypeOK /\ DOMAIN sess = Sessions /\ IsSession(r) /\ r.pc = "approved"
        /\ UNCHANGED <<config, states, world>> /\ r.names \subseteq Known
    BY <1>1 DEF CommandsInv, CommandsTypeOK, TakeLock, At, SessionHolds
  <1>3. CASE Move(s, "done") /\ UNCHANGED lock
    BY <1>1, <1>2, <1>3, MovesOut
  <1>4. CASE /\ lock[Env(s)] = Free /\ lock' = [lock EXCEPT ![Env(s)] = s]
             /\ Move(s, InLock(sess[s].req.cmd))
    <2>1. r.req \in Requests /\ r.req.env \in Envs /\ Env(s) = r.req.env
      BY <1>1, <1>2, SessionEnv DEF Env
    <2>2. PICK pc : pc = InLock(r.req.cmd)
      OBVIOUS
    <2>3. /\ pc \in {"replan", "observe", "index", "remove"}
          /\ pc = "index" => r.req.cmd = "import"
          /\ pc = "remove" => r.req.cmd = "rm"
      <3>1. r.req.cmd \in {"apply", "destroy", "refresh", "rm", "import"}
        BY <2>1 DEF CommandsAssumption
      <3> QED BY <2>2, <3>1 DEF InLock
    <2>4. PICK r2 : r2 = [r EXCEPT !.pc = pc]
      OBVIOUS
    <2>5. sess' = [sess EXCEPT ![s] = r2]
      BY <1>1, <1>2, <1>4, <2>2, <2>4 DEF IsSession, Move
    <2>6. /\ r2 = [pc |-> r2.pc, req |-> r2.req, names |-> r2.names, shown |-> r2.shown, mem |-> r2.mem,
                   todo |-> r2.todo, index |-> r2.index, adopt |-> r2.adopt]
          /\ r2.pc = pc /\ r2.req = r.req /\ r2.names = r.names /\ r2.todo = r.todo /\ r2.adopt = r.adopt
      BY <1>2, <2>4 DEF IsSession
    <2>7. IsSession(r2)
      BY <1>2, <2>3, <2>6 DEF IsSession
    <2>8. /\ \A t \in Sessions : t # s => sess'[t] = sess[t]
          /\ DOMAIN sess' = Sessions /\ sess'[s] = r2
      BY <1>2, <2>5
    <2>9. /\ lock' \in [Envs -> Sessions \cup {Free}] /\ lock'[r.req.env] = s
          /\ \A e \in Envs : lock[e] \in Sessions \ {s} => lock'[e] = lock[e]
      BY <1>2, <1>4, <2>1 DEF CommandsTypeOK, CommandsAssumption
    <2>10. ASSUME Known \subseteq Known' PROVE SessionHolds(s)'
      BY <1>2, <2>3, <2>6, <2>8, <2>9, <2>10 DEF SessionHolds
    <2>11. Written' = Written /\ config' = config /\ states' = states /\ world' = world
      BY <1>2 DEF Written
    <2> QED BY <1>1, <1>2, <2>6, <2>7, <2>8, <2>9, <2>10, <2>11, SessionMoves DEF CommandsTypeOK
  <1> QED BY <1>3, <1>4 DEF TakeLock

\* A plan has one operation for a name, and each is due on the state it was made for.
LEMMA PlanIsDue ==
  ASSUME CommandsTypeOK, NEW r, Recorded(r.mem)
  PROVE  /\ \A a, b \in PlanFor(r.names, r.mem) : a.name = b.name => a = b
         /\ \A op \in PlanFor(r.names, r.mem) : Due(r, op)
  <1> DEFINE st == r.mem
             new == {n \in r.names : n \notin DOMAIN st \/ st[n] \notin Existing}
             kind(n) == IF st[n] \in Existing THEN "destroy" ELSE "forget"
  <1>1. \A n \in DOMAIN st : st[n] \in Objects /\ (st[n] \in Existing \/ world[st[n]] = "gone")
    BY DEF CommandsTypeOK, Recorded, Existing
  <1>2. \A op \in PlanFor(r.names, st) :
           \/ op.kind = "create" /\ op.name \in new /\ op = Op("create", op.name, NoObject)
           \/ /\ op.name \in DOMAIN st \ r.names /\ op.kind = kind(op.name) /\ op.obj = st[op.name]
              /\ op = Op(kind(op.name), op.name, st[op.name])
    <2> SUFFICES ASSUME NEW op \in PlanFor(r.names, st)
                 PROVE  \/ op.kind = "create" /\ op.name \in new /\ op = Op("create", op.name, NoObject)
                        \/ /\ op.name \in DOMAIN st \ r.names /\ op.kind = kind(op.name)
                           /\ op.obj = st[op.name] /\ op = Op(kind(op.name), op.name, st[op.name])
      OBVIOUS
    <2>1. CASE op \in {Op("create", n, NoObject) : n \in new}
      <3>1. PICK n \in new : op = Op("create", n, NoObject)
        BY <2>1
      <3>2. op.kind = "create" /\ op.name = n
        BY <3>1 DEF Op
      <3> QED BY <3>1, <3>2
    <2>2. CASE op \in {Op(kind(n), n, st[n]) : n \in DOMAIN st \ r.names}
      <3>1. PICK n \in DOMAIN st \ r.names : op = Op(kind(n), n, st[n])
        BY <2>2
      <3>2. op.kind = kind(n) /\ op.name = n /\ op.obj = st[n]
        BY <3>1 DEF Op
      <3> QED BY <3>1, <3>2
    <2> QED BY <2>1, <2>2 DEF PlanFor
  <1>3. ASSUME NEW a \in PlanFor(r.names, st), NEW b \in PlanFor(r.names, st), a.name = b.name
        PROVE  a = b
    <2>1. a.name \in r.names <=> b.name \in r.names
      BY <1>3
    <2>2. CASE a.name \in r.names
      BY <1>2, <1>3, <2>1, <2>2
    <2>3. CASE a.name \notin r.names
      BY <1>2, <1>3, <2>1, <2>3
    <2> QED BY <2>2, <2>3
  <1>4. ASSUME NEW op \in PlanFor(r.names, st) PROVE Due(r, op)
    <2>1. CASE op.kind = "create" /\ op.name \in new
      BY <1>1, <2>1 DEF Due
    <2>2. CASE op.name \in DOMAIN st \ r.names /\ op.kind = kind(op.name) /\ op.obj = st[op.name]
      BY <1>1, <2>2 DEF Due
    <2> QED BY <1>2, <2>1, <2>2
  <1> QED BY <1>3, <1>4

LEMMA ReplanHolds == ASSUME CommandsInv, NEW s \in Sessions, Replan(s) PROVE CommandsInv'
  <1> DEFINE plan == PlanFor(sess[s].names, states[Env(s)])
             pc == IF plan = {} THEN "unlock" ELSE "execute"
  <1>1. PICK r : r = sess[s]
    OBVIOUS
  <1>2. /\ CommandsTypeOK /\ DOMAIN sess = Sessions /\ IsSession(r) /\ r.pc = "replan"
        /\ UNCHANGED <<config, states, lock, world>> /\ r.names \subseteq Known
        /\ lock[r.req.env] = s
    BY <1>1 DEF CommandsInv, CommandsTypeOK, Replan, At, SessionHolds, Inside
  <1>3. CASE Move(s, "unlock")
    BY <1>1, <1>2, <1>3, MovesOut DEF Inside
  <1>4. CASE sess' = [sess EXCEPT ![s].pc = pc, ![s].mem = states[Env(s)], ![s].todo = plan]
    <2>1. r.req.env \in Envs /\ Env(s) = r.req.env
      BY <1>1, <1>2, SessionEnv DEF Env
    <2>2. PICK st : st = states[r.req.env]
      OBVIOUS
    <2>3. PICK r2 : r2 = [r EXCEPT !.pc = pc, !.mem = st, !.todo = plan]
      OBVIOUS
    <2>4. pc \in {"unlock", "execute"} /\ (plan # {} => pc = "execute") /\ plan = PlanFor(r.names, st)
      BY <1>1, <2>1, <2>2
    <2> HIDE DEF pc, plan
    <2>5. sess' = [sess EXCEPT ![s] = r2]
      BY <1>1, <1>2, <1>4, <2>1, <2>2, <2>3 DEF IsSession
    <2>6. /\ r2 = [pc |-> r2.pc, req |-> r2.req, names |-> r2.names, shown |-> r2.shown, mem |-> r2.mem,
                   todo |-> r2.todo, index |-> r2.index, adopt |-> r2.adopt]
          /\ r2.pc = pc /\ r2.req = r.req /\ r2.names = r.names /\ r2.todo = plan
          /\ r2.adopt = r.adopt /\ r2.mem = st
      BY <1>2, <2>3 DEF IsSession
    <2>7. IsSession(r2)
      BY <1>2, <2>4, <2>6 DEF IsSession
    <2>8. Recorded(r2.mem)
      BY <2>1, <2>2, <2>6 DEF CommandsInv
    <2>9. /\ \A a, b \in r2.todo : a.name = b.name => a = b
          /\ \A op \in r2.todo : Due(r2, op)
      BY <1>2, <2>4, <2>6, <2>8, PlanIsDue
    <2> QED BY <1>1, <1>2, <2>2, <2>4, <2>5, <2>6, <2>7, <2>8, <2>9, SessionThinks
  <1> QED BY <1>3, <1>4 DEF Replan


Noted(s, op, mem) ==
  sess' = [sess EXCEPT ![s].pc = "write", ![s].todo = sess[s].todo \ {op}, ![s].mem = mem]

\* What an operation did is noted, under its name and no other.
LEMMA NotedHolds ==
  ASSUME CommandsInv, NEW s \in Sessions, NEW r, NEW op, NEW mem,
         r = sess[s], r.pc = "execute", op \in r.todo, Noted(s, op, mem),
         UNCHANGED <<config, states, lock>>,
         world' \in [Objects -> {"unborn", "alive", "gone"}],
         \A o \in Objects : /\ world[o] # "unborn" => world'[o] # "unborn"
                            /\ world[o] = "gone" => world'[o] = "gone",
         DOMAIN r.mem \ {op.name} \subseteq DOMAIN mem, DOMAIN mem \subseteq DOMAIN r.mem \cup {op.name},
         \A n \in DOMAIN r.mem : n # op.name => mem[n] = r.mem[n],
         op.name \in DOMAIN mem => /\ op.name \in Known
                                   /\ mem[op.name] \in Objects /\ world'[mem[op.name]] # "unborn",
         op.name \in DOMAIN r.mem => world'[r.mem[op.name]] = "gone"
  PROVE  CommandsInv'
  <1>1. /\ CommandsTypeOK /\ DOMAIN sess = Sessions /\ IsSession(r) /\ SessionHolds(s)
        /\ r.req.env \in Envs
    BY SessionEnv DEF CommandsInv, CommandsTypeOK
  <1>2. PICK r2 : r2 = [r EXCEPT !.pc = "write", !.todo = r.todo \ {op}, !.mem = mem]
    OBVIOUS
  <1>3. sess' = [sess EXCEPT ![s] = r2]
    BY <1>1, <1>2 DEF IsSession, Noted
  <1>4. /\ r2 = [pc |-> r2.pc, req |-> r2.req, names |-> r2.names, shown |-> r2.shown, mem |-> r2.mem,
                 todo |-> r2.todo, index |-> r2.index, adopt |-> r2.adopt]
        /\ r2.pc = "write" /\ r2.req = r.req /\ r2.names = r.names /\ r2.todo = r.todo \ {op}
        /\ r2.adopt = r.adopt /\ r2.mem = mem
    BY <1>1, <1>2 DEF IsSession
  <1>5. IsSession(r2)
    BY <1>1, <1>4 DEF IsSession
  <1>6. /\ \A t \in Sessions : t # s => sess'[t] = sess[t]
        /\ DOMAIN sess' = Sessions /\ sess'[s] = r2
    BY <1>1, <1>3
  <1>7. /\ r.names \subseteq Known /\ lock[r.req.env] = s /\ r.mem = states[r.req.env]
        /\ Recorded(r.mem)
        /\ \A a, b \in r.todo : a.name = b.name => a = b
        /\ \A a \in r.todo : Due(r, a)
    BY <1>1 DEF SessionHolds, Inside
  <1>8. Written' = Written /\ config' = config /\ states' = states /\ lock' = lock
    BY DEF Written
  <1>9. ASSUME Known \subseteq Known' PROVE SessionHolds(s)'
    <2>1. Recorded(r2.mem)'
      <3>1. \A n \in DOMAIN r.mem : n \in Known' /\ r.mem[n] \in Objects /\ world'[r.mem[n]] # "unborn"
        BY <1>7, <1>9 DEF Recorded
      <3>2. \A n \in DOMAIN mem : n \in Known' /\ mem[n] \in Objects /\ world'[mem[n]] # "unborn"
        BY <1>9, <3>1
      <3> QED BY <1>4, <3>2 DEF Recorded
    <2>2. ASSUME NEW a \in r2.todo PROVE Due(r2, a)'
      <3>1. a \in r.todo /\ a.name # op.name /\ Due(r, a)
        BY <1>4, <1>7
      <3>2. \A n \in DOMAIN r.mem : r.mem[n] \in Objects
        BY <1>7 DEF Recorded
      <3>3. a.name \in DOMAIN r2.mem <=> a.name \in DOMAIN r.mem
        BY <1>4, <3>1
      <3>4. a.name \in DOMAIN r.mem => r2.mem[a.name] = r.mem[a.name]
        BY <1>4, <3>1
      <3>5. CASE a.kind = "create"
        BY <1>4, <3>1, <3>2, <3>3, <3>4, <3>5 DEF Due
      <3>6. CASE a.kind # "create"
        BY <1>4, <3>1, <3>2, <3>3, <3>4, <3>6 DEF Due
      <3> QED BY <3>5, <3>6
    <2>3. Covers(r2)'
      BY <1>4, <1>7, <1>8 DEF Covers
    <2> QED BY <1>4, <1>6, <1>7, <1>8, <1>9, <2>1, <2>2, <2>3 DEF SessionHolds
  <1>10. DOMAIN states' = Envs /\ lock' \in [Envs -> Sessions \cup {Free}]
    BY <1>1, <1>8 DEF CommandsTypeOK
  <1>11. config' = [names |-> config'.names, envs |-> config'.envs, dropped |-> config'.dropped]
    BY <1>1, <1>8 DEF CommandsTypeOK
  <1> QED BY <1>4, <1>5, <1>6, <1>8, <1>9, <1>10, <1>11, SessionMoves

LEMMA PerformHolds ==
  ASSUME CommandsInv, NEW s \in Sessions, NEW op, Perform(s, op) PROVE CommandsInv'
  <1>1. PICK r : r = sess[s]
    OBVIOUS
  <1>2. /\ r.pc = "execute" /\ op \in r.todo /\ UNCHANGED <<config, states, lock>>
        /\ world \in [Objects -> {"unborn", "alive", "gone"}]
    BY <1>1 DEF Perform, At, CommandsInv, CommandsTypeOK
  <1>3. Due(r, op) /\ Recorded(r.mem) /\ r.names \subseteq Known
    BY <1>1, <1>2 DEF CommandsInv, SessionHolds
  <1>4. \A n \in DOMAIN r.mem : r.mem[n] \in Objects /\ world[r.mem[n]] # "unborn"
    BY <1>3 DEF Recorded
  <1>5. CASE op.kind = "create"
    <2>1. PICK o \in Objects :
            /\ world[o] = "unborn" /\ world' = [world EXCEPT ![o] = "alive"]
            /\ sess' = [sess EXCEPT ![s].pc = "write", ![s].todo = sess[s].todo \ {op},
                                    ![s].mem = With(sess[s].mem, Only(op.name, o))]
      BY <1>5 DEF Perform
    <2>2. PICK mem : mem = With(r.mem, Only(op.name, o))
      OBVIOUS
    <2>3. DOMAIN mem = DOMAIN r.mem \cup {op.name} /\ mem[op.name] = o
          /\ \A n \in DOMAIN r.mem : n # op.name => mem[n] = r.mem[n]
      BY <2>2 DEF With, Only
    <2>4. op.name \in Known /\ (op.name \in DOMAIN r.mem => world[r.mem[op.name]] = "gone")
      BY <1>3, <1>5 DEF Due
    <2>5. /\ world' \in [Objects -> {"unborn", "alive", "gone"}] /\ world'[o] = "alive"
          /\ \A p \in Objects : p # o => world'[p] = world[p]
      BY <1>2, <2>1
    <2>6. op.name \in DOMAIN r.mem => world'[r.mem[op.name]] = "gone"
      BY <1>4, <2>1, <2>4, <2>5
    <2>7. Noted(s, op, mem)
      BY <1>1, <2>1, <2>2 DEF Noted
    <2>8. \A p \in Objects : /\ world[p] # "unborn" => world'[p] # "unborn"
                             /\ world[p] = "gone" => world'[p] = "gone"
      BY <2>1, <2>5
    <2>9. /\ DOMAIN r.mem \ {op.name} \subseteq DOMAIN mem /\ DOMAIN mem \subseteq DOMAIN r.mem \cup {op.name}
          /\ mem[op.name] \in Objects /\ world'[mem[op.name]] # "unborn"
      BY <2>3, <2>5
    <2> QED BY <1>1, <1>2, <2>3, <2>4, <2>5, <2>6, <2>7, <2>8, <2>9, NotedHolds
  <1>6. CASE op.kind # "create"
    <2>1. /\ world' = IF op.kind = "destroy" THEN [world EXCEPT ![op.obj] = "gone"] ELSE world
          /\ sess' = [sess EXCEPT ![s].pc = "write", ![s].todo = sess[s].todo \ {op},
                                  ![s].mem = Without(sess[s].mem, {op.name})]
      BY <1>6 DEF Perform
    <2>2. PICK mem : mem = Without(r.mem, {op.name})
      OBVIOUS
    <2>3. DOMAIN mem = DOMAIN r.mem \ {op.name} /\ \A n \in DOMAIN r.mem : n # op.name => mem[n] = r.mem[n]
      BY <2>2 DEF Without, Restrict
    <2>4. /\ op.name \in DOMAIN r.mem /\ op.obj = r.mem[op.name] /\ op.obj \in Objects
          /\ op.kind = "destroy" \/ world[op.obj] = "gone"
      BY <1>3, <1>4, <1>6 DEF Due
    <2>5. /\ world' \in [Objects -> {"unborn", "alive", "gone"}] /\ world'[op.obj] = "gone"
          /\ \A p \in Objects : p # op.obj => world'[p] = world[p]
      BY <1>2, <2>1, <2>4
    <2>6. \A o \in Objects : /\ world[o] # "unborn" => world'[o] # "unborn"
                             /\ world[o] = "gone" => world'[o] = "gone"
      BY <2>5
    <2>7. Noted(s, op, mem)
      BY <1>1, <2>1, <2>2 DEF Noted
    <2>8. /\ DOMAIN r.mem \ {op.name} \subseteq DOMAIN mem /\ DOMAIN mem \subseteq DOMAIN r.mem \cup {op.name}
          /\ op.name \notin DOMAIN mem
      BY <2>3
    <2>9. world'[r.mem[op.name]] = "gone"
      BY <2>4, <2>5
    <2> QED BY <1>1, <1>2, <2>3, <2>5, <2>6, <2>7, <2>8, <2>9, NotedHolds
  <1> QED BY <1>5, <1>6


Recalls(s, pc, mem) == sess' = [sess EXCEPT ![s].pc = pc, ![s].mem = mem]

LEMMA RecallsFields ==
  ASSUME CommandsInv, NEW s \in Sessions, NEW r, NEW pc, NEW mem, r = sess[s], Recalls(s, pc, mem)
  PROVE  \E r2 : /\ sess' = [sess EXCEPT ![s] = r2]
                 /\ r2 = [pc |-> r2.pc, req |-> r2.req, names |-> r2.names, shown |-> r2.shown,
                          mem |-> r2.mem, todo |-> r2.todo, index |-> r2.index, adopt |-> r2.adopt]
                 /\ r2.pc = pc /\ r2.req = r.req /\ r2.names = r.names /\ r2.todo = r.todo
                 /\ r2.adopt = r.adopt /\ r2.mem = mem
  <1>1. DOMAIN sess = Sessions /\ IsSession(r)
    BY DEF CommandsInv, CommandsTypeOK
  <1>2. PICK r2 : r2 = [r EXCEPT !.pc = pc, !.mem = mem]
    OBVIOUS
  <1>3. sess' = [sess EXCEPT ![s] = r2]
    BY <1>1, <1>2 DEF IsSession, Recalls
  <1>4. /\ r2 = [pc |-> r2.pc, req |-> r2.req, names |-> r2.names, shown |-> r2.shown,
                 mem |-> r2.mem, todo |-> r2.todo, index |-> r2.index, adopt |-> r2.adopt]
        /\ r2.pc = pc /\ r2.req = r.req /\ r2.names = r.names /\ r2.todo = r.todo
        /\ r2.adopt = r.adopt /\ r2.mem = mem
    BY <1>1, <1>2 DEF IsSession
  <1> QED BY <1>3, <1>4

\* What is to be written, or nothing after all.
LEMMA WritesNext ==
  ASSUME CommandsInv, NEW s \in Sessions, NEW r, NEW r2, r = sess[s],
         sess' = [sess EXCEPT ![s] = r2], IsSession(r2), r2.pc \in {"write", "unlock"},
         UNCHANGED <<config, states, lock, world>>, r2.req = r.req, r2.adopt = r.adopt,
         r2.names \subseteq Known, r2.todo = {}, lock[r2.req.env] = s,
         Recorded(r2.mem), Covers(r2)
  PROVE  CommandsInv'
  <1>1. /\ \A a, b \in r2.todo : a.name = b.name => a = b
        /\ \A op \in r2.todo : Due(r2, op)
    OBVIOUS
  <1> QED BY <1>1, SessionThinks

\* A part of the state is kept; what is not kept is gone or was asked to be removed.
KeptOf(r, st, mem) ==
  /\ \A n \in DOMAIN mem : n \in DOMAIN st /\ mem[n] = st[n]
  /\ \A n \in DOMAIN st :
       \/ n \in DOMAIN mem
       \/ world[st[n]] = "gone"
       \/ r.req.cmd = "rm" /\ r.req.name = n

LEMMA KeptHolds ==
  ASSUME CommandsInv, NEW s \in Sessions, NEW r, NEW pc \in {"write", "unlock"}, NEW st, NEW mem,
         r = sess[s], r.pc \in {"observe", "remove"}, Recalls(s, pc, mem), st = states[r.req.env],
         UNCHANGED <<config, states, lock, world>>, KeptOf(r, st, mem)
  PROVE  CommandsInv'
  <1>1. /\ IsSession(r) /\ r.names \subseteq Known /\ lock[r.req.env] = s /\ r.req.env \in Envs
        /\ Recorded(st)
    BY SessionEnv DEF CommandsInv, CommandsTypeOK, SessionHolds, Inside
  <1>2. PICK r2 : /\ sess' = [sess EXCEPT ![s] = r2]
                  /\ r2 = [pc |-> r2.pc, req |-> r2.req, names |-> r2.names, shown |-> r2.shown,
                           mem |-> r2.mem, todo |-> r2.todo, index |-> r2.index, adopt |-> r2.adopt]
                  /\ r2.pc = pc /\ r2.req = r.req /\ r2.names = r.names /\ r2.todo = r.todo
                  /\ r2.adopt = r.adopt /\ r2.mem = mem
    BY RecallsFields
  <1>3. r2.todo = {} /\ IsSession(r2)
    BY <1>1, <1>2 DEF IsSession
  <1>4. Recorded(r2.mem)
    BY <1>1, <1>2 DEF Recorded, KeptOf
  <1>5. Covers(r2)
    <2>1. r2.mem = mem /\ r2.req = r.req /\ states[r2.req.env] = st
      BY <1>2
    <2> QED BY <2>1 DEF Covers, KeptOf
  <1>6. /\ r2.names \subseteq Known /\ lock[r2.req.env] = s /\ r2.pc \in {"write", "unlock"}
        /\ r2.req = r.req /\ r2.adopt = r.adopt /\ sess' = [sess EXCEPT ![s] = r2]
    BY <1>1, <1>2
  <1> QED BY <1>3, <1>4, <1>5, <1>6, WritesNext

LEMMA ApplyObservationsHolds == ASSUME CommandsInv, NEW s \in Sessions, ApplyObservations(s) PROVE CommandsInv'
  <1>1. PICK r : r = sess[s]
    OBVIOUS
  <1>2. /\ DOMAIN sess = Sessions /\ r.pc = "observe" /\ r.req.env \in Envs
        /\ UNCHANGED <<config, states, lock, world>> /\ Recorded(states[r.req.env])
        /\ world \in [Objects -> {"unborn", "alive", "gone"}] /\ Env(s) = r.req.env
    BY <1>1, SessionEnv DEF CommandsInv, CommandsTypeOK, ApplyObservations, At, Env
  <1>3. PICK st : st = states[r.req.env]
    OBVIOUS
  <1>4. PICK failed \in SUBSET DOMAIN st :
          sess' = [sess EXCEPT ![s].pc = IF DOMAIN st \subseteq failed THEN "unlock" ELSE "write",
                               ![s].mem = Without(st, FoundGone(st, failed))]
    BY <1>2, <1>3 DEF ApplyObservations
  <1>5. PICK pc : pc = IF DOMAIN st \subseteq failed THEN "unlock" ELSE "write"
    OBVIOUS
  <1>6. PICK mem : mem = Without(st, FoundGone(st, failed))
    OBVIOUS
  <1>7. DOMAIN mem = DOMAIN st \ FoundGone(st, failed) /\ \A n \in DOMAIN mem : mem[n] = st[n]
    BY <1>6 DEF Without, Restrict
  <1>8. Recalls(s, pc, mem)
    BY <1>4, <1>5, <1>6 DEF Recalls
  <1>9. \A n \in DOMAIN st : n \in DOMAIN mem \/ world[st[n]] = "gone"
    <2>1. \A n \in DOMAIN st : st[n] \in Objects /\ world[st[n]] # "unborn"
      BY <1>2, <1>3 DEF Recorded
    <2>2. \A n \in FoundGone(st, failed) : st[n] \notin Existing
      BY DEF FoundGone
    <2>3. \A n \in DOMAIN st : st[n] \notin Existing => world[st[n]] = "gone"
      BY <1>2, <2>1 DEF Existing
    <2> QED BY <1>7, <2>2, <2>3
  <1>10. KeptOf(r, st, mem)
    <2>1. \A n \in DOMAIN mem : n \in DOMAIN st /\ mem[n] = st[n]
      BY <1>7
    <2>2. \A n \in DOMAIN st : n \in DOMAIN mem \/ world[st[n]] = "gone" \/ (r.req.cmd = "rm" /\ r.req.name = n)
      BY <1>9
    <2> QED BY <2>1, <2>2, Zenon DEF KeptOf
  <1>11. pc \in {"write", "unlock"} /\ st = states[r.req.env] /\ r = sess[s]
    BY <1>1, <1>3, <1>5
  <1> QED BY <1>2, <1>8, <1>10, <1>11, KeptHolds

LEMMA RemoveHolds == ASSUME CommandsInv, NEW s \in Sessions, Remove(s) PROVE CommandsInv'
  <1>1. PICK r : r = sess[s]
    OBVIOUS
  <1>2. /\ DOMAIN sess = Sessions /\ r.pc = "remove" /\ r.req.cmd = "rm" /\ r.req.env \in Envs
        /\ UNCHANGED <<config, states, lock, world>> /\ Env(s) = r.req.env
    BY <1>1, SessionEnv DEF CommandsInv, CommandsTypeOK, Remove, At, Env, IsSession
  <1>3. CASE Move(s, "unlock")
    BY <1>1, <1>2, <1>3, MovesOut DEF Inside
  <1>4. CASE ~Move(s, "unlock")
    <2>1. PICK st : st = states[r.req.env]
      OBVIOUS
    <2>2. PICK mem : mem = Without(st, {r.req.name})
      OBVIOUS
    <2>3. Recalls(s, "write", mem)
      BY <1>1, <1>2, <1>4, <2>1, <2>2 DEF Remove, Recalls
    <2>4. DOMAIN mem = DOMAIN st \ {r.req.name} /\ \A n \in DOMAIN mem : mem[n] = st[n]
      BY <2>2 DEF Without, Restrict
    <2>5. KeptOf(r, st, mem)
      <3>1. \A n \in DOMAIN mem : n \in DOMAIN st /\ mem[n] = st[n]
        BY <2>4
      <3>2. \A n \in DOMAIN st : n \in DOMAIN mem \/ world[st[n]] = "gone" \/ (r.req.cmd = "rm" /\ r.req.name = n)
        BY <1>2, <2>4
      <3> QED BY <3>1, <3>2, Zenon DEF KeptOf
    <2> QED BY <1>1, <1>2, <2>1, <2>3, <2>5, KeptHolds
  <1> QED BY <1>3, <1>4


\* import: what others manage is read, without their locks.
LEMMA IndexHolds == ASSUME CommandsInv, NEW s \in Sessions, Index(s) PROVE CommandsInv'
  <1>1. PICK r : r = sess[s]
    OBVIOUS
  <1>2. /\ DOMAIN sess = Sessions /\ IsSession(r) /\ SessionHolds(s) /\ r.pc = "index"
        /\ UNCHANGED <<config, states, lock, world>>
    BY <1>1 DEF CommandsInv, CommandsTypeOK, Index, At
  <1>3. CASE Move(s, "unlock")
    BY <1>1, <1>2, <1>3, MovesOut DEF Inside
  <1>4. CASE ~Move(s, "unlock")
    <2>1. PICK ix : sess' = [sess EXCEPT ![s].pc = "select", ![s].index = ix]
      BY <1>4 DEF Index
    <2>2. PICK r2 : r2 = [r EXCEPT !.pc = "select", !.index = ix]
      OBVIOUS
    <2>3. sess' = [sess EXCEPT ![s] = r2]
      BY <1>1, <1>2, <2>1, <2>2 DEF IsSession
    <2>4. /\ r2 = [pc |-> r2.pc, req |-> r2.req, names |-> r2.names, shown |-> r2.shown, mem |-> r2.mem,
                   todo |-> r2.todo, index |-> r2.index, adopt |-> r2.adopt]
          /\ r2.pc = "select" /\ r2.req = r.req /\ r2.names = r.names /\ r2.todo = r.todo /\ r2.adopt = r.adopt
      BY <1>2, <2>2 DEF IsSession
    <2>5. IsSession(r2)
      BY <1>2, <2>4 DEF IsSession
    <2>6. r2.names \subseteq Known /\ lock[r2.req.env] = s
      BY <1>1, <1>2, <2>4 DEF SessionHolds, Inside
    <2> QED BY <1>1, <1>2, <2>3, <2>4, <2>5, <2>6, SessionThinks
  <1> QED BY <1>3, <1>4

\* What is taken up is not recorded here yet, under that name or another.
LEMMA SelectHolds == ASSUME CommandsInv, NEW s \in Sessions, Select(s) PROVE CommandsInv'
  <1>1. PICK r : r = sess[s]
    OBVIOUS
  <1>2. /\ DOMAIN sess = Sessions /\ IsSession(r) /\ SessionHolds(s) /\ r.pc = "select"
        /\ UNCHANGED <<config, states, lock, world>>
    BY <1>1 DEF CommandsInv, CommandsTypeOK, Select, At
  <1>3. CASE Move(s, "unlock")
    BY <1>1, <1>2, <1>3, MovesOut DEF Inside
  <1>4. CASE ~Move(s, "unlock")
    <2>1. PICK adopt : /\ ~AlreadyHere(adopt, states[r.req.env])
                       /\ sess' = [sess EXCEPT ![s].pc = After("select", r.req), ![s].adopt = adopt,
                                               ![s].mem = states[r.req.env]]
      BY <1>1, <1>4 DEF Select
    <2>2. PICK pc, st : pc = After("select", r.req) /\ st = states[r.req.env]
      OBVIOUS
    <2>3. PICK r2 : r2 = [r EXCEPT !.pc = pc, !.adopt = adopt, !.mem = st]
      OBVIOUS
    <2>4. sess' = [sess EXCEPT ![s] = r2]
      BY <1>1, <1>2, <2>1, <2>2, <2>3 DEF IsSession
    <2>5. /\ r2 = [pc |-> r2.pc, req |-> r2.req, names |-> r2.names, shown |-> r2.shown, mem |-> r2.mem,
                   todo |-> r2.todo, index |-> r2.index, adopt |-> r2.adopt]
          /\ r2.pc = pc /\ r2.req = r.req /\ r2.names = r.names /\ r2.todo = r.todo /\ r2.adopt = adopt
          /\ r2.mem = st
      BY <1>2, <2>3 DEF IsSession
    <2>6. /\ pc \in {"generate", "adopt"} /\ (pc = "adopt" => ~r.req.generate)
          /\ DOMAIN adopt \cap DOMAIN st = {}
      BY <2>1, <2>2 DEF After, AlreadyHere
    <2>7. IsSession(r2) /\ DOMAIN r.adopt = {}
      BY <1>2, <2>5, <2>6 DEF IsSession
    <2>8. r2.names \subseteq Known /\ lock[r2.req.env] = s
      BY <1>1, <1>2, <2>5 DEF SessionHolds, Inside
    <2> QED BY <1>1, <1>2, <2>2, <2>4, <2>5, <2>6, <2>7, <2>8, SessionThinks
  <1> QED BY <1>3, <1>4

\* Each is read once more, and then recorded beside what is there.
LEMMA AdoptHolds == ASSUME CommandsInv, NEW s \in Sessions, Adopt(s) PROVE CommandsInv'
  <1>1. PICK r : r = sess[s]
    OBVIOUS
  <1>2. /\ DOMAIN sess = Sessions /\ IsSession(r) /\ SessionHolds(s) /\ r.pc = "adopt"
        /\ UNCHANGED <<config, states, lock, world>> /\ r.req \in Requests /\ r.req.env \in Envs
        /\ Recorded(states[r.req.env]) /\ r.req.cmd = "import"
    BY <1>1, SessionEnv DEF CommandsInv, CommandsTypeOK, Adopt, At, IsSession
  <1>3. CASE Move(s, "unlock")
    BY <1>1, <1>2, <1>3, MovesOut DEF Inside
  <1>4. CASE ~Move(s, "unlock")
    <2>1. PICK mem : mem = With(r.mem, r.adopt)
      OBVIOUS
    <2>2. Recalls(s, "write", mem) /\ \A n \in DOMAIN r.adopt : r.adopt[n] \in Existing
      BY <1>1, <1>4, <2>1 DEF Adopt, Recalls, After, Range
    <2>3. PICK st : st = states[r.req.env]
      OBVIOUS
    <2>4. r.mem = st /\ DOMAIN r.adopt \cap DOMAIN st = {} /\ r.names \subseteq Known /\ lock[r.req.env] = s
      BY <1>1, <1>2, <2>3 DEF SessionHolds, Inside
    <2>5. /\ DOMAIN mem = DOMAIN st \cup DOMAIN r.adopt
          /\ \A n \in DOMAIN st : mem[n] = st[n]
          /\ \A n \in DOMAIN r.adopt : mem[n] = r.adopt[n]
      BY <2>1, <2>4 DEF With
    <2>6. DOMAIN r.adopt \subseteq Known
      <3>1. CASE r.req.generate
        BY <1>1, <1>2, <3>1 DEF SessionHolds, Known
      <3>2. CASE ~r.req.generate
        BY <1>1, <1>2, <3>2 DEF AdoptedByHand, Known, Runs
      <3> QED BY <3>1, <3>2
    <2>7. Recorded(mem)
      <3>1. \A n \in DOMAIN st : n \in Known /\ st[n] \in Objects /\ world[st[n]] # "unborn"
        BY <1>2, <2>3 DEF Recorded
      <3>2. \A n \in DOMAIN r.adopt : n \in Known /\ r.adopt[n] \in Objects /\ world[r.adopt[n]] # "unborn"
        BY <2>2, <2>6 DEF Existing
      <3>3. \A n \in DOMAIN mem : n \in Known /\ mem[n] \in Objects /\ world[mem[n]] # "unborn"
        BY <2>5, <3>1, <3>2
      <3> QED BY <3>3 DEF Recorded
    <2>8. PICK r2 : /\ sess' = [sess EXCEPT ![s] = r2]
                    /\ r2 = [pc |-> r2.pc, req |-> r2.req, names |-> r2.names, shown |-> r2.shown,
                             mem |-> r2.mem, todo |-> r2.todo, index |-> r2.index, adopt |-> r2.adopt]
                    /\ r2.pc = "write" /\ r2.req = r.req /\ r2.names = r.names /\ r2.todo = r.todo
                    /\ r2.adopt = r.adopt /\ r2.mem = mem
      BY <1>1, <2>2, RecallsFields
    <2>9. r2.todo = {} /\ IsSession(r2)
      BY <1>2, <2>8 DEF IsSession
    <2>10. Covers(r2)
      <3>1. states[r2.req.env] = st /\ \A n \in DOMAIN st : n \in DOMAIN r2.mem /\ r2.mem[n] = st[n]
        BY <2>3, <2>5, <2>8
      <3> QED BY <3>1 DEF Covers
    <2>11. /\ r2.names \subseteq Known /\ lock[r2.req.env] = s /\ r2.pc \in {"write", "unlock"}
           /\ r2.req = r.req /\ r2.adopt = r.adopt /\ sess' = [sess EXCEPT ![s] = r2] /\ Recorded(r2.mem)
      BY <2>4, <2>7, <2>8
    <2> QED BY <1>1, <1>2, <2>9, <2>10, <2>11, WritesNext
  <1> QED BY <1>3, <1>4

\* The files name what is about to be adopted before anything is recorded.
LEMMA WriteGeneratedHolds == ASSUME CommandsInv, NEW s \in Sessions, WriteGenerated(s) PROVE CommandsInv'
  <1>1. PICK r : r = sess[s]
    OBVIOUS
  <1>2. /\ CommandsTypeOK /\ DOMAIN sess = Sessions /\ IsSession(r) /\ SessionHolds(s) /\ r.pc = "generate"
        /\ UNCHANGED <<states, lock, world>> /\ r.req.env \in Envs /\ r.req \in Requests
    BY <1>1, SessionEnv DEF CommandsInv, CommandsTypeOK, WriteGenerated, At
  <1>3. CASE Move(s, "unlock") /\ UNCHANGED config
    BY <1>1, <1>2, <1>3, MovesOut DEF Inside
  <1>4. CASE /\ config' = [config EXCEPT !.names = @ \cup DOMAIN sess[s].adopt]
             /\ Move(s, After("generate", sess[s].req))
    <2>1. After("generate", sess[s].req) = "adopt"
      BY DEF After
    <2>2. PICK r2 : r2 = [r EXCEPT !.pc = "adopt"]
      OBVIOUS
    <2>3. sess' = [sess EXCEPT ![s] = r2]
      BY <1>1, <1>2, <1>4, <2>1, <2>2 DEF Move, IsSession
    <2>4. /\ r2 = [pc |-> r2.pc, req |-> r2.req, names |-> r2.names, shown |-> r2.shown, mem |-> r2.mem,
                   todo |-> r2.todo, index |-> r2.index, adopt |-> r2.adopt]
          /\ r2.pc = "adopt" /\ r2.req = r.req /\ r2.names = r.names /\ r2.todo = r.todo
          /\ r2.adopt = r.adopt /\ r2.mem = r.mem
      BY <1>2, <2>2 DEF IsSession
    <2>5. IsSession(r2)
      BY <1>2, <2>4 DEF IsSession
    <2>6. /\ config' = [names |-> config'.names, envs |-> config'.envs, dropped |-> config'.dropped]
          /\ config'.names = config.names \cup DOMAIN r.adopt /\ config'.dropped = config.dropped
      BY <1>1, <1>2, <1>4 DEF CommandsTypeOK
    <2>7. Written \subseteq Written' /\ DOMAIN r.adopt \subseteq Written'
      BY <2>6 DEF Written
    <2>8. /\ \A t \in Sessions : t # s => sess'[t] = sess[t]
          /\ DOMAIN sess' = Sessions /\ sess'[s] = r2
      BY <1>2, <2>3
    <2>9. /\ r.names \subseteq Known /\ lock[r.req.env] = s /\ r.mem = states[r.req.env]
          /\ DOMAIN r.adopt \cap DOMAIN r.mem = {}
      BY <1>1, <1>2 DEF SessionHolds, Inside
    <2>10. ASSUME Known \subseteq Known' PROVE SessionHolds(s)'
      <3>1. r2.names \subseteq Known' /\ lock'[r2.req.env] = s /\ r2.mem = states'[r2.req.env]
        BY <1>2, <2>4, <2>9, <2>10
      <3>2. DOMAIN r2.adopt \cap DOMAIN r2.mem = {} /\ DOMAIN r2.adopt \subseteq Written'
        BY <2>4, <2>7, <2>9
      <3> QED BY <2>4, <2>8, <3>1, <3>2 DEF SessionHolds
    <2>11. sess'[s].req = sess[s].req /\ sess'[s].adopt = sess[s].adopt
      BY <1>1, <2>4, <2>8
    <2> QED BY <1>2, <2>5, <2>6, <2>7, <2>8, <2>10, <2>11, SessionMoves DEF CommandsTypeOK
  <1> QED BY <1>3, <1>4 DEF WriteGenerated


\* What is in memory is stored, and an execution goes on from exactly what it stored.
LEMMA WriteHolds == ASSUME CommandsInv, NEW s \in Sessions, Write(s) PROVE CommandsInv'
  <1>1. PICK r : r = sess[s]
    OBVIOUS
  <1>2. /\ CommandsTypeOK /\ DOMAIN sess = Sessions /\ IsSession(r) /\ SessionHolds(s) /\ r.pc = "write"
        /\ UNCHANGED <<config, lock, world>> /\ r.req.env \in Envs /\ r.req \in Requests /\ Env(s) = r.req.env
    BY <1>1, SessionEnv DEF CommandsInv, CommandsTypeOK, Write, At, Env
  <1>3. /\ r.names \subseteq Known /\ lock[r.req.env] = s /\ Recorded(r.mem)
        /\ \A a, b \in r.todo : a.name = b.name => a = b
        /\ \A op \in r.todo : Due(r, op)
    BY <1>1, <1>2 DEF SessionHolds, Inside
  <1>4. PICK pc : /\ pc \in {"execute", "unlock"} /\ (r.todo # {} => pc = "execute")
                  /\ Move(s, pc)
    <2>1. After("write", r.req) = "unlock"
      BY DEF After
    <2> QED BY <1>1, <2>1 DEF Write
  <1>5. PICK r2 : r2 = [r EXCEPT !.pc = pc]
    OBVIOUS
  <1>6. sess' = [sess EXCEPT ![s] = r2]
    BY <1>1, <1>2, <1>4, <1>5 DEF Move, IsSession
  <1>7. /\ r2 = [pc |-> r2.pc, req |-> r2.req, names |-> r2.names, shown |-> r2.shown, mem |-> r2.mem,
                 todo |-> r2.todo, index |-> r2.index, adopt |-> r2.adopt]
        /\ r2.pc = pc /\ r2.req = r.req /\ r2.names = r.names /\ r2.todo = r.todo
        /\ r2.adopt = r.adopt /\ r2.mem = r.mem
    BY <1>2, <1>5 DEF IsSession
  <1>8. IsSession(r2)
    BY <1>2, <1>4, <1>7 DEF IsSession
  <1>9. /\ \A t \in Sessions : t # s => sess'[t] = sess[t]
        /\ DOMAIN sess' = Sessions /\ sess'[s] = r2
    BY <1>2, <1>6
  <1>10. /\ DOMAIN states' = Envs /\ states'[r.req.env] = r.mem
         /\ \A e \in Envs : e # r.req.env => states'[e] = states[e]
    BY <1>1, <1>2 DEF CommandsTypeOK, Write
  <1>11. Written' = Written
    BY <1>2 DEF Written
  <1>12. ASSUME Known \subseteq Known' PROVE SessionHolds(s)'
    <2>1. Recorded(r2.mem)' /\ \A op \in r2.todo : Due(r2, op)'
      <3>1. r2' = r2 /\ world' = world /\ Recorded(r2.mem)
        BY <1>2, <1>3, <1>7
      <3>2. Recorded(r2.mem)'
        BY <1>12, <3>1 DEF Recorded
      <3>3. \A op \in r2.todo : Due(r2, op)'
        BY <1>3, <1>7, <3>1 DEF Due
      <3> QED BY <3>2, <3>3
    <2>2. /\ r2.names \subseteq Known' /\ lock'[r2.req.env] = s /\ r2.mem = states'[r2.req.env]
          /\ \A a, b \in r2.todo : a.name = b.name => a = b
      BY <1>2, <1>3, <1>7, <1>10, <1>12
    <2>3. r2.pc \in {"execute", "unlock"} /\ Inside' = Inside
      BY <1>4, <1>7 DEF Inside
    <2> QED BY <1>9, <2>1, <2>2, <2>3 DEF SessionHolds
  <1>13. /\ \A e \in Envs : lock[e] \in Sessions \ {s} => lock'[e] = lock[e] /\ states'[e] = states[e]
         /\ \A e \in Envs : states'[e] = states[e] \/ Recorded(states'[e])
    BY <1>2, <1>3, <1>10
  <1>14. sess'[s].req = sess[s].req /\ sess'[s].adopt = sess[s].adopt
    BY <1>1, <1>7, <1>9
  <1> QED BY <1>2, <1>8, <1>9, <1>10, <1>11, <1>12, <1>13, <1>14, SessionMoves DEF CommandsTypeOK

LEMMA UnlockHolds == ASSUME CommandsInv, NEW s \in Sessions, Unlock(s) PROVE CommandsInv'
  <1>1. PICK r : r = sess[s]
    OBVIOUS
  <1>2. /\ CommandsTypeOK /\ DOMAIN sess = Sessions /\ IsSession(r) /\ SessionHolds(s) /\ r.pc = "unlock"
        /\ UNCHANGED <<config, states, world>> /\ r.req.env \in Envs /\ r.req \in Requests /\ Env(s) = r.req.env
    BY <1>1, SessionEnv DEF CommandsInv, CommandsTypeOK, Unlock, At, Env
  <1>3. r.names \subseteq Known /\ lock[r.req.env] = s
    BY <1>1, <1>2 DEF SessionHolds, Inside
  <1>4. PICK r2 : r2 = [r EXCEPT !.pc = "done"]
    OBVIOUS
  <1>5. sess' = [sess EXCEPT ![s] = r2]
    BY <1>1, <1>2, <1>4 DEF Move, IsSession, Unlock
  <1>6. /\ r2 = [pc |-> r2.pc, req |-> r2.req, names |-> r2.names, shown |-> r2.shown, mem |-> r2.mem,
                 todo |-> r2.todo, index |-> r2.index, adopt |-> r2.adopt]
        /\ r2.pc = "done" /\ r2.req = r.req /\ r2.names = r.names /\ r2.todo = r.todo
        /\ r2.adopt = r.adopt
    BY <1>2, <1>4 DEF IsSession
  <1>7. IsSession(r2)
    BY <1>2, <1>6 DEF IsSession
  <1>8. /\ \A t \in Sessions : t # s => sess'[t] = sess[t]
        /\ DOMAIN sess' = Sessions /\ sess'[s] = r2
    BY <1>2, <1>5
  <1>9. /\ lock' \in [Envs -> Sessions \cup {Free}]
        /\ \A e \in Envs : lock[e] \in Sessions \ {s} => lock'[e] = lock[e]
    BY <1>2, <1>3 DEF CommandsTypeOK, Unlock
  <1>10. Written' = Written
    BY <1>2 DEF Written
  <1>11. ASSUME Known \subseteq Known' PROVE SessionHolds(s)'
    BY <1>3, <1>6, <1>8, <1>11 DEF SessionHolds, Inside
  <1>12. sess'[s].req = sess[s].req /\ sess'[s].adopt = sess[s].adopt
    BY <1>1, <1>6, <1>8
  <1> QED BY <1>2, <1>7, <1>8, <1>9, <1>10, <1>11, <1>12, SessionMoves DEF CommandsTypeOK

\* What happens beside the sessions.
LEMMA BesideHolds ==
  ASSUME CommandsInv, UNCHANGED <<states, sess>>, Written \subseteq Written',
         config' = [names |-> config'.names, envs |-> config'.envs, dropped |-> config'.dropped],
         lock' \in [Envs -> Sessions \cup {Free}], world' \in [Objects -> {"unborn", "alive", "gone"}],
         \A o \in Objects : /\ world[o] # "unborn" => world'[o] # "unborn"
                            /\ world[o] = "gone" => world'[o] = "gone",
         \A t \in Sessions : t # Free /\ (sess[t].pc = "done" \/ \A e \in Envs : lock[e] = t => lock'[e] = t)
  PROVE  CommandsInv'
  <1>1. Known \subseteq Known'
    BY DEF Known, AdoptedByHand, Runs
  <1>2. ASSUME NEW t \in Sessions PROVE SessionHolds(t)'
    <2>1. CASE sess[t].pc = "done"
      <3>1. SessionHolds(t) /\ sess'[t] = sess[t]
        BY DEF CommandsInv
      <3> QED BY <1>1, <2>1, <3>1 DEF SessionHolds, Inside
    <2>2. CASE sess[t].pc # "done"
      BY <1>1, <2>2, OthersHold
    <2> QED BY <2>1, <2>2
  <1>3. ASSUME NEW e \in Envs PROVE Recorded(states[e])'
    <2>1. PICK st : st = states[e] /\ Recorded(st)
      BY DEF CommandsInv
    <2> QED BY <1>1, <2>1, RecordedStays DEF Recorded
  <1>4. CommandsTypeOK'
    BY DEF CommandsInv, CommandsTypeOK, IsSession
  <1> QED BY <1>2, <1>3, <1>4 DEF CommandsInv

LEMMA OutsideHolds ==
  ASSUME CommandsInv, \/ \E e \in Envs : ForceUnlock(e)
                      \/ \E o \in Objects : Vanish(o)
                      \/ Edit
                      \/ UNCHANGED commandVars
  PROVE  CommandsInv'
  <1>1. CommandsTypeOK /\ \A t \in Sessions : t # Free
    BY DEF CommandsInv, CommandsAssumption
  <1>2. ASSUME NEW e \in Envs, ForceUnlock(e) PROVE CommandsInv'
    <2>1. /\ UNCHANGED <<config, states, world, sess>> /\ lock' = [lock EXCEPT ![e] = Free]
          /\ sess[lock[e]].pc = "done"
      BY <1>2 DEF ForceUnlock, At
    <2>2. \A t \in Sessions : sess[t].pc = "done" \/ \A d \in Envs : lock[d] = t => lock'[d] = t
      BY <1>1, <2>1 DEF CommandsTypeOK
    <2>3. Written' = Written
      BY <2>1 DEF Written
    <2> QED BY <1>1, <2>1, <2>2, <2>3, BesideHolds DEF CommandsTypeOK
  <1>3. ASSUME NEW o \in Objects, Vanish(o) PROVE CommandsInv'
    <2>1. /\ UNCHANGED <<config, states, lock, sess>> /\ world' = [world EXCEPT ![o] = "gone"]
          /\ Written' = Written
      BY <1>3 DEF Vanish, Written
    <2> QED BY <1>1, <2>1, BesideHolds DEF CommandsTypeOK
  <1>4. ASSUME Edit PROVE CommandsInv'
    <2>1. UNCHANGED <<states, lock, world, sess>>
      BY <1>4 DEF Edit
    <2>2. /\ config' = [names |-> config'.names, envs |-> config'.envs, dropped |-> config'.dropped]
          /\ Written \subseteq Written'
      <3>1. CASE \E n \in config.names :
                   config' = [config EXCEPT !.names = @ \ {n}, !.dropped = @ \cup {n}]
        <4>1. PICK n \in config.names : config' = [config EXCEPT !.names = @ \ {n}, !.dropped = @ \cup {n}]
          BY <3>1
        <4>2. /\ config' = [names |-> config'.names, envs |-> config'.envs, dropped |-> config'.dropped]
              /\ config'.names = config.names \ {n} /\ config'.dropped = config.dropped \cup {n}
          BY <1>1, <4>1 DEF CommandsTypeOK
        <4> QED BY <4>2 DEF Written
      <3>2. CASE \E e \in config.envs : config' = [config EXCEPT !.envs = @ \ {e}]
        <4>1. /\ config' = [names |-> config'.names, envs |-> config'.envs, dropped |-> config'.dropped]
              /\ config'.names = config.names /\ config'.dropped = config.dropped
          BY <1>1, <3>2 DEF CommandsTypeOK
        <4> QED BY <4>1 DEF Written
      <3> QED BY <1>4, <3>1, <3>2 DEF Edit
    <2> QED BY <1>1, <2>1, <2>2, BesideHolds DEF CommandsTypeOK
  <1>5. ASSUME UNCHANGED commandVars PROVE CommandsInv'
    <2>1. UNCHANGED <<config, states, lock, world, sess>> /\ Written' = Written
      BY <1>5 DEF commandVars, Written
    <2> QED BY <1>1, <2>1, BesideHolds DEF CommandsTypeOK
  <1> QED BY <1>2, <1>3, <1>4, <1>5

LEMMA CommandsInvNext == ASSUME CommandsInv, [CommandsNext]_commandVars PROVE CommandsInv'
  <1>1. ASSUME NEW s \in Sessions, SessionStep(s) PROVE CommandsInv'
    <2>1. \A op \in sess[s].todo : Perform(s, op) => CommandsInv'
      BY PerformHolds
    <2> QED BY <1>1, <2>1, StartSessionHolds, LoadHolds, PreviewHolds, ResolveHolds, ConfirmHolds, TakeLockHolds,
               ReplanHolds, StopEarlyHolds, ApplyObservationsHolds, RemoveHolds, IndexHolds, SelectHolds,
               WriteGeneratedHolds, AdoptHolds, WriteHolds, UnlockHolds, CrashHolds
            DEF SessionStep
  <1> QED BY <1>1, OutsideHolds DEF CommandsNext

\* A project's history is one the code leaves: only of names that are declared or were taken out.
LEMMA CommandsInvInit == CommandsInit => CommandsInv
  <1> SUFFICES ASSUME CommandsInit PROVE CommandsInv
    OBVIOUS
  <1>1. PICK h \in Histories : config = h.config /\ states = h.states /\ world = h.world
    BY DEF CommandsInit
  <1>2. /\ config = [names |-> config.names, envs |-> config.envs, dropped |-> config.dropped]
        /\ world \in [Objects -> {"unborn", "alive", "gone"}] /\ DOMAIN states = Envs
        /\ \A e \in Envs : /\ DOMAIN states[e] \subseteq config.names \cup config.dropped
                           /\ \A n \in DOMAIN states[e] : states[e][n] \in Objects /\ world[states[e][n]] # "unborn"
    BY <1>1 DEF CommandsAssumption
  <1>3. \A s \in Sessions : sess[s] = Off
    BY DEF CommandsInit
  <1>4. IsSession(Off)
    <2>1. /\ Off.pc = "off" /\ Off.req.cmd = "none" /\ Off.todo = {} /\ Off.adopt = Nothing
          /\ Off = [pc |-> Off.pc, req |-> Off.req, names |-> Off.names, shown |-> Off.shown,
                    mem |-> Off.mem, todo |-> Off.todo, index |-> Off.index, adopt |-> Off.adopt]
      BY DEF Off
    <2>2. DOMAIN Nothing = {}
      BY DEF Nothing
    <2> QED BY <2>1, <2>2 DEF IsSession
  <1>5. CommandsTypeOK
    BY <1>2, <1>3, <1>4 DEF CommandsTypeOK, CommandsInit
  <1>6. \A e \in Envs : Recorded(states[e])
    BY <1>2 DEF Recorded, Known, Written
  <1>7. ASSUME NEW s \in Sessions PROVE SessionHolds(s)
    <2>1. sess[s].pc = "off" /\ sess[s].names = {}
      BY <1>3 DEF Off
    <2> QED BY <2>1 DEF SessionHolds, Inside
  <1> QED BY <1>5, <1>6, <1>7 DEF CommandsInv


(***************************************************************************)
(* What an environment records is declared, was taken out by a person, or  *)
(* was imported without --generate, for any number of commands side by     *)
(* side, crashes and edits: import writes the files before the state.      *)
(***************************************************************************)
THEOREM DeclaredWhenRecorded == CommandsSpec => []RecordedMeansDeclared
  <1>1. CommandsInit => CommandsInv
    BY CommandsInvInit
  <1>2. CommandsInv /\ [CommandsNext]_commandVars => CommandsInv'
    BY CommandsInvNext
  <1>3. CommandsInv => RecordedMeansDeclared
    <2> SUFFICES ASSUME CommandsInv, NEW e \in Envs
                 PROVE  DOMAIN states[e] \subseteq config.names \cup config.dropped \cup AdoptedByHand
      BY DEF RecordedMeansDeclared
    <2>1. DOMAIN states[e] \subseteq Known
      BY DEF CommandsInv, Recorded
    <2> QED BY <2>1 DEF Known, Written
  <1> QED BY <1>1, <1>2, <1>3, PTL DEF CommandsSpec

-----------------------------------------------------------------------------
\* A step that stores nothing loses nothing.
LEMMA OnlyWriteStores ==
  ASSUME [CommandsNext]_commandVars, \A s \in Sessions : ~Write(s)
  PROVE  states' = states
  <1>1. ASSUME NEW s \in Sessions, SessionStep(s) PROVE states' = states
    BY <1>1 DEF SessionStep, StartSession, Load, Preview, Resolve, Confirm, TakeLock, Replan, Perform, StopEarly,
                ApplyObservations, Remove, Index, Select, WriteGenerated, Adopt, Unlock, Crash
  <1> QED BY <1>1 DEF CommandsNext, ForceUnlock, Vanish, Edit, commandVars

\* What a write leaves out of its environment is gone, or is what state rm was asked for.
LEMMA WriteKeeps ==
  ASSUME CommandsInv, NEW s \in Sessions, Write(s), NEW e \in Envs, NEW n \in DOMAIN states[e],
         world'[states[e][n]] = "alive", states[e][n] \notin RecordedObjects'
  PROVE  lock[e] = s /\ Runs(s, {"rm"}) /\ At(s, "write") /\ sess[s].req.name = n
  <1>1. PICK r : r = sess[s]
    OBVIOUS
  <1>2. /\ DOMAIN states = Envs /\ r.pc = "write" /\ r.req.env \in Envs /\ SessionHolds(s) /\ world' = world
        /\ states' = [states EXCEPT ![r.req.env] = r.mem]
    BY <1>1, SessionEnv DEF CommandsInv, CommandsTypeOK, Write, At, Env
  <1>3. lock[r.req.env] = s /\ Covers(r)
    BY <1>1, <1>2 DEF SessionHolds, Inside
  <1>4. \A m \in DOMAIN states'[e] : states'[e][m] # states[e][n]
    BY DEF RecordedObjects, Range
  <1>5. e = r.req.env /\ states'[e] = r.mem
    BY <1>2, <1>4
  <1>6. r.req.cmd = "rm" /\ r.req.name = n
    BY <1>2, <1>3, <1>4, <1>5 DEF Covers
  <1> QED BY <1>1, <1>2, <1>3, <1>5, <1>6 DEF Runs, At

(***************************************************************************)
(* An object that is recorded and goes on existing stays recorded through  *)
(* every step of every command; only state rm lets go of one, inside the   *)
(* lock, and only of the name it was given.                                *)
(***************************************************************************)
THEOREM NothingIsLost == CommandsSpec => StaysRecorded
  <1>1. CommandsInit => CommandsInv
    BY CommandsInvInit
  <1>2. CommandsInv /\ [CommandsNext]_commandVars => CommandsInv'
    BY CommandsInvNext
  <1> DEFINE Stays == \A e \in Envs : \A n \in DOMAIN states[e] :
                        (world'[states[e][n]] = "alive" /\ states[e][n] \notin RecordedObjects')
                          => \E s \in Sessions : /\ lock[e] = s /\ Runs(s, {"rm"}) /\ At(s, "write")
                                                 /\ sess[s].req.name = n
  <1>3. CommandsInv /\ [CommandsNext]_commandVars => [Stays]_commandVars
    <2> SUFFICES ASSUME CommandsInv, [CommandsNext]_commandVars, NEW e \in Envs, NEW n \in DOMAIN states[e],
                        world'[states[e][n]] = "alive", states[e][n] \notin RecordedObjects'
                 PROVE  \E s \in Sessions : /\ lock[e] = s /\ Runs(s, {"rm"}) /\ At(s, "write")
                                            /\ sess[s].req.name = n
      OBVIOUS
    <2>1. CASE \E s \in Sessions : Write(s)
      BY <2>1, WriteKeeps
    <2>2. CASE \A s \in Sessions : ~Write(s)
      <3>1. states' = states
        BY <2>2, OnlyWriteStores
      <3> QED BY <3>1 DEF RecordedObjects, Range
    <2> QED BY <2>1, <2>2
  <1> QED BY <1>1, <1>2, <1>3, PTL DEF CommandsSpec, StaysRecorded


-----------------------------------------------------------------------------
(***************************************************************************)
(* One name for each object: what a session is about to store names no     *)
(* object twice, and what an import takes up is not recorded there yet.    *)
(***************************************************************************)
HIDE CommandsAssumption

Storing == {"execute", "write", "generate", "adopt"}

OneName(st) == \A m, n \in DOMAIN st : st[m] = st[n] => m = n \/ AskedTwice(st[m])

NamesOnce(r) ==
  /\ r.pc \in {"execute", "write"} => OneName(r.mem)
  /\ r.pc \in {"generate", "adopt"} =>
       OneName(r.adopt) /\ \A n \in DOMAIN r.adopt : \A m \in DOMAIN r.mem : r.adopt[n] # r.mem[m]

OneNameInv == OneNameEach /\ \A s \in Sessions : NamesOnce(sess[s])

LEMMA OneNameIs == OneNameEach <=> \A e \in Envs : OneName(states[e])
  BY DEF OneNameEach, OneName

LEMMA NamesOnceMoves ==
  ASSUME CommandsInv, OneNameInv, NEW s \in Sessions, NEW r2, sess' = [sess EXCEPT ![s] = r2],
         UNCHANGED states, NamesOnce(r2)
  PROVE  OneNameInv'
  <1>1. \A t \in Sessions : sess'[t] = IF t = s THEN r2 ELSE sess[t]
    BY DEF CommandsInv, CommandsTypeOK
  <1>2. \A t \in Sessions : NamesOnce(sess'[t])
    BY <1>1 DEF OneNameInv
  <1>3. OneNameEach'
    BY DEF OneNameInv, OneNameEach
  <1> QED BY <1>2, <1>3 DEF OneNameInv, NamesOnce

\* Steps after which the session has nothing to store, or no longer.
LEMMA NothingToStore ==
  ASSUME CommandsInv, OneNameInv, NEW s \in Sessions, UNCHANGED states,
         NEW r2, sess' = [sess EXCEPT ![s] = r2], r2.pc \notin Storing
  PROVE  OneNameInv'
  <1>1. NamesOnce(r2)
    BY DEF NamesOnce, Storing
  <1> QED BY <1>1, NamesOnceMoves

LEMMA MovesAside ==
  ASSUME CommandsInv, OneNameInv, NEW s \in Sessions, UNCHANGED states,
         NEW pc, pc \notin Storing, Move(s, pc)
  PROVE  OneNameInv'
  <1>1. DOMAIN sess = Sessions /\ IsSession(sess[s])
    BY DEF CommandsInv, CommandsTypeOK
  <1>2. PICK r2 : r2 = [sess[s] EXCEPT !.pc = pc]
    OBVIOUS
  <1>3. sess' = [sess EXCEPT ![s] = r2] /\ r2.pc = pc
    BY <1>1, <1>2 DEF IsSession, Move
  <1> QED BY <1>3, NothingToStore

LEMMA AsideKeepsOne ==
  ASSUME CommandsInv, OneNameInv, NEW s \in Sessions,
         \/ StartSession(s) \/ Load(s) \/ Preview(s) \/ Resolve(s) \/ Confirm(s) \/ TakeLock(s)
         \/ StopEarly(s) \/ Index(s) \/ Unlock(s) \/ Crash(s)
  PROVE  OneNameInv'
  <1>1. DOMAIN sess = Sessions /\ IsSession(sess[s])
    BY DEF CommandsInv, CommandsTypeOK
  <1>2. CASE StartSession(s)
    <2>1. PICK q \in Requests : sess' = [sess EXCEPT ![s] = [Off EXCEPT !.req = q, !.pc = FirstStep(q.cmd)]]
      BY <1>2 DEF StartSession
    <2>2. PICK r2 : r2 = [Off EXCEPT !.req = q, !.pc = FirstStep(q.cmd)]
      OBVIOUS
    <2>3. r2.pc = FirstStep(q.cmd) /\ sess' = [sess EXCEPT ![s] = r2]
      BY <2>1, <2>2 DEF Off
    <2>4. r2.pc \notin Storing /\ UNCHANGED states
      BY <1>2, <2>3 DEF FirstStep, Storing, StartSession
    <2> QED BY <2>3, <2>4, NothingToStore
  <1>3. CASE Load(s)
    <2>1. CASE Move(s, "done")
      BY <1>3, <2>1, MovesAside DEF Load, Storing
    <2>2. CASE ~Move(s, "done")
      <3>1. PICK names : sess' = [sess EXCEPT ![s].pc = "preview", ![s].names = names]
        BY <1>3, <2>2 DEF Load
      <3>2. PICK r2 : r2 = [sess[s] EXCEPT !.pc = "preview", !.names = names]
        OBVIOUS
      <3>3. sess' = [sess EXCEPT ![s] = r2] /\ r2.pc = "preview" /\ UNCHANGED states
        BY <1>1, <1>3, <3>1, <3>2 DEF IsSession, Load
      <3> QED BY <3>3, NothingToStore DEF Storing
    <2> QED BY <2>1, <2>2
  <1>4. CASE Preview(s)
    <2>1. CASE Move(s, "done")
      BY <1>4, <2>1, MovesAside DEF Preview, Storing
    <2>2. CASE ~Move(s, "done")
      <3>1. PICK pc \in {"approved", "asked"} :
              \E plan : sess' = [sess EXCEPT ![s].pc = pc, ![s].shown = plan]
        BY <1>4, <2>2 DEF Preview
      <3>2. PICK plan : sess' = [sess EXCEPT ![s].pc = pc, ![s].shown = plan]
        BY <3>1
      <3>3. PICK r2 : r2 = [sess[s] EXCEPT !.pc = pc, !.shown = plan]
        OBVIOUS
      <3>4. sess' = [sess EXCEPT ![s] = r2] /\ r2.pc = pc /\ UNCHANGED states
        BY <1>1, <1>4, <3>2, <3>3 DEF IsSession, Preview
      <3> QED BY <3>4, NothingToStore DEF Storing
    <2> QED BY <2>1, <2>2
  <1>5. CASE Resolve(s)
    <2>1. CASE Move(s, "done")
      BY <1>5, <2>1, MovesAside DEF Resolve, Storing
    <2>2. CASE ~Move(s, "done")
      <3>1. PICK pc \in {"approved", "asked"} :
              \E mem, shown : sess' = [sess EXCEPT ![s].pc = pc, ![s].mem = mem, ![s].shown = shown]
        BY <1>5, <2>2 DEF Resolve
      <3>2. PICK mem, shown : sess' = [sess EXCEPT ![s].pc = pc, ![s].mem = mem, ![s].shown = shown]
        BY <3>1
      <3>3. PICK r2 : r2 = [sess[s] EXCEPT !.pc = pc, !.mem = mem, !.shown = shown]
        OBVIOUS
      <3>4. sess' = [sess EXCEPT ![s] = r2] /\ r2.pc = pc /\ UNCHANGED states
        BY <1>1, <1>5, <3>2, <3>3 DEF IsSession, Resolve
      <3> QED BY <3>4, NothingToStore DEF Storing
    <2> QED BY <2>1, <2>2
  <1>6. CASE Confirm(s)
    BY <1>6, MovesAside DEF Confirm, Storing
  <1>7. CASE TakeLock(s)
    <2>1. \E pc : pc \notin Storing /\ Move(s, pc)
      BY <1>7 DEF TakeLock, InLock, Storing
    <2> QED BY <1>7, <2>1, MovesAside DEF TakeLock
  <1>8. CASE StopEarly(s) \/ Unlock(s) \/ Crash(s)
    BY <1>8, MovesAside DEF StopEarly, Unlock, Crash, Storing
  <1>9. CASE Index(s)
    <2>1. CASE Move(s, "unlock")
      BY <1>9, <2>1, MovesAside DEF Index, Storing
    <2>2. CASE ~Move(s, "unlock")
      <3>1. PICK ix : sess' = [sess EXCEPT ![s].pc = "select", ![s].index = ix]
        BY <1>9, <2>2 DEF Index
      <3>2. PICK r2 : r2 = [sess[s] EXCEPT !.pc = "select", !.index = ix]
        OBVIOUS
      <3>3. sess' = [sess EXCEPT ![s] = r2] /\ r2.pc = "select" /\ UNCHANGED states
        BY <1>1, <1>9, <3>1, <3>2 DEF IsSession, Index
      <3> QED BY <3>3, NothingToStore DEF Storing
    <2> QED BY <2>1, <2>2
  <1> QED BY <1>2, <1>3, <1>4, <1>5, <1>6, <1>7, <1>8, <1>9

LEMMA ReplanKeepsOne == ASSUME CommandsInv, OneNameInv, NEW s \in Sessions, Replan(s) PROVE OneNameInv'
  <1>1. /\ DOMAIN sess = Sessions /\ IsSession(sess[s]) /\ UNCHANGED states
        /\ OneName(states[Env(s)])
    <2>1. Env(s) \in Envs
      BY SessionEnv DEF Replan, At, Env
    <2> QED BY <2>1, OneNameIs DEF CommandsInv, CommandsTypeOK, Replan, OneNameInv
  <1>2. CASE Move(s, "unlock")
    BY <1>1, <1>2, MovesAside DEF Storing
  <1>3. CASE ~Move(s, "unlock")
    <2>1. PICK pc \in {"unlock", "execute"} :
            \E todo : sess' = [sess EXCEPT ![s].pc = pc, ![s].mem = states[Env(s)], ![s].todo = todo]
      BY <1>3 DEF Replan
    <2>2. PICK todo, mem : /\ sess' = [sess EXCEPT ![s].pc = pc, ![s].mem = mem, ![s].todo = todo]
                           /\ OneName(mem)
      BY <1>1, <2>1
    <2>3. PICK r2 : r2 = [sess[s] EXCEPT !.pc = pc, !.mem = mem, !.todo = todo]
      OBVIOUS
    <2>4. sess' = [sess EXCEPT ![s] = r2] /\ r2.pc = pc /\ r2.mem = mem
      BY <1>1, <2>2, <2>3 DEF IsSession
    <2>5. NamesOnce(r2)
      BY <2>2, <2>4 DEF NamesOnce
    <2> QED BY <1>1, <2>4, <2>5, NamesOnceMoves
  <1> QED BY <1>2, <1>3

\* What is created is an object that no record names.
LEMMA PerformKeepsOne ==
  ASSUME CommandsInv, OneNameInv, NEW s \in Sessions, NEW op \in sess[s].todo, Perform(s, op)
  PROVE  OneNameInv'
  <1>1. PICK r : r = sess[s]
    OBVIOUS
  <1>2. /\ DOMAIN sess = Sessions /\ IsSession(r) /\ UNCHANGED states /\ r.pc = "execute"
        /\ Recorded(r.mem) /\ OneName(r.mem)
    BY <1>1 DEF CommandsInv, CommandsTypeOK, SessionHolds, Perform, At, OneNameInv, NamesOnce
  <1>3. PICK mem : /\ sess' = [sess EXCEPT ![s].pc = "write", ![s].todo = sess[s].todo \ {op}, ![s].mem = mem]
                   /\ OneName(mem)
    <2>1. CASE op.kind = "create"
      <3>1. PICK o \in Objects :
              /\ world[o] = "unborn"
              /\ sess' = [sess EXCEPT ![s].pc = "write", ![s].todo = sess[s].todo \ {op},
                                      ![s].mem = With(sess[s].mem, Only(op.name, o))]
        BY <2>1 DEF Perform
      <3>2. PICK mem : mem = With(r.mem, Only(op.name, o))
        OBVIOUS
      <3>3. /\ DOMAIN mem = DOMAIN r.mem \cup {op.name} /\ mem[op.name] = o
            /\ \A n \in DOMAIN r.mem : n # op.name => mem[n] = r.mem[n]
        BY <3>2 DEF With, Only
      <3>4. \A n \in DOMAIN r.mem : r.mem[n] # o
        BY <1>2, <3>1 DEF Recorded
      <3>5. OneName(mem)
        <4> SUFFICES ASSUME NEW m \in DOMAIN mem, NEW n \in DOMAIN mem, mem[m] = mem[n], m # n
                     PROVE  AskedTwice(mem[m])
          BY DEF OneName
        <4>1. m # op.name /\ n # op.name
          BY <3>3, <3>4
        <4> QED BY <1>2, <3>3, <4>1 DEF OneName
      <3> QED BY <1>1, <3>1, <3>2, <3>5
    <2>2. CASE op.kind # "create"
      <3>1. PICK mem : mem = Without(r.mem, {op.name})
        OBVIOUS
      <3>2. DOMAIN mem \subseteq DOMAIN r.mem /\ \A n \in DOMAIN mem : mem[n] = r.mem[n]
        BY <3>1 DEF Without, Restrict
      <3>3. OneName(mem)
        BY <1>2, <3>2 DEF OneName
      <3> QED BY <1>1, <2>2, <3>1, <3>3 DEF Perform
    <2> QED BY <2>1, <2>2
  <1>4. PICK todo : todo = r.todo \ {op}
    OBVIOUS
  <1>5. PICK r2 : r2 = [r EXCEPT !.pc = "write", !.todo = todo, !.mem = mem]
    OBVIOUS
  <1>6. sess' = [sess EXCEPT ![s] = r2] /\ r2.pc = "write" /\ r2.mem = mem
    BY <1>1, <1>2, <1>3, <1>4, <1>5 DEF IsSession
  <1>7. NamesOnce(r2)
    BY <1>3, <1>6 DEF NamesOnce
  <1> QED BY <1>2, <1>6, <1>7, NamesOnceMoves

\* What is kept of a record names nothing twice.
LEMMA RecallKeepsOne ==
  ASSUME CommandsInv, OneNameInv, NEW s \in Sessions, NEW pc \in {"write", "unlock"}, NEW mem,
         Recalls(s, pc, mem), OneName(mem), UNCHANGED states
  PROVE  OneNameInv'
  <1>1. PICK r2 : sess' = [sess EXCEPT ![s] = r2] /\ r2.pc = pc /\ r2.mem = mem
    BY RecallsFields
  <1>2. NamesOnce(r2)
    BY <1>1 DEF NamesOnce
  <1> QED BY <1>1, <1>2, NamesOnceMoves

LEMMA KeepingKeepsOne ==
  ASSUME CommandsInv, OneNameInv, NEW s \in Sessions, ApplyObservations(s) \/ Remove(s)
  PROVE  OneNameInv'
  <1>1. PICK st : st = states[Env(s)]
    OBVIOUS
  <1>2. UNCHANGED states /\ OneName(st)
    <2>1. Env(s) \in Envs
      BY SessionEnv DEF ApplyObservations, Remove, At, Env
    <2> QED BY <1>1, <2>1, OneNameIs DEF ApplyObservations, Remove, OneNameInv
  <1>3. \A names : OneName(Without(st, names))
    <2> SUFFICES ASSUME NEW names PROVE OneName(Without(st, names))
      OBVIOUS
    <2>1. /\ DOMAIN Without(st, names) \subseteq DOMAIN st
          /\ \A n \in DOMAIN Without(st, names) : Without(st, names)[n] = st[n]
      BY DEF Without, Restrict
    <2> QED BY <1>2, <2>1 DEF OneName
  <1>4. CASE Move(s, "unlock")
    BY <1>2, <1>4, MovesAside DEF Storing
  <1>5. CASE ~Move(s, "unlock")
    <2>1. \E pc \in {"write", "unlock"} : \E names : Recalls(s, pc, Without(st, names))
      <3>1. CASE ApplyObservations(s)
        BY <1>1, <3>1 DEF ApplyObservations, Recalls
      <3>2. CASE Remove(s)
        BY <1>1, <1>5, <3>2 DEF Remove, Recalls
      <3> QED BY <3>1, <3>2
    <2> QED BY <1>2, <1>3, <2>1, RecallKeepsOne
  <1> QED BY <1>4, <1>5

\* Whatever is selected, and however it is named, an object that was asked for
\* once has one name: each name stands for one of the selectors.
LEMMA SelectedOnce ==
  ASSUME NEW seen, NEW index, NEW r \in Requests, r.cmd = "import"
  PROVE  OneName(Selected(seen, index, r.sels))
  <1> DEFINE kept == Adoptable(seen, index, r.sels)
             names == NamesOf(seen)
             name == SelectedNames(kept, names, r.sels)
             all == [n \in {names[o] : o \in kept} |-> CHOOSE o \in kept : names[o] = n]
             place(n) == CHOOSE i \in DOMAIN r.sels : name[i] = n
             chosen == [n \in {name[i] : i \in DOMAIN r.sels} |-> r.sels[place(n)]]
  <1>1. OneName(all)
    <2>1. \A n \in DOMAIN all : names[all[n]] = n
      OBVIOUS
    <2> QED BY <2>1 DEF OneName
  <1>2. OneName(chosen)
    <2> HIDE DEF name
    <2>1. \A n \in DOMAIN chosen : place(n) \in DOMAIN r.sels /\ name[place(n)] = n
      OBVIOUS
    <2>2. \A n \in DOMAIN chosen : chosen[n] = r.sels[place(n)]
      OBVIOUS
    <2> HIDE DEF chosen, place
    <2> SUFFICES ASSUME NEW m \in DOMAIN chosen, NEW n \in DOMAIN chosen, chosen[m] = chosen[n],
                        m # n
                 PROVE  AskedTwice(chosen[m])
      BY DEF OneName
    <2>3. place(m) # place(n)
      BY <2>1
    <2> QED BY <2>1, <2>2, <2>3 DEF AskedTwice
  <1>3. OneName(Nothing)
    BY DEF OneName, Nothing
  <1>4. Selected(seen, index, r.sels) \in {all, chosen, Nothing}
    BY DEF Selected
  <1> QED BY <1>1, <1>2, <1>3, <1>4

LEMMA RenamedOnce == ASSUME NEW adopt, NEW r, OneName(adopt) PROVE OneName(Renamed(adopt, r))
  <1>1. \A n, o : OneName(Only(n, o))
    BY DEF OneName, Only
  <1> QED BY <1>1 DEF Renamed

\* What is taken up is not recorded here under another name either.
LEMMA SelectKeepsOne == ASSUME CommandsInv, OneNameInv, NEW s \in Sessions, Select(s) PROVE OneNameInv'
  <1>1. PICK r : r = sess[s]
    OBVIOUS
  <1>2. DOMAIN sess = Sessions /\ IsSession(r) /\ r.pc = "select" /\ UNCHANGED states
    BY <1>1 DEF CommandsInv, CommandsTypeOK, Select, At
  <1>3. CASE Move(s, "unlock")
    BY <1>2, <1>3, MovesAside DEF Storing
  <1>4. CASE ~Move(s, "unlock")
    <2>1. PICK seen \in {Existing \cap InScope, {}} :
            LET adopt == Renamed(Selected(seen, r.index, r.req.sels), r.req) IN
            /\ ~AlreadyHere(adopt, states[r.req.env])
            /\ sess' = [sess EXCEPT ![s].pc = After("select", r.req), ![s].adopt = adopt,
                                    ![s].mem = states[r.req.env]]
      BY <1>1, <1>4 DEF Select
    <2>2. PICK adopt : adopt = Renamed(Selected(seen, r.index, r.req.sels), r.req)
      OBVIOUS
    <2>3. PICK pc, st : pc = After("select", r.req) /\ st = states[r.req.env]
      OBVIOUS
    <2>4. PICK r2 : r2 = [r EXCEPT !.pc = pc, !.adopt = adopt, !.mem = st]
      OBVIOUS
    <2>5. sess' = [sess EXCEPT ![s] = r2] /\ r2.pc = pc /\ r2.mem = st /\ r2.adopt = adopt
      BY <1>1, <1>2, <2>1, <2>2, <2>3, <2>4 DEF IsSession
    <2>6. pc \in {"generate", "adopt"}
      BY <2>3 DEF After
    <2>7. OneName(adopt)
      <3>1. r.req \in Requests /\ r.req.cmd = "import"
        BY <1>2 DEF IsSession
      <3> QED BY <2>2, <3>1, SelectedOnce, RenamedOnce
    <2>8. \A n \in DOMAIN adopt : \A m \in DOMAIN st : adopt[n] # st[m]
      BY <2>1, <2>2, <2>3 DEF AlreadyHere, Range
    <2>9. NamesOnce(r2)
      BY <2>5, <2>6, <2>7, <2>8 DEF NamesOnce
    <2> QED BY <1>2, <2>5, <2>9, NamesOnceMoves
  <1> QED BY <1>3, <1>4

LEMMA WriteGeneratedKeepsOne ==
  ASSUME CommandsInv, OneNameInv, NEW s \in Sessions, WriteGenerated(s) PROVE OneNameInv'
  <1>1. PICK r : r = sess[s]
    OBVIOUS
  <1>2. DOMAIN sess = Sessions /\ IsSession(r) /\ UNCHANGED states /\ r.pc = "generate" /\ NamesOnce(r)
    BY <1>1 DEF CommandsInv, CommandsTypeOK, WriteGenerated, At, OneNameInv
  <1>3. CASE Move(s, "unlock")
    BY <1>2, <1>3, MovesAside DEF Storing
  <1>4. CASE Move(s, "adopt")
    <2>1. PICK r2 : r2 = [r EXCEPT !.pc = "adopt"]
      OBVIOUS
    <2>2. /\ sess' = [sess EXCEPT ![s] = r2] /\ r2.pc = "adopt" /\ r2.mem = r.mem /\ r2.adopt = r.adopt
      BY <1>1, <1>2, <1>4, <2>1 DEF IsSession, Move
    <2>3. NamesOnce(r2)
      BY <1>2, <2>2 DEF NamesOnce
    <2> QED BY <1>2, <2>2, <2>3, NamesOnceMoves
  <1> QED BY <1>3, <1>4 DEF WriteGenerated, After

LEMMA AdoptKeepsOne == ASSUME CommandsInv, OneNameInv, NEW s \in Sessions, Adopt(s) PROVE OneNameInv'
  <1>1. PICK r : r = sess[s]
    OBVIOUS
  <1>2. /\ DOMAIN sess = Sessions /\ IsSession(r) /\ UNCHANGED states /\ r.pc = "adopt" /\ NamesOnce(r)
        /\ r.mem = states[r.req.env] /\ r.req.env \in Envs
    BY <1>1, SessionEnv DEF CommandsInv, CommandsTypeOK, SessionHolds, Adopt, At, OneNameInv
  <1>3. CASE Move(s, "unlock")
    BY <1>2, <1>3, MovesAside DEF Storing
  <1>4. CASE ~Move(s, "unlock")
    <2>1. PICK mem : mem = With(r.mem, r.adopt)
      OBVIOUS
    <2>2. Recalls(s, "write", mem)
      BY <1>1, <1>4, <2>1 DEF Adopt, Recalls, After
    <2>3. /\ OneName(r.mem) /\ OneName(r.adopt)
          /\ \A n \in DOMAIN r.adopt : \A m \in DOMAIN r.mem : r.adopt[n] # r.mem[m]
      BY <1>2, OneNameIs DEF NamesOnce, OneNameInv
    <2>4. \A n \in DOMAIN mem : \/ n \in DOMAIN r.adopt /\ mem[n] = r.adopt[n]
                                \/ n \in DOMAIN r.mem /\ mem[n] = r.mem[n]
      BY <2>1 DEF With
    <2>5. OneName(mem)
      <3>1. ASSUME NEW m \in DOMAIN mem, NEW n \in DOMAIN mem, mem[m] = mem[n]
            PROVE  m = n \/ AskedTwice(mem[m])
        <4> DEFINE adopted(k) == k \in DOMAIN r.adopt /\ mem[k] = r.adopt[k]
                   kept(k) == k \in DOMAIN r.mem /\ mem[k] = r.mem[k]
        <4>0. (adopted(m) \/ kept(m)) /\ (adopted(n) \/ kept(n))
          BY <2>4
        <4>1. CASE adopted(m) /\ adopted(n)
          BY <2>3, <3>1, <4>1 DEF OneName
        <4>2. CASE kept(m) /\ kept(n)
          BY <2>3, <3>1, <4>2 DEF OneName
        <4>3. ~(adopted(m) /\ kept(n)) /\ ~(kept(m) /\ adopted(n))
          BY <2>3, <3>1
        <4> QED BY <4>0, <4>1, <4>2, <4>3
      <3> QED BY <3>1 DEF OneName
    <2> QED BY <1>2, <2>2, <2>5, RecallKeepsOne
  <1> QED BY <1>3, <1>4

LEMMA WriteKeepsOne == ASSUME CommandsInv, OneNameInv, NEW s \in Sessions, Write(s) PROVE OneNameInv'
  <1>1. PICK r : r = sess[s]
    OBVIOUS
  <1>2. /\ DOMAIN sess = Sessions /\ IsSession(r) /\ r.pc = "write" /\ OneName(r.mem)
        /\ DOMAIN states = Envs /\ states' = [states EXCEPT ![r.req.env] = r.mem]
    BY <1>1 DEF CommandsInv, CommandsTypeOK, Write, At, Env, OneNameInv, NamesOnce
  <1>3. PICK pc \in {"execute", "unlock"} : Move(s, pc)
    BY DEF Write, After
  <1>4. PICK r2 : r2 = [r EXCEPT !.pc = pc]
    OBVIOUS
  <1>5. sess' = [sess EXCEPT ![s] = r2] /\ r2.pc = pc /\ r2.mem = r.mem
    BY <1>1, <1>2, <1>3, <1>4 DEF IsSession, Move
  <1>6. NamesOnce(r2)
    BY <1>2, <1>5 DEF NamesOnce
  <1>7. \A t \in Sessions : NamesOnce(sess'[t])
    <2>1. \A t \in Sessions : sess'[t] = IF t = s THEN r2 ELSE sess[t]
      BY <1>2, <1>5
    <2> QED BY <1>6, <2>1 DEF OneNameInv
  <1>8. \A e \in Envs : OneName(states'[e])
    <2>1. \A e \in Envs : OneName(states[e])
      BY OneNameIs DEF OneNameInv
    <2> QED BY <1>2, <2>1
  <1>9. OneNameEach'
    BY <1>8 DEF OneNameEach, OneName
  <1> QED BY <1>7, <1>9 DEF OneNameInv, NamesOnce

LEMMA OneNameNext == ASSUME CommandsInv, OneNameInv, [CommandsNext]_commandVars PROVE OneNameInv'
  <1>1. ASSUME NEW s \in Sessions, SessionStep(s) PROVE OneNameInv'
    <2>1. \A op \in sess[s].todo : Perform(s, op) => OneNameInv'
      BY PerformKeepsOne
    <2> QED BY <1>1, <2>1, AsideKeepsOne, ReplanKeepsOne, KeepingKeepsOne, SelectKeepsOne,
               WriteGeneratedKeepsOne, AdoptKeepsOne, WriteKeepsOne
            DEF SessionStep
  <1>2. CASE UNCHANGED <<states, sess>>
    <2>1. OneNameEach'
      BY <1>2 DEF OneNameInv, OneNameEach
    <2>2. \A t \in Sessions : NamesOnce(sess'[t])
      BY <1>2 DEF OneNameInv
    <2> QED BY <2>1, <2>2 DEF OneNameInv, NamesOnce
  <1> QED BY <1>1, <1>2 DEF CommandsNext, ForceUnlock, Vanish, Edit, commandVars

(***************************************************************************)
(* Where no import names an object twice, one environment never manages    *)
(* one object under two names, however often and by whichever way objects  *)
(* are imported into it, whoever runs beside.                              *)
(***************************************************************************)
THEOREM ManagedUnderOneName == CommandsSpec => []OneNameEach
  <1>1. CommandsInit => CommandsInv /\ OneNameInv
    <2> SUFFICES ASSUME CommandsInit PROVE OneNameInv
      BY CommandsInvInit
    <2>1. \A e \in Envs : OneName(states[e])
      BY HistoriesAssumption DEF CommandsInit, IsInjective, OneName
    <2>2. \A s \in Sessions : NamesOnce(sess[s])
      BY DEF CommandsInit, NamesOnce, Off
    <2> QED BY <2>1, <2>2, OneNameIs DEF OneNameInv
  <1>2. CommandsInv /\ OneNameInv /\ [CommandsNext]_commandVars => (CommandsInv /\ OneNameInv)'
    BY CommandsInvNext, OneNameNext
  <1>3. OneNameInv => OneNameEach
    BY DEF OneNameInv
  <1> QED BY <1>1, <1>2, <1>3, PTL DEF CommandsSpec
=============================================================================
