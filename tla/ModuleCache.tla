---------------------------- MODULE ModuleCache ----------------------------
(***************************************************************************)
(* internal/modules/source and the part of compiler.Compile that drives    *)
(* it: remote modules fetched into .infrena/modules by commands that share *)
(* the directory, and modules.lock, which records the commit each pin      *)
(* resolved to.                                                            *)
(*                                                                         *)
(* A pin is a location and a ref.  A hash names one commit for ever; a tag *)
(* names whatever the remote says today.  A checkout is a set of entries,  *)
(* each a file of some commit, and is read without any lock; only a fetch  *)
(* takes one.                                                              *)
(***************************************************************************)
EXTENDS Naturals, Sequences
LOCAL INSTANCE FiniteSetsExt

CONSTANTS
    Compiles,     \* the commands
    Config,       \* the pins of the configuration, in the order of its walk
    Tags,         \* those of them that name a tag and not a commit
    Commits, Absent,
    Files,        \* the files of every commit
    MaxRuns,      \* commands started
    MaxMoves,     \* times a tag is moved on the remote
    MaxKills      \* commands killed

Pins == {Config[i] : i \in DOMAIN Config}
Marker == "marker"
\* A configuration without remote modules touches nothing of this.
ASSUME CacheAssumption ==
    /\ Config \in Seq(Pins) /\ Config # <<>> /\ Tags \subseteq Pins
    /\ Marker \notin Files
    /\ Absent \notin Commits \cup Compiles /\ "gone" \notin Compiles

VARIABLES
    remote,       \* pin -> the commit the remote names by it
    tree,         \* pin -> the entries of its checkout: <<name, commit>>
    fetchLock,    \* pin -> who made its lock file, "gone" when that one was killed
    recorded,     \* modules.lock: pin -> commit or Absent
    at, pin,      \* command -> where it stands, and the index of the pin it is at
    got,          \* command -> pin -> the commit it resolved to, Absent before
    read,         \* command -> the files of the checkout read so far
    mayRecord,    \* command -> Options.RecordLocks
    torn,         \* command -> the pins it read something else of than it resolved
    crossed,      \* commands that compared with a modules.lock replaced since
    budget        \* what is left of each bound
cacheVars == <<remote, tree, fetchLock, recorded, at, pin, got, read, mayRecord,
               torn, crossed, budget>>
files == <<remote, tree, fetchLock, recorded>>

Whole(k) == (Files \cup {Marker}) \X {k}
\* readMarker: the commit the marker names, Absent without one.
MarkerOf(p) == IF \E e \in tree[p] : e[1] = Marker
               THEN (CHOOSE e \in tree[p] : e[1] = Marker)[2] ELSE Absent

CacheInit ==
    /\ remote \in [Pins -> Commits]
    /\ tree = [p \in Pins |-> {}]
    /\ fetchLock = [p \in Pins |-> Absent]
    /\ recorded = [p \in Pins |-> Absent]
    /\ at = [c \in Compiles |-> "idle"] /\ pin = [c \in Compiles |-> 1]
    /\ got = [c \in Compiles |-> [p \in Pins |-> Absent]]
    /\ read = [c \in Compiles |-> {}] /\ mayRecord = [c \in Compiles |-> FALSE]
    /\ torn = [c \in Compiles |-> {}] /\ crossed = {}
    /\ budget = [runs |-> MaxRuns, moves |-> MaxMoves, kills |-> MaxKills]

Spend(what) == budget[what] > 0 /\ budget' = [budget EXCEPT ![what] = @ - 1]
Here(c) == Config[pin[c]]
Go(c, where) == at' = [at EXCEPT ![c] = where]

Compile(c) ==
    /\ at[c] = "idle" /\ Spend("runs") /\ Go(c, "resolve")
    /\ pin' = [pin EXCEPT ![c] = 1]
    /\ got' = [got EXCEPT ![c] = [p \in Pins |-> Absent]]
    /\ torn' = [torn EXCEPT ![c] = {}] /\ crossed' = crossed \ {c}
    /\ \E b \in BOOLEAN : mayRecord' = [mayRecord EXCEPT ![c] = b]
    /\ UNCHANGED <<files, read>>

\* The command fails: it compiles nothing, and records nothing.
Fails(c) == Go(c, "idle")
Progress == <<remote, recorded, mayRecord, torn, crossed, budget>>

\* reusable: the marker's commit, when it is the pinned one or the remote still
\* names it.  A remote that does not answer is a checkout that is not reusable.
Reusable(p, answers) ==
    /\ MarkerOf(p) # Absent
    /\ p \in Tags => answers /\ remote[p] = MarkerOf(p)

Resolved(c, commit, where) ==
    /\ got' = [got EXCEPT ![c][Here(c)] = commit]
    /\ read' = [read EXCEPT ![c] = {}]
    /\ Go(c, where)

\* resolveGit, before the lock.
Peek(c) ==
    /\ at[c] = "resolve"
    /\ \E answers \in BOOLEAN :
         IF Reusable(Here(c), answers) THEN Resolved(c, MarkerOf(Here(c)), "read")
         ELSE Go(c, "lock") /\ UNCHANGED <<got, read>>
    /\ UNCHANGED <<tree, fetchLock, pin, Progress>>

\* Mutant: the lock is put in place with a rename, which overwrites.
LinkLockByRename(c) ==
    /\ at[c] = "lock"
    /\ fetchLock' = [fetchLock EXCEPT ![Here(c)] = c]
    /\ Go(c, "again") /\ UNCHANGED <<tree, pin, got, read, Progress>>

\* linkLock: the link is made only where there is no file.
LinkLock(c) ==
    /\ at[c] = "lock" /\ fetchLock[Here(c)] = Absent
    /\ fetchLock' = [fetchLock EXCEPT ![Here(c)] = c]
    /\ Go(c, "again") /\ UNCHANGED <<tree, pin, got, read, Progress>>

\* Mutant: no deadline.
GiveUpNever(c) == FALSE /\ UNCHANGED cacheVars

\* The deadline passed and the file is still there.
GiveUp(c) ==
    /\ at[c] = "lock" /\ fetchLock[Here(c)] # Absent
    /\ Fails(c) /\ UNCHANGED <<tree, fetchLock, pin, got, read, Progress>>

\* The second look, under the lock.
LookAgain(c) ==
    /\ at[c] = "again"
    /\ \E answers \in BOOLEAN :
         IF Reusable(Here(c), answers) THEN Resolved(c, MarkerOf(Here(c)), "release")
         ELSE Go(c, "fetch") /\ UNCHANGED <<got, read>>
    /\ UNCHANGED <<tree, fetchLock, pin, Progress>>

\* fetchCommit into a directory of its own, and the marker written into it last;
\* or the fetch fails, and the lock is given back.
FetchPin(c) ==
    /\ at[c] = "fetch"
    /\ \/ Resolved(c, remote[Here(c)], "remove")
       \/ Go(c, "releaseFailed") /\ UNCHANGED <<got, read>>
    /\ UNCHANGED <<tree, fetchLock, pin, Progress>>

\* os.RemoveAll(dir): one entry at a time, in any order.
RemoveEntry(c) ==
    /\ at[c] = "remove"
    /\ IF tree[Here(c)] = {} THEN Go(c, "rename") /\ UNCHANGED tree
       ELSE /\ \E e \in tree[Here(c)] : tree' = [tree EXCEPT ![Here(c)] = @ \ {e}]
            /\ UNCHANGED at
    /\ UNCHANGED <<fetchLock, pin, got, read, Progress>>

\* os.Rename(tmp, dir), which fails onto a directory with anything in it; that is
\* as good when it holds the same commit.
Publish(c) ==
    /\ at[c] = "rename"
    /\ IF tree[Here(c)] = {}
       THEN /\ tree' = [tree EXCEPT ![Here(c)] = Whole(got[c][Here(c)])]
            /\ Go(c, "release")
       ELSE /\ Go(c, IF MarkerOf(Here(c)) = got[c][Here(c)] THEN "release" ELSE "releaseFailed")
            /\ UNCHANGED tree
    /\ UNCHANGED <<fetchLock, pin, got, read, Progress>>

\* os.Remove(path), whoever made the file.
Release(c) ==
    /\ at[c] \in {"release", "releaseFailed"}
    /\ fetchLock' = [fetchLock EXCEPT ![Here(c)] = Absent]
    /\ IF at[c] = "release" THEN Go(c, "read") ELSE Fails(c)
    /\ UNCHANGED <<tree, pin, got, read, Progress>>

\* LoadModule and the files it decodes, one at a time and without a lock; then the
\* next call of the walk.  A file that is not there ends the command.
ReadFile(c) ==
    /\ at[c] = "read"
    /\ \E f \in Files \ read[c] :
         LET there == <<f, got[c][Here(c)]>> \in tree[Here(c)]
             missing == \A e \in tree[Here(c)] : e[1] # f IN
         /\ read' = [read EXCEPT ![c] = @ \cup {f}]
         /\ torn' = IF there THEN torn ELSE [torn EXCEPT ![c] = @ \cup {Here(c)}]
         /\ CASE missing -> Fails(c) /\ UNCHANGED pin
              [] ~missing /\ read'[c] # Files -> UNCHANGED <<at, pin>>
              [] ~missing /\ read'[c] = Files /\ pin[c] < Len(Config) ->
                   Go(c, "resolve") /\ pin' = [pin EXCEPT ![c] = @ + 1]
              [] OTHER -> Go(c, "compare") /\ UNCHANGED pin
    /\ UNCHANGED <<files, got, mayRecord, crossed, budget>>

\* Mutant: an entry that differs is adopted.
CompareAdopts(c) ==
    /\ at[c] = "compare" /\ Go(c, IF mayRecord[c] THEN "record" ELSE "idle")
    /\ crossed' = crossed \ {c}
    /\ UNCHANGED <<files, pin, got, read, mayRecord, torn, budget>>

\* LoadLockfile and a Check of every resolution: an entry that differs is an error,
\* one that is absent is not.
Compare(c) ==
    /\ at[c] = "compare"
    /\ IF \E p \in Pins : recorded[p] \notin {Absent, got[c][p]} \/ ~mayRecord[c]
       THEN Fails(c) ELSE Go(c, "record")
    /\ crossed' = crossed \ {c}
    /\ UNCHANGED <<files, pin, got, read, mayRecord, torn, budget>>

\* WriteLockfile: the complete set in one rename.
RecordPins(c) ==
    /\ at[c] = "record" /\ recorded' = got[c] /\ Go(c, "idle")
    /\ crossed' = crossed \cup {d \in Compiles \ {c} : at[d] = "record"}
    /\ UNCHANGED <<remote, tree, fetchLock, pin, got, read, mayRecord, torn, budget>>

Kill(c) ==
    /\ at[c] # "idle" /\ Spend("kills") /\ Go(c, "idle")
    /\ fetchLock' = [p \in Pins |-> IF fetchLock[p] = c THEN "gone" ELSE fetchLock[p]]
    /\ UNCHANGED <<remote, tree, recorded, pin, got, read, mayRecord, torn, crossed>>

\* What the give-up message tells a person to do once no other run is in progress,
\* and what the moved-tag message does.
DeleteStaleLock ==
    /\ \E p \in Pins : fetchLock[p] = "gone" /\ fetchLock' = [fetchLock EXCEPT ![p] = Absent]
    /\ UNCHANGED <<remote, tree, recorded, at, pin, got, read, mayRecord, torn, crossed, budget>>
DeleteRecord ==
    /\ \E p \in Tags : /\ recorded[p] \notin {Absent, remote[p]}
                       /\ recorded' = [recorded EXCEPT ![p] = Absent]
    /\ UNCHANGED <<remote, tree, fetchLock, at, pin, got, read, mayRecord, torn, crossed, budget>>
MoveTag ==
    /\ Spend("moves")
    /\ \E p \in Tags, k \in Commits : k # remote[p] /\ remote' = [remote EXCEPT ![p] = k]
    /\ UNCHANGED <<tree, fetchLock, recorded, at, pin, got, read, mayRecord, torn, crossed>>

CompileStep(c) ==
    \/ Peek(c) \/ LinkLock(c) \/ GiveUp(c) \/ LookAgain(c) \/ FetchPin(c) \/ RemoveEntry(c)
    \/ Publish(c) \/ Release(c) \/ ReadFile(c) \/ Compare(c) \/ RecordPins(c)

CacheNext ==
    \/ \E c \in Compiles : CompileStep(c) \/ Compile(c) \/ Kill(c)
    \/ DeleteStaleLock \/ DeleteRecord \/ MoveTag
\* A command takes its steps; nobody need move a tag, kill it or clean up.
CacheFairness == \A c \in Compiles : WF_cacheVars(CompileStep(c))
CacheSpec == CacheInit /\ [][CacheNext]_cacheVars /\ CacheFairness

(***************************************************************************)
(* Properties                                                              *)
(***************************************************************************)

\* What a command reads of a module pinned to a commit is that commit, whole,
\* although it holds no lock while it reads, others fetch the same pin, and commands
\* are killed half-way through removing or publishing a checkout.
HashPinsReadWhole == \A c \in Compiles : torn[c] \subseteq Tags

\* The same of a tag, which the comments on fetch and lock claim of every checkout:
\* a partially fetched tree cannot be observed, and no process deletes "the tree the
\* other had just published while it was being read".  A tag that moved, or a remote
\* that did not answer, has the next command remove the tree the first one reads.
TagsReadWhole == \A c \in Compiles : torn[c] = {}

\* A commit modules.lock records for a pin is not replaced by another one unless a
\* person deleted the entry: no command adopts a tag that moved.  The exception is a
\* command that compared with the file before another one wrote it.
RecordedPinsHold ==
    [][\A p \in Pins : recorded[p] # Absent /\ recorded'[p] \notin {Absent, recorded[p]} =>
          \E c \in crossed : at[c] = "record"]_cacheVars

\* Every command comes to an end, whoever died with a lock in the cache.
CompileEnds == \A c \in Compiles : at[c] # "idle" ~> at[c] = "idle"
=============================================================================
