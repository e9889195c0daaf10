--------------------------- MODULE PluginInstall ---------------------------
(***************************************************************************)
(* `infrena plugins install` (internal/cli/plugins_install.go), what it    *)
(* searches and trusts (internal/plugins, internal/plugins/remote), and    *)
(* the launch that checks plugins.lock (pluginhost, backendhost).          *)
(*                                                                         *)
(* One plugin name, which repositories may publish as a provider and as a  *)
(* backend: the role is its key in plugins.lock and its file on disk.  A   *)
(* binary is the release it came from, and its checksum is itself.         *)
(***************************************************************************)
EXTENDS Naturals, Sequences, FiniteSets

CONSTANTS
    Shells,         \* the processes a person runs
    Repos,          \* repositories whose manifest has the name
    OwnerOf, RoleOf,\* repository -> its owner, and the role its prefix says
    Official,       \* the owner trusted whatever the user's file says
    ProjectSource,  \* the source infrena.yml names for the plugin, or None
    Declared,       \* the roles the project declares it in, as a sequence
    Usable,         \* repository -> the versions that can run here
    Dirs,           \* where a binary is looked for, in order of precedence
    Invocations,    \* bound: the ways install is called (dest, inProject, attended, kind)
    Failing,        \* bound: the sets of sources that do not answer a search
    Releases,       \* bound: repository -> how many releases it makes
    MaxTasks,       \* bound on the commands run
    MaxStrays,      \* bound on binaries put in place by hand
    None

Roles == {"provider", "backend"}
Owners == {OwnerOf[r] : r \in Repos} \cup {Official}
Sources == Owners \cup Repos
ByHand == [repo |-> None, version |-> 0]
Platforms == {"here", "there"}
Directories == {Dirs[i] : i \in DOMAIN Dirs}
ASSUME InstallAssumption ==
    /\ None \notin [repo : Repos \cup {None}, version : Nat]
    /\ Owners \cap Repos = {} /\ ProjectSource \in Sources \cup {None}
    /\ \A r \in Repos : RoleOf[r] \in Roles
    /\ Declared \in Seq(Roles)
    /\ Dirs \in Seq(Directories) /\ {"project", "home"} \subseteq Directories
    /\ Invocations \subseteq [dest : {"project", "home"}, inProject : BOOLEAN,
                              attended : BOOLEAN, kind : Roles \cup {None}]
    /\ \A call \in Invocations : call.dest = "project" => call.inProject

VARIABLES
    latest,    \* repository -> its newest release
    answers,   \* repository -> the release the disk cache answers with, 0 for none
    approved,  \* the sources in the user's plugins.yml
    disk,      \* directory -> role -> the binary there
    lock,      \* plugins.lock: role -> entry
    shell,     \* process -> what it is doing
    consented, \* what a person ever said yes to, or had in plugins.yml
    ran,       \* the binaries that were executed
    stirred,   \* roles for which two commands, or a person, got between two steps
    left       \* what is left of each bound
installVars == <<latest, answers, approved, disk, lock, shell, consented, ran, stirred, left>>

Idle == [at |-> "idle"]
InstallInit ==
    /\ latest = [r \in Repos |-> 1] /\ answers = [r \in Repos |-> 0]
    /\ approved = {} /\ consented = {} /\ ran = {} /\ stirred = {}
    /\ disk = [d \in Directories |-> [k \in Roles |-> None]]
    /\ lock = [k \in Roles |-> None]
    /\ shell = [c \in Shells |-> Idle]
    /\ left = [tasks |-> MaxTasks, strays |-> MaxStrays]

Pay(what) == left[what] > 0 /\ left' = [left EXCEPT ![what] = @ - 1]
Become(c, s) == shell' = [shell EXCEPT ![c] = s]

(***************************************************************************)
(* Search                                                                  *)
(***************************************************************************)
\* IsTrusted and coversSource: an owner covers its repositories, a repository itself.
Covers(t, s) == t = s \/ (t \in Owners /\ s \in Repos /\ OwnerOf[s] = t)
TrustedBy(file, s) == \E t \in file \cup {Official} : Covers(t, s)

\* searchSources: the trusted ones, and the one the project names, which is untrusted
\* unless one of them covers it.
Untrusted(file, inProject) ==
    IF inProject /\ ProjectSource # None /\ ~TrustedBy(file, ProjectSource)
    THEN {ProjectSource} ELSE {}
Searched(file, inProject) == file \cup {Official} \cup Untrusted(file, inProject)

\* cachedFetcher: a fresh answer costs no request.
Answer(r) == IF answers[r] # 0 THEN answers[r] ELSE latest[r]

\* Search, when the sources in failing do not answer: every release of the name, from
\* every source that reaches its repository, the ones that cannot run here included.
Found(srcs, failing) ==
    UNION {{[source |-> s, repo |-> r, version |-> Answer(r), usable |-> Answer(r) \in Usable[r]]
              : r \in {q \in Repos : Covers(s, q)}} : s \in srcs \ failing}
Read(srcs, failing) == {c.repo : c \in Found(srcs, failing)}

\* (*installation).roles: what was asked for, what the project declares, the only role
\* published; otherwise a refusal, which is the empty sequence.
RolesToInstall(kind, inProject, found) ==
    LET published == {RoleOf[f.repo] : f \in found} IN
    CASE found = {} -> <<>>
      [] found # {} /\ kind # None -> <<kind>>
      [] found # {} /\ kind = None /\ inProject /\ Declared # <<>> -> Declared
      [] OTHER -> IF Cardinality(published) = 1 THEN <<CHOOSE k \in published : TRUE>> ELSE <<>>

\* candidatesWithRole and soleCandidate: the one usable release, or None.
Sole(found, role) ==
    LET usable == {f \in found : RoleOf[f.repo] = role /\ f.usable}
    IN IF Cardinality(usable) = 1 THEN CHOOSE f \in usable : TRUE ELSE None

(***************************************************************************)
(* Install                                                                 *)
(***************************************************************************)
Installing(at, dest, inProject, attended, roles, untrusted, found, bare) ==
    [at |-> at, dest |-> dest, inProject |-> inProject, attended |-> attended, roles |-> roles,
     untrusted |-> untrusted, found |-> found, bare |-> bare, saw |-> {}, sum |-> None]

\* The search fills the cache with what it read.
Remember(srcs, failing) ==
    answers' = [r \in Repos |-> IF r \in Read(srcs, failing) THEN Answer(r) ELSE answers[r]]

\* runInstall: where it goes, the search, the roles.  Outside a project only --global
\* has somewhere to put it.
Install(c) ==
    /\ shell[c] = Idle /\ Pay("tasks")
    /\ \E call \in Invocations, failing \in Failing :
         LET srcs == Searched(approved, call.inProject)
             found == Found(srcs, failing)
             roles == RolesToInstall(call.kind, call.inProject, found) IN
         /\ Remember(srcs, failing)
         /\ Become(c, IF roles = <<>> THEN Idle
                      ELSE Installing("choose", call.dest, call.inProject, call.attended, roles,
                                      Untrusted(approved, call.inProject), found, FALSE))
    /\ UNCHANGED <<latest, approved, disk, lock, consented, ran, stirred>>

\* installedAlready: a binary anywhere the loader looks, whatever the lock says of it.
Present(role) == \E d \in DOMAIN disk : disk[d][role] # None

\* runInstallDeclared: every declared plugin not on disk, each with a search of its own.
InstallDeclared(c) ==
    /\ shell[c] = Idle /\ Pay("tasks") /\ Declared # <<>>
    /\ \E call \in Invocations :
         /\ call.kind = None /\ call.inProject
         /\ Become(c, Installing("entry", call.dest, TRUE, call.attended, Declared, {}, {}, TRUE))
    /\ UNCHANGED <<latest, answers, approved, disk, lock, consented, ran, stirred>>

\* What follows the install of one role, or its failure: the next role of this run.
\* A bare install goes on after a failure; a named one stops.
After(s, failed) ==
    IF Len(s.roles) = 1 \/ (failed /\ ~s.bare) THEN Idle
    ELSE [s EXCEPT !.roles = Tail(@), !.at = IF s.bare THEN "entry" ELSE "choose",
                   !.saw = {}, !.sum = None]

Entry(c) ==
    /\ shell[c].at = "entry"
    /\ IF Present(Head(shell[c].roles)) THEN Become(c, After(shell[c], FALSE)) /\ UNCHANGED answers
       ELSE LET srcs == Searched(approved, TRUE) IN
            \E failing \in Failing :
              /\ Remember(srcs, failing)
              /\ Become(c, [shell[c] EXCEPT !.at = "choose", !.found = Found(srcs, failing),
                                            !.untrusted = Untrusted(approved, TRUE)])
    /\ UNCHANGED <<latest, approved, disk, lock, consented, ran, stirred, left>>

\* Mutant: with nobody there to ask, the question is skipped.
NeedsYesAttended(s, chosen) == chosen.source \in s.untrusted /\ s.attended

\* ensureTrusted: the source the project names, when the user's file does not cover it.
NeedsYes(s, chosen) == chosen.source \in s.untrusted

\* The release, and whether its source needs a yes; the yes, which nobody can give
\* with --output or at the end of input.
Choose(c) ==
    LET s == shell[c]
        chosen == IF s.at = "choose" THEN Sole(s.found, Head(s.roles)) ELSE None IN
    /\ s.at = "choose"
    /\ \/ chosen # None /\ ~NeedsYes(s, chosen) /\ Become(c, [s EXCEPT !.at = "fetch"])
          /\ UNCHANGED consented
       \/ chosen # None /\ NeedsYes(s, chosen) /\ s.attended
          /\ consented' = consented \cup {chosen.source}
          /\ Become(c, [s EXCEPT !.at = "approve", !.saw = approved])
       \/ (chosen # None => NeedsYes(s, chosen))
          /\ Become(c, After(s, TRUE)) /\ UNCHANGED consented
    /\ UNCHANGED <<latest, answers, approved, disk, lock, ran, stirred, left>>

ChosenOf(c) == Sole(shell[c].found, Head(shell[c].roles))

\* Approve, which writes the whole file from what it read.
Approve(c) ==
    LET s == shell[c] IN
    /\ s.at = "approve"
    /\ approved' = IF TrustedBy(s.saw, ChosenOf(c).source) THEN approved
                   ELSE s.saw \cup {ChosenOf(c).source}
    /\ Become(c, [s EXCEPT !.at = "fetch", !.saw = {}])
    /\ UNCHANGED <<latest, answers, disk, lock, consented, ran, stirred, left>>

\* fetchAndInstall and ExtractBinary: SHA256SUMS, the asset, the comparison of the two,
\* the whole archive walked, and a rename.  Each refusal leaves the disk alone.
Fetch(c) ==
    LET s == shell[c] IN
    /\ s.at = "fetch"
    /\ \/ Become(c, After(s, TRUE)) /\ UNCHANGED <<disk, stirred>>
       \/ /\ disk' = [disk EXCEPT ![s.dest][Head(s.roles)] =
                        [repo |-> ChosenOf(c).repo, version |-> ChosenOf(c).version]]
          /\ stirred' = stirred \cup (({Head(s.roles)}) \cap
                {k \in Roles : \E d \in Shells \ {c} :
                    shell[d].at = "sum" /\ shell[d].dest = s.dest /\ Head(shell[d].roles) = k})
          /\ Become(c, [s EXCEPT !.at = "sum"])
    /\ UNCHANGED <<latest, answers, approved, lock, consented, ran, left>>

\* FileChecksum of what is on disk by then, and recordInstall, which has nothing to
\* record outside a project and reads the file first.
Sum(c) ==
    LET s == shell[c] IN
    /\ s.at = "sum"
    /\ Become(c, IF s.inProject
                 THEN [s EXCEPT !.at = "record", !.sum = disk[s.dest][Head(s.roles)], !.saw = lock]
                 ELSE After(s, FALSE))
    /\ UNCHANGED <<latest, answers, approved, disk, lock, consented, ran, stirred, left>>

\* Mutant: the checksums of other platforms outlive the version they were of.
RecordedKeepingAll(entries, key, chosen, platform, sum) ==
    LET old == entries[key]
        kept == IF old # None THEN old.sums ELSE [p \in Platforms |-> None]
    IN [entries EXCEPT ![key] = [version |-> chosen.version, source |-> chosen.source,
                                 sums |-> [kept EXCEPT ![platform] = sum]]]

\* recordInstall's entry: a different version drops what other platforms recorded.
Recorded(entries, key, chosen, platform, sum) ==
    LET old == entries[key]
        kept == IF old # None /\ old.version = chosen.version
                THEN old.sums ELSE [p \in Platforms |-> None]
    IN [entries EXCEPT ![key] = [version |-> chosen.version, source |-> chosen.source,
                                 sums |-> [kept EXCEPT ![platform] = sum]]]

\* The file is written whole, from what was read of it.
Record(c) ==
    LET s == shell[c] IN
    /\ s.at = "record"
    /\ lock' = Recorded(s.saw, Head(s.roles), ChosenOf(c), "here", s.sum)
    /\ stirred' = IF s.saw = lock THEN stirred ELSE Roles
    /\ Become(c, After(s, FALSE))
    /\ UNCHANGED <<latest, answers, approved, disk, consented, ran, left>>

(***************************************************************************)
(* Launch                                                                  *)
(***************************************************************************)
\* Find: the first directory that holds it.
FoundIn(role) ==
    LET holding == {i \in DOMAIN Dirs : disk[Dirs[i]][role] # None}
    IN IF holding = {} THEN None ELSE Dirs[CHOOSE i \in holding : \A j \in holding : i <= j]

\* checkLock and Lockfile.Check: what the lock does not mention passes, what it records
\* for other platforms only does not.
Passes(role, bin) == lock[role] # None => lock[role].sums["here"] = bin

Launch(c) ==
    /\ shell[c] = Idle /\ Pay("tasks")
    /\ \E k \in Roles : /\ FoundIn(k) # None /\ Passes(k, disk[FoundIn(k)][k])
                        /\ Become(c, [at |-> "exec", dir |-> FoundIn(k), role |-> k])
    /\ UNCHANGED <<latest, answers, approved, disk, lock, consented, ran, stirred>>

\* exec of the path, which is whatever is there by now.
Exec(c) ==
    /\ shell[c].at = "exec"
    /\ ran' = ran \cup {disk[shell[c].dir][shell[c].role]}
    /\ Become(c, Idle)
    /\ UNCHANGED <<latest, answers, approved, disk, lock, consented, stirred, left>>

(***************************************************************************)
(* Everybody else                                                          *)
(***************************************************************************)
Publishes ==
    /\ \E r \in Repos : latest[r] < Releases[r] /\ latest' = [latest EXCEPT ![r] = @ + 1]
    /\ UNCHANGED <<answers, approved, disk, lock, shell, consented, ran, stirred, left>>
HourPasses ==
    /\ answers' = [r \in Repos |-> 0]
    /\ UNCHANGED <<latest, approved, disk, lock, shell, consented, ran, stirred, left>>

\* A binary put in place by hand.
HandPlace ==
    /\ Pay("strays")
    /\ \E d \in DOMAIN disk, k \in Roles :
         /\ disk' = [disk EXCEPT ![d][k] = ByHand]
         /\ stirred' = IF \E c \in Shells : shell[c].at = "sum" THEN stirred \cup {k} ELSE stirred
    /\ UNCHANGED <<latest, answers, approved, lock, shell, consented, ran>>

\* plugins.lock is committed: what an install on another machine recorded arrives.
Pull ==
    /\ Pay("strays")
    /\ \E r \in Repos : latest[r] \in Usable[r] /\
         lock' = Recorded(lock, RoleOf[r], [version |-> latest[r], source |-> OwnerOf[r]],
                          "there", [repo |-> r, version |-> latest[r]])
    /\ UNCHANGED <<latest, answers, approved, disk, shell, consented, ran, stirred>>

InstallNext ==
    \/ \E c \in Shells :
          \/ Install(c) \/ InstallDeclared(c) \/ Entry(c) \/ Choose(c) \/ Approve(c)
          \/ Fetch(c) \/ Sum(c) \/ Record(c) \/ Launch(c) \/ Exec(c)
    \/ Publishes \/ HourPasses \/ HandPlace \/ Pull
InstallSpec == InstallInit /\ [][InstallNext]_installVars

(***************************************************************************)
(* Properties                                                              *)
(***************************************************************************)
\* Every checksum of an entry of plugins.lock is of a release of the version the entry
\* names, whatever was installed over what, here and on another platform.  The
\* exception is two commands, or a person, between the landing of a binary and its
\* record.
LockVouches ==
    \A k \in Roles \ stirred : lock[k] # None =>
        \A p \in Platforms : lock[k].sums[p] # None => lock[k].sums[p].version = lock[k].version

\* ... and of a release the source it names published.  recordInstall compares the
\* version only: the same version from another publisher keeps the checksums that were
\* recorded for the first one's.
LockNamesItsSource ==
    \A k \in Roles \ stirred : lock[k] # None =>
        \A p \in Platforms : lock[k].sums[p] # None => Covers(lock[k].source, lock[k].sums[p].repo)

\* What runs was put there by hand, or came from a source the user named or said yes
\* to: nothing a clone of a project brings along decides that.
RunsOnlyApproved ==
    \A b \in ran : b # ByHand => \E s \in consented \cup {Official} : Covers(s, b.repo)
=============================================================================
