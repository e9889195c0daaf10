-------------------------------- MODULE Scopes -------------------------------
(***************************************************************************)
(* What ${var.name} means: the environment a run names, the environments   *)
(* it extends, and the ladder of places a variable may be set, climbed     *)
(* once for the project and once more for every resources directory that   *)
(* has variables of its own.                                               *)
(*                                                                         *)
(* A value is who supplied it and whether it has the declared type; what a *)
(* place sets is a function from names to whether the value is good.       *)
(***************************************************************************)
EXTENDS Naturals, Sequences

CONSTANTS
  Configs,   \* what is written, with what the command was given
  Reserved,  \* names the run itself supplies
  Nobody     \* no environment, no parent, no supplier

VARIABLES
  config,    \* the one configuration
  progress,     \* "start", "climbing", "chained", "narrowing", "done", "failed"
  order,     \* the environments met so far, the named one first
  guards,    \* for each protection, whether it holds and who said so
  scopes,    \* for the project and each directory resolved, name -> value
  errors     \* what was reported

scopeVars == <<config, progress, order, guards, scopes, errors>>

-----------------------------------------------------------------------------
(* config: environment, environments (name -> extends, sets, guards),      *)
(* declared (name -> "default" or "bare"), base, directories (directory -> *)
(* what it sets), varFile and vars (what the command line sets).           *)

Protections == {"approval", "destroy"}
\* A place a value may come from, or a scope it is resolved in.
Place(kind, name) == [kind |-> kind, name |-> name]
Project == Place("project", Nobody)
Supplied(from, sets) == [n \in DOMAIN sets |-> [from |-> from, good |-> sets[n]]]
Unset == [from |-> Nobody, good |-> TRUE]
Selected == config.environment # Nobody
Error(kind, n, from) == [kind |-> kind, name |-> n, from |-> from]

Drop(f, names) == [n \in DOMAIN f \ names |-> f[n]]
\* What the upper sets, over what was there.
Over(upper, lower) ==
  [n \in DOMAIN upper \cup DOMAIN lower |-> IF n \in DOMAIN upper THEN upper[n] ELSE lower[n]]

\* The first environment met that says anything about a protection settles it.
Guard(o, p) ==
  LET says == {i \in DOMAIN o : p \in DOMAIN config.environments[o[i]].guards}
      first == CHOOSE i \in says : \A j \in says : i <= j
  IN IF says = {} THEN [on |-> FALSE, from |-> Nobody]
     ELSE [on |-> config.environments[o[first]].guards[p], from |-> o[first]]

-----------------------------------------------------------------------------
(* The ladder. *)

Defaults ==
  Supplied(Place("default", Nobody),
           [n \in {m \in DOMAIN config.declared : config.declared[m] = "default"} |-> TRUE])
\* What the command line's file names takes the place of the project's value
\* before either is put on its rung.
Base == Supplied(Place("base", Nobody), Drop(config.base, DOMAIN config.varFile))
\* The environments in the order given, each with what it sets.
Environments(envs) ==
  [i \in DOMAIN envs |-> Supplied(Place("environment", envs[i]), config.environments[envs[i]].sets)]
RootFirst == [i \in DOMAIN order |-> order[Len(order) - i + 1]]
VarFile == Supplied(Place("var-file", Nobody), Drop(config.varFile, Reserved))
\* A text given for a declared name that does not parse as its type leaves it
\* unknown.
Vars ==
  [n \in DOMAIN config.vars \ Reserved |->
     IF n \in DOMAIN config.declared /\ ~config.vars[n] THEN Unset
     ELSE [from |-> Place("var", Nobody), good |-> TRUE]]

\* A mutant: the environments are laid on as they were met.
RungsAsMet(own) == <<Defaults, Base, own>> \o Environments(order) \o <<VarFile, Vars>>
\* The rungs, lowest first.
Rungs(own) == <<Defaults, Base, own>> \o Environments(RootFirst) \o <<VarFile, Vars>>
\* Each rung is laid over what the ones below it left.
Ladder(rungs) ==
  LET climbed[i \in 0..Len(rungs)] == IF i = 0 THEN << >> ELSE Over(rungs[i], climbed[i - 1])
  IN climbed
Climbed(own) == Ladder(Rungs(own))[Len(Rungs(own))]

\* What is declared is judged by the value that won, save a default, which was
\* judged where it was declared; one that nothing set is unknown.
Judged(won) == Over(won, [n \in DOMAIN config.declared |-> Unset])
Complaints(won) ==
  {Error("reserved", n, "var-file") : n \in DOMAIN config.varFile \cap Reserved}
  \cup {Error("reserved", n, "var") : n \in DOMAIN config.vars \cap Reserved}
  \cup {Error("unparsed", n, "var") :
          n \in {m \in DOMAIN config.vars \ Reserved : m \in DOMAIN config.declared /\ ~config.vars[m]}}
  \cup {Error("kind", n, won[n].from) :
          n \in {m \in DOMAIN config.declared \cap DOMAIN won : ~won[m].good}}
  \cup {Error("unset", n, Nobody) :
          n \in {m \in DOMAIN config.declared \ (DOMAIN won \cup Reserved) : Selected}}
Usable(complaints) == \A e \in complaints : e.kind = "unset"

\* The run's own names are put over whatever was resolved.
Seed(scope) == Over([n \in Reserved |-> [from |-> Place("run", Nobody), good |-> TRUE]], scope)

\* What one directory's run adds to what has been reported: the same complaint
\* is the same mistake told again.
Anew(complaints) == complaints \ errors

-----------------------------------------------------------------------------

ScopesInit ==
  /\ config \in Configs
  /\ progress = "start" /\ order = <<>>
  /\ guards = [p \in Protections |-> [on |-> FALSE, from |-> Nobody]]
  /\ scopes = << >> /\ errors = {}

\* No environment, or a project that declares none, has nothing to climb.
Select ==
  /\ progress = "start"
  /\ IF ~Selected \/ DOMAIN config.environments = {}
     THEN progress' = "chained" /\ UNCHANGED <<order, errors>>
     ELSE IF config.environment \in DOMAIN config.environments
     THEN progress' = "climbing" /\ order' = <<config.environment>> /\ UNCHANGED errors
     ELSE /\ progress' = "failed" /\ UNCHANGED order
          /\ errors' = {Error("environment", config.environment, Nobody)}
  /\ UNCHANGED <<config, guards, scopes>>

\* One environment parent-ward; one met before is a cycle.  A chain that is
\* broken leaves nothing behind.
Climb ==
  LET last == order[Len(order)]
      parent == config.environments[last].extends
  IN /\ progress = "climbing" /\ parent # Nobody
     /\ IF parent \in DOMAIN config.environments /\ \A i \in DOMAIN order : order[i] # parent
        THEN order' = Append(order, parent) /\ UNCHANGED <<progress, errors>>
        ELSE /\ progress' = "failed" /\ order' = <<>>
             /\ errors' = {Error("extends", parent, last)}
     /\ UNCHANGED <<config, guards, scopes>>

ReachRoot ==
  /\ progress = "climbing" /\ config.environments[order[Len(order)]].extends = Nobody
  /\ progress' = "chained"
  /\ guards' = [p \in Protections |-> Guard(order, p)]
  /\ UNCHANGED <<config, order, scopes, errors>>

\* A variable nothing set does not stop the run: it is unknown, and reported.
ResolveProject ==
  /\ progress = "chained"
  /\ LET won == Climbed(<< >>)
         complaints == Complaints(won)
     IN /\ errors' = complaints
        /\ progress' = IF Usable(complaints) THEN "narrowing" ELSE "failed"
        /\ scopes' = IF Usable(complaints) THEN [s \in {Project} |-> Seed(Judged(won))] ELSE scopes
  /\ UNCHANGED <<config, order, guards>>

\* The same ladder, with the directory's own variables on their rung.
NarrowDirectory(dir) ==
  /\ progress = "narrowing" /\ Place("directory", dir) \notin DOMAIN scopes
  /\ LET here == Place("directory", dir)
         won == Climbed(Supplied(here, config.directories[dir]))
     IN /\ errors' = errors \cup Anew(Complaints(won))
        /\ scopes' = Over([s \in {here} |-> Seed(Judged(won))], scopes)
  /\ UNCHANGED <<config, progress, order, guards>>

\* Only what the directories added stops the run here.
Settle ==
  /\ progress = "narrowing"
  /\ \A dir \in DOMAIN config.directories : Place("directory", dir) \in DOMAIN scopes
  /\ progress' = IF Usable(errors) THEN "done" ELSE "failed"
  /\ UNCHANGED <<config, order, guards, scopes, errors>>

ScopesNext ==
  \/ Select \/ Climb \/ ReachRoot \/ ResolveProject \/ Settle
  \/ \E dir \in DOMAIN config.directories : NarrowDirectory(dir)
ScopesSpec == ScopesInit /\ [][ScopesNext]_scopeVars

-----------------------------------------------------------------------------
(* Properties. *)

Ancestors == {order[i] : i \in DOMAIN order}
\* b is among what a extends: no set of environments holds a's parent, and the
\* parent of each of its own, without b.
Extends(a, b) ==
  /\ config.environments[a].extends # Nobody
  /\ \A S \in SUBSET DOMAIN config.environments :
       /\ config.environments[a].extends \in S
       /\ \A e \in S : config.environments[e].extends \in S \cup {Nobody}
       => b \in S

\* Who may set a name in a scope.
Suppliers(s, n) ==
  (IF n \in DOMAIN Defaults THEN {Place("default", Nobody)} ELSE {})
  \cup (IF n \in DOMAIN config.base THEN {Place("base", Nobody)} ELSE {})
  \cup (IF s # Project /\ n \in DOMAIN config.directories[s.name] THEN {s} ELSE {})
  \cup {Place("environment", e) : e \in {e \in Ancestors : n \in DOMAIN config.environments[e].sets}}
  \cup (IF n \in DOMAIN config.varFile THEN {Place("var-file", Nobody)} ELSE {})
  \cup (IF n \in DOMAIN config.vars THEN {Place("var", Nobody)} ELSE {})

\* One supplier is more specific than another.
Rank(kind) ==
  CASE kind = "default" -> 0 [] kind = "base" -> 1 [] kind = "directory" -> 2
    [] kind = "environment" -> 3 [] kind = "var-file" -> 4 [] kind = "var" -> 5
Beats(a, b) ==
  \/ Rank(a.kind) > Rank(b.kind)
  \/ a.kind = "environment" /\ b.kind = "environment" /\ Extends(a.name, b.name)

\* In every scope a variable is what its most specific supplier says: the run
\* for its own names, then the command line, the environment before those it
\* extends, the directory, the project; and each protection is what the nearest
\* environment that mentions it says.  (A ladder climbed again for a directory
\* has every rung above the directory's own laid back over it.)
MostSpecificWins ==
  progress = "done" =>
    /\ \A s \in DOMAIN scopes : \A n \in DOMAIN scopes[s] :
         LET from == scopes[s][n].from
         IN IF n \in Reserved THEN from = Place("run", Nobody)
            ELSE IF Suppliers(s, n) = {} THEN from = Nobody
            ELSE from \in Suppliers(s, n) /\ \A a \in Suppliers(s, n) \ {from} : Beats(from, a)
    /\ \A p \in Protections :
         LET speakers == {e \in Ancestors : p \in DOMAIN config.environments[e].guards}
         IN IF speakers = {} THEN guards[p].from = Nobody /\ ~guards[p].on
            ELSE /\ guards[p].from \in speakers
                 /\ \A e \in speakers \ {guards[p].from} : Extends(guards[p].from, e)
                 /\ guards[p].on = config.environments[guards[p].from].guards[p]

=============================================================================
