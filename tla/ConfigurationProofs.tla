------------------------- MODULE ConfigurationProofs -------------------------
(***************************************************************************)
(* The configuration language, for every configuration.  A variable and a  *)
(* protection are what the most specific place that sets them says.  And   *)
(* for every project, every plugin that can be loaded and every order of   *)
(* commands, a recorded resource is called in the account its object was   *)
(* made in, destroy and refresh refuse no more than a missing plugin makes *)
(* them, and a project of one plugin is served by it.                      *)
(***************************************************************************)
EXTENDS Scopes, Instances, SequenceTheorems, WellFoundedInduction, TLAPS

(* Variables and protections *)

LEMMA LeastNat ==
  ASSUME NEW S \in SUBSET Nat, S # {}
  PROVE  \E n \in S : \A m \in S : n <= m
  <1>1. PICK x \in S : \A y \in S : ~(<<y, x>> \in OpToRel(<, Nat))
    BY NatLessThanWellFounded, WFMin
  <1>2. \A y \in S : ~(y < x)
    BY <1>1 DEF OpToRel
  <1> QED BY <1>2

-----------------------------------------------------------------------------
(***************************************************************************)
(* Climbing a ladder.  The recursion has a solution: one for every part of *)
(* the ladder, each from the one before.                                   *)
(***************************************************************************)
Climbing(rungs, k, climbed) ==
  climbed = [i \in 0..k |-> IF i = 0 THEN << >> ELSE Over(rungs[i], climbed[i - 1])]

LEMMA ClimbsOn ==
  ASSUME NEW rungs, NEW k \in Nat \ {0}, NEW f, Climbing(rungs, k - 1, f)
  PROVE  \E g : Climbing(rungs, k, g)
  <1> DEFINE g == [i \in 0..k |-> IF i < k THEN f[i] ELSE Over(rungs[i], f[i - 1])]
  <1>1. DOMAIN f = 0..k - 1 /\ \A i \in 0..k - 1 : f[i] = IF i = 0 THEN << >> ELSE Over(rungs[i], f[i - 1])
    BY DEF Climbing
  <1>2. ASSUME NEW i \in 0..k
        PROVE  g[i] = IF i = 0 THEN << >> ELSE Over(rungs[i], g[i - 1])
    <2>1. CASE i = 0
      BY <1>1, <2>1
    <2>2. CASE i # 0
      <3>1. i - 1 \in 0..k /\ i - 1 < k
        BY <2>2
      <3>2. g[i - 1] = f[i - 1]
        BY <3>1
      <3>3. g[i] = Over(rungs[i], f[i - 1])
        BY <1>1, <2>2
      <3> QED BY <2>2, <3>2, <3>3
    <2> QED BY <2>1, <2>2
  <1>3. g = [i \in 0..k |-> g[i]]
    OBVIOUS
  <1> HIDE DEF g
  <1>4. g = [i \in 0..k |-> IF i = 0 THEN << >> ELSE Over(rungs[i], g[i - 1])]
    BY <1>2, <1>3
  <1> QED BY <1>4 DEF Climbing

LEMMA LadderExists ==
  ASSUME NEW rungs, Len(rungs) \in Nat
  PROVE  Climbing(rungs, Len(rungs), Ladder(rungs))
  <1> DEFINE Stuck == {k \in Nat : ~ \E f : Climbing(rungs, k, f)}
  <1>1. Stuck = {}
    <2> SUFFICES ASSUME Stuck # {} PROVE FALSE
      OBVIOUS
    <2>1. PICK k \in Stuck : \A m \in Stuck : k <= m
      BY LeastNat
    <2>2. k # 0
      <3>1. Climbing(rungs, 0, [i \in 0..0 |-> << >>])
        BY DEF Climbing
      <3> QED BY <2>1, <3>1
    <2>3. k - 1 \in Nat /\ k - 1 \notin Stuck
      BY <2>1, <2>2
    <2>4. PICK f : Climbing(rungs, k - 1, f)
      BY <2>3
    <2> QED BY <2>1, <2>2, <2>4, ClimbsOn
  <1>2. \E f : Climbing(rungs, Len(rungs), f)
    BY <1>1
  <1>3. Ladder(rungs) = CHOOSE f : Climbing(rungs, Len(rungs), f)
    BY DEF Ladder, Climbing
  <1> QED BY <1>2, <1>3

\* At every rung, a name has the value of the highest rung so far that sets it.
Highest(rungs, climbed, i) ==
  /\ \A n : n \in DOMAIN climbed[i] <=> \E j \in 1..i : n \in DOMAIN rungs[j]
  /\ \A n \in DOMAIN climbed[i] : \E k \in 1..i :
       /\ n \in DOMAIN rungs[k] /\ climbed[i][n] = rungs[k][n]
       /\ \A j \in 1..i : n \in DOMAIN rungs[j] => j <= k

LEMMA HighestWins ==
  ASSUME NEW rungs, Len(rungs) \in Nat, NEW i \in 0..Len(rungs)
  PROVE  Highest(rungs, Ladder(rungs), i)
  <1> DEFINE f == Ladder(rungs)
             Wrong == {m \in 0..Len(rungs) : ~Highest(rungs, f, m)}
  <1>1. \A m \in 0..Len(rungs) : f[m] = IF m = 0 THEN << >> ELSE Over(rungs[m], f[m - 1])
    BY LadderExists DEF Climbing
  <1> HIDE DEF f
  <1>2. Wrong = {}
    <2> SUFFICES ASSUME Wrong # {} PROVE FALSE
      OBVIOUS
    <2>1. Wrong \in SUBSET Nat
      OBVIOUS
    <2>2. PICK k \in Wrong : \A m \in Wrong : k <= m
      BY <2>1, LeastNat
    <2>3. k # 0
      <3> SUFFICES ASSUME k = 0 PROVE FALSE
        OBVIOUS
      <3>1. f[0] = << >> /\ DOMAIN << >> = {}
        BY <1>1, <2>2
      <3>2. DOMAIN f[0] = {}
        BY <3>1
      <3>3. Highest(rungs, f, 0)
        BY <3>2 DEF Highest
      <3> QED BY <2>2, <3>3
    <2>4. k \in Nat /\ k - 1 \in 0..Len(rungs) /\ k - 1 \notin Wrong /\ k <= Len(rungs)
      BY <2>2, <2>3
    <2>5. Highest(rungs, f, k - 1)
      BY <2>4
    <2>6. f[k] = Over(rungs[k], f[k - 1])
      BY <1>1, <2>2, <2>3
    <2>7. DOMAIN f[k] = DOMAIN rungs[k] \cup DOMAIN f[k - 1]
      BY <2>6 DEF Over
    <2>8. \A n \in DOMAIN f[k] : f[k][n] = IF n \in DOMAIN rungs[k] THEN rungs[k][n] ELSE f[k - 1][n]
      BY <2>6, <2>7 DEF Over
    <2>9. \A n : n \in DOMAIN f[k] <=> \E j \in 1..k : n \in DOMAIN rungs[j]
      <3>1. \A n : n \in DOMAIN f[k - 1] <=> \E j \in 1..k - 1 : n \in DOMAIN rungs[j]
        BY <2>5 DEF Highest
      <3>2. \A j : j \in 1..k <=> j = k \/ j \in 1..k - 1
        BY <2>3, <2>4
      <3> QED BY <2>7, <3>1, <3>2
    <2>10. ASSUME NEW n \in DOMAIN f[k]
           PROVE  \E h \in 1..k : /\ n \in DOMAIN rungs[h] /\ f[k][n] = rungs[h][n]
                                  /\ \A j \in 1..k : n \in DOMAIN rungs[j] => j <= h
      <3>1. CASE n \in DOMAIN rungs[k]
        <4>1. k \in 1..k /\ f[k][n] = rungs[k][n]
          BY <2>3, <2>4, <2>8, <3>1
        <4> QED BY <3>1, <4>1
      <3>2. CASE n \notin DOMAIN rungs[k]
        <4>1. n \in DOMAIN f[k - 1] /\ f[k][n] = f[k - 1][n]
          BY <2>7, <2>8, <3>2
        <4>2. PICK h \in 1..k - 1 : /\ n \in DOMAIN rungs[h] /\ f[k - 1][n] = rungs[h][n]
                                    /\ \A j \in 1..k - 1 : n \in DOMAIN rungs[j] => j <= h
          BY <2>5, <4>1 DEF Highest
        <4>3. \A j \in 1..k : n \in DOMAIN rungs[j] => j <= h
          BY <2>4, <3>2, <4>2
        <4>4. h \in 1..k
          BY <2>4, <4>2
        <4> QED BY <4>1, <4>2, <4>3, <4>4
      <3> QED BY <3>1, <3>2
    <2>11. Highest(rungs, f, k)
      BY <2>9, <2>10 DEF Highest
    <2> QED BY <2>2, <2>11
  <1> QED BY <1>2 DEF f

-----------------------------------------------------------------------------
(***************************************************************************)
(* The inductive invariant.  The environments met are a chain of extends;  *)
(* each protection is what the chain says; and every scope is the ladder   *)
(* climbed with the scope's own rung, where nothing on the command line    *)
(* was left unparsed.                                                      *)
(***************************************************************************)
IsChain ==
  /\ order \in Seq(DOMAIN config.environments)
  /\ \A i \in DOMAIN order : order[i] # Nobody
  /\ \A i \in DOMAIN order : i + 1 \in DOMAIN order => config.environments[order[i]].extends = order[i + 1]
Unguarded == [on |-> FALSE, from |-> Nobody]
GuardsInv ==
  /\ progress = "start" => order = << >> /\ \A p \in Protections : guards[p] = Unguarded
  /\ progress \in {"chained", "narrowing", "done"} => \A p \in Protections : guards[p] = Guard(order, p)

Own(s) == IF s = Project THEN << >> ELSE Supplied(s, config.directories[s.name])
Resolved(s) == Seed(Judged(Climbed(Own(s))))
Parsed == \A n \in DOMAIN config.vars \ Reserved : n \in DOMAIN config.declared => config.vars[n]
Settled ==
  /\ Parsed
  /\ \A s \in DOMAIN scopes :
       /\ s = Project \/ \E dir \in DOMAIN config.directories : s = Place("directory", dir)
       /\ scopes[s] = Resolved(s)

ScopesInv ==
  /\ IsChain
  /\ progress = "climbing" => order # << >>
  /\ GuardsInv
  /\ progress \in {"narrowing", "done"} => Settled

\* Nothing of what is resolved changes once the chain stands.
LEMMA SameLadder ==
  ASSUME config' = config, order' = order, NEW s
  PROVE  Resolved(s)' = Resolved(s) /\ Own(s)' = Own(s)
  <1>1. Own(s)' = Own(s)
    BY DEF Own, Supplied
  <1>2. Defaults' = Defaults /\ Base' = Base /\ VarFile' = VarFile
    BY DEF Defaults, Base, VarFile, Supplied, Drop
  <1>3. Vars' = Vars
    BY DEF Vars
  <1>4. RootFirst' = RootFirst
    BY DEF RootFirst
  <1>5. Environments(RootFirst)' = Environments(RootFirst)
    BY <1>4 DEF Environments, Supplied
  <1>6. Rungs(Own(s))' = Rungs(Own(s))
    BY <1>1, <1>2, <1>3, <1>5 DEF Rungs
  <1>7. Climbed(Own(s))' = Climbed(Own(s))
    BY <1>6 DEF Climbed
  <1>8. Judged(Climbed(Own(s)))' = Judged(Climbed(Own(s)))
    BY <1>7 DEF Judged
  <1> QED BY <1>1, <1>8 DEF Resolved, Seed

LEMMA SameGuards ==
  ASSUME config' = config, order' = order, NEW p
  PROVE  Guard(order, p)' = Guard(order, p)
  BY DEF Guard

LEMMA SameChain ==
  ASSUME config' = config, order' = order
  PROVE  IsChain' <=> IsChain
  BY DEF IsChain

LEMMA ScopesInitInv == ScopesInit => ScopesInv
  <1> SUFFICES ASSUME ScopesInit PROVE ScopesInv
    OBVIOUS
  <1>1. order = << >> /\ progress = "start" /\ \A p \in Protections : guards[p] = Unguarded
    BY DEF ScopesInit, Unguarded
  <1>2. IsChain
    BY <1>1 DEF IsChain
  <1> QED BY <1>1, <1>2 DEF ScopesInv, GuardsInv

LEMMA OneInSeq ==
  ASSUME NEW S, NEW x \in S
  PROVE  <<x>> \in Seq(S)
  OBVIOUS

LEMMA SelectKeeps ==
  ASSUME ScopesInv, Select
  PROVE  ScopesInv'
  <1>1. /\ progress = "start" /\ order = << >> /\ \A p \in Protections : guards[p] = Unguarded
        /\ config' = config /\ guards' = guards
    BY DEF Select, ScopesInv, GuardsInv
  <1>2. CASE progress' = "chained" /\ order' = order
    <2>1. \A p \in Protections : Guard(order, p) = Unguarded
      BY <1>1 DEF Guard, Unguarded
    <2>2. GuardsInv'
      BY <1>1, <1>2, <2>1, SameGuards DEF GuardsInv
    <2>3. IsChain'
      BY <1>1, <1>2, SameChain DEF ScopesInv
    <2> QED BY <1>2, <2>2, <2>3 DEF ScopesInv
  <1>3. CASE /\ progress' = "climbing" /\ order' = <<config.environment>>
             /\ config.environment \in DOMAIN config.environments /\ config.environment # Nobody
    <2>1. order' \in Seq(DOMAIN config'.environments)
      <3>1. <<config.environment>> \in Seq(DOMAIN config.environments)
        BY <1>3, OneInSeq
      <3>2. config'.environments = config.environments
        BY <1>1
      <3> QED BY <1>3, <3>1, <3>2
    <2>2. DOMAIN order' = {1} /\ order'[1] # Nobody /\ order' # << >>
      BY <1>3
    <2>3. IsChain'
      BY <2>1, <2>2 DEF IsChain
    <2> QED BY <1>3, <2>2, <2>3 DEF ScopesInv, GuardsInv
  <1>4. CASE progress' = "failed" /\ order' = order
    <2>1. IsChain'
      BY <1>1, <1>4, SameChain DEF ScopesInv
    <2> QED BY <1>4, <2>1 DEF ScopesInv, GuardsInv
  <1> QED BY <1>2, <1>3, <1>4 DEF Select, Selected

LEMMA ClimbKeeps ==
  ASSUME ScopesInv, Climb
  PROVE  ScopesInv'
  <1> DEFINE last == order[Len(order)]
             parent == config.environments[last].extends
  <1>1. /\ progress = "climbing" /\ parent # Nobody /\ config' = config /\ IsChain /\ order # << >>
        /\ \/ parent \in DOMAIN config.environments /\ order' = Append(order, parent) /\ progress' = "climbing"
           \/ progress' = "failed" /\ order' = << >>
    BY DEF Climb, ScopesInv
  <1>2. CASE parent \in DOMAIN config.environments /\ order' = Append(order, parent) /\ progress' = "climbing"
    <2>1. order \in Seq(DOMAIN config.environments) /\ Len(order) \in Nat /\ DOMAIN order = 1..Len(order)
      BY <1>1 DEF IsChain
    <2> HIDE DEF parent
    <2>2. /\ order' \in Seq(DOMAIN config.environments) /\ Len(order') = Len(order) + 1
          /\ DOMAIN order' = 1..Len(order) + 1
          /\ \A i \in DOMAIN order : order'[i] = order[i]
          /\ order'[Len(order) + 1] = parent
      BY <1>2, <2>1, AppendProperties
    <2>3. \A i \in DOMAIN order' : order'[i] # Nobody
      BY <1>1, <2>1, <2>2 DEF IsChain
    <2>4. ASSUME NEW i \in DOMAIN order', i + 1 \in DOMAIN order'
          PROVE  config.environments[order'[i]].extends = order'[i + 1]
      <3>1. i \in DOMAIN order /\ order'[i] = order[i]
        BY <2>1, <2>2, <2>4
      <3>2. CASE i + 1 \in DOMAIN order
        BY <1>1, <2>2, <3>1, <3>2 DEF IsChain
      <3>3. CASE i + 1 \notin DOMAIN order
        <4>1. i = Len(order)
          BY <2>1, <3>1, <3>3
        <4> QED BY <2>2, <3>1, <4>1 DEF parent
      <3> QED BY <3>2, <3>3
    <2>5. IsChain'
      BY <1>1, <2>2, <2>3, <2>4 DEF IsChain
    <2>6. order' # << >>
      BY <2>1, <2>2
    <2> QED BY <1>2, <2>5, <2>6 DEF ScopesInv, GuardsInv
  <1>3. CASE progress' = "failed" /\ order' = << >>
    <2>1. IsChain'
      BY <1>3 DEF IsChain
    <2> QED BY <1>3, <2>1 DEF ScopesInv, GuardsInv
  <1> QED BY <1>1, <1>2, <1>3

LEMMA ReachRootKeeps ==
  ASSUME ScopesInv, ReachRoot
  PROVE  ScopesInv'
  <1>1. /\ progress' = "chained" /\ config' = config /\ order' = order
        /\ guards' = [p \in Protections |-> Guard(order, p)]
    BY DEF ReachRoot
  <1>2. IsChain'
    BY <1>1, SameChain DEF ScopesInv
  <1>3. GuardsInv'
    BY <1>1, SameGuards DEF GuardsInv
  <1> QED BY <1>1, <1>2, <1>3 DEF ScopesInv

\* A ladder that is usable left no text unparsed.
LEMMA UsableIsParsed ==
  ASSUME NEW won, Usable(Complaints(won))
  PROVE  Parsed
  <1> SUFFICES ASSUME NEW n \in DOMAIN config.vars \ Reserved, n \in DOMAIN config.declared, ~config.vars[n]
               PROVE  FALSE
    BY DEF Parsed
  <1>1. Error("unparsed", n, "var") \in Complaints(won)
    BY DEF Complaints
  <1>2. Error("unparsed", n, "var").kind = "unparsed"
    BY DEF Error
  <1> QED BY <1>1, <1>2 DEF Usable

LEMMA ResolveProjectKeeps ==
  ASSUME ScopesInv, ResolveProject
  PROVE  ScopesInv'
  <1> DEFINE won == Climbed(<< >>)
  <1>1. /\ progress = "chained" /\ config' = config /\ order' = order /\ guards' = guards
        /\ \/ /\ Usable(Complaints(won)) /\ progress' = "narrowing"
              /\ scopes' = [s \in {Project} |-> Seed(Judged(won))]
           \/ progress' = "failed"
    BY DEF ResolveProject
  <1>2. IsChain'
    BY <1>1, SameChain DEF ScopesInv
  <1>3. GuardsInv'
    BY <1>1, SameGuards DEF ScopesInv, GuardsInv
  <1>4. ASSUME progress' = "narrowing"
        PROVE  Settled'
    <2>1. Usable(Complaints(won)) /\ scopes' = [s \in {Project} |-> Seed(Judged(won))]
      BY <1>1, <1>4
    <2>2. Parsed'
      <3>1. Parsed
        BY <2>1, UsableIsParsed
      <3> QED BY <1>1, <3>1 DEF Parsed
    <2>3. DOMAIN scopes' = {Project} /\ scopes'[Project] = Seed(Judged(won))
      BY <2>1
    <2>4. Resolved(Project) = Seed(Judged(won))
      BY DEF Resolved, Own
    <2>5. Resolved(Project)' = Resolved(Project) /\ Project' = Project
      BY <1>1, SameLadder DEF Project, Place
    <2>6. \A s \in DOMAIN scopes' : s = Project /\ scopes'[s] = Resolved(s)'
      BY <2>3, <2>4, <2>5
    <2> QED BY <2>2, <2>6 DEF Settled
  <1> QED BY <1>1, <1>2, <1>3, <1>4 DEF ScopesInv

LEMMA NarrowDirectoryKeeps ==
  ASSUME ScopesInv, NEW dir \in DOMAIN config.directories, NarrowDirectory(dir)
  PROVE  ScopesInv'
  <1> DEFINE here == Place("directory", dir)
             won == Climbed(Supplied(here, config.directories[dir]))
  <1>1. /\ progress = "narrowing" /\ config' = config /\ order' = order /\ guards' = guards /\ progress' = progress
        /\ scopes' = Over([s \in {here} |-> Seed(Judged(won))], scopes)
    BY DEF NarrowDirectory
  <1>2. IsChain'
    BY <1>1, SameChain DEF ScopesInv
  <1>3. GuardsInv'
    BY <1>1, SameGuards DEF ScopesInv, GuardsInv
  <1>4. Settled
    BY <1>1 DEF ScopesInv
  <1>5. Parsed'
    BY <1>1, <1>4 DEF Settled, Parsed
  <1>6. Resolved(here) = Seed(Judged(won))
    <2>1. here # Project /\ here.name = dir
      BY DEF Place, Project
    <2> QED BY <2>1 DEF Resolved, Own
  <1> DEFINE new == [s \in {here} |-> Seed(Judged(won))]
  <1>7. DOMAIN new = {here} /\ new[here] = Seed(Judged(won))
    OBVIOUS
  <1> HIDE DEF here, won, new
  <1>8. \A s \in DOMAIN scopes' : s = here \/ s \in DOMAIN scopes
    BY <1>1, <1>7 DEF Over, new
  <1>9. \A s \in DOMAIN scopes' : scopes'[s] = Resolved(s)
    <2>1. scopes' = Over(new, scopes)
      BY <1>1 DEF new
    <2> QED BY <1>4, <1>6, <1>7, <1>8, <2>1 DEF Over, Settled
  <1>10. \A s \in DOMAIN scopes' : scopes'[s] = Resolved(s)'
    BY <1>1, <1>9, SameLadder
  <1>11. \A s \in DOMAIN scopes' : s = Project \/ \E d \in DOMAIN config'.directories : s = Place("directory", d)
    BY <1>1, <1>4, <1>8 DEF Settled, here
  <1>12. Settled'
    BY <1>5, <1>10, <1>11 DEF Settled, Project, Place
  <1> QED BY <1>1, <1>2, <1>3, <1>12 DEF ScopesInv

LEMMA ScopesStep ==
  ASSUME ScopesInv, [ScopesNext]_scopeVars
  PROVE  ScopesInv'
  <1>1. CASE Select
    BY <1>1, SelectKeeps
  <1>2. CASE Climb
    BY <1>2, ClimbKeeps
  <1>3. CASE ReachRoot
    BY <1>3, ReachRootKeeps
  <1>4. CASE ResolveProject
    BY <1>4, ResolveProjectKeeps
  <1>5. ASSUME NEW dir \in DOMAIN config.directories, NarrowDirectory(dir)
        PROVE  ScopesInv'
    BY <1>5, NarrowDirectoryKeeps
  <1>6. CASE Settle \/ UNCHANGED scopeVars
    <2>1. /\ config' = config /\ order' = order /\ guards' = guards /\ scopes' = scopes
          /\ progress' = progress \/ (progress = "narrowing" /\ progress' \in {"done", "failed"})
      BY <1>6 DEF Settle, scopeVars
    <2>2. IsChain' /\ (Parsed' <=> Parsed)
      BY <2>1, SameChain DEF ScopesInv, Parsed
    <2>3. GuardsInv'
      BY <2>1, SameGuards DEF ScopesInv, GuardsInv
    <2>4. Settled' <=> Settled
      <3>1. \A s \in DOMAIN scopes : Resolved(s)' = Resolved(s)
        BY <2>1, SameLadder
      <3> QED BY <2>1, <2>2, <3>1 DEF Settled, Project, Place
    <2> QED BY <2>1, <2>2, <2>3, <2>4 DEF ScopesInv
  <1> QED BY <1>1, <1>2, <1>3, <1>4, <1>5, <1>6 DEF ScopesNext

-----------------------------------------------------------------------------
(* Who wins *)

\* Of two environments met one after the other, the first extends the second.
LEMMA ChainExtends ==
  ASSUME IsChain, NEW i \in DOMAIN order, NEW j \in DOMAIN order, i < j
  PROVE  Extends(order[i], order[j])
  <1>1. Len(order) \in Nat /\ DOMAIN order = 1..Len(order) /\ \A m \in DOMAIN order : order[m] \in DOMAIN config.environments
    BY DEF IsChain
  <1>2. i \in Nat /\ j \in Nat /\ i + 1 \in DOMAIN order
    BY <1>1
  <1>3. config.environments[order[i]].extends = order[i + 1] /\ order[i + 1] # Nobody
    BY <1>2 DEF IsChain
  <1>4. ASSUME NEW S \in SUBSET DOMAIN config.environments,
               config.environments[order[i]].extends \in S,
               \A e \in S : config.environments[e].extends \in S \cup {Nobody}
        PROVE  order[j] \in S
    <2> DEFINE Missing == {m \in DOMAIN order : m > i /\ order[m] \notin S}
    <2>1. Missing = {}
      <3> SUFFICES ASSUME Missing # {} PROVE FALSE
        OBVIOUS
      <3>1. Missing \in SUBSET Nat
        BY <1>1
      <3>2. PICK k \in Missing : \A m \in Missing : k <= m
        BY <3>1, LeastNat
      <3>3. k # i + 1
        BY <1>3, <1>4, <3>2
      <3>4. k - 1 \in DOMAIN order /\ k - 1 > i /\ k \in DOMAIN order
        BY <1>1, <1>2, <3>2, <3>3
      <3>5. order[k - 1] \in S
        BY <1>1, <3>2, <3>4
      <3>6. config.environments[order[k - 1]].extends = order[k]
        <4>1. (k - 1) + 1 = k
          BY <1>1, <3>4
        <4> QED BY <3>4, <4>1 DEF IsChain
      <3>7. order[k] \in S \cup {Nobody}
        BY <1>4, <3>5, <3>6
      <3> QED BY <3>2, <3>4, <3>7 DEF IsChain
    <2> QED BY <1>2, <2>1
  <1> QED BY <1>3, <1>4 DEF Extends

\* Which places the rungs are.
LEMMA RungsAre ==
  ASSUME IsChain, NEW own
  PROVE  /\ Len(order) \in Nat /\ DOMAIN order = 1..Len(order)
         /\ Len(Rungs(own)) = Len(order) + 5
         /\ Rungs(own)[1] = Defaults /\ Rungs(own)[2] = Base /\ Rungs(own)[3] = own
         /\ \A i \in DOMAIN order :
              Rungs(own)[i + 3] = Supplied(Place("environment", order[Len(order) - i + 1]),
                                           config.environments[order[Len(order) - i + 1]].sets)
         /\ Rungs(own)[Len(order) + 4] = VarFile /\ Rungs(own)[Len(order) + 5] = Vars
  <1> DEFINE L == Len(order)
             middle == Environments(RootFirst)
             S == {Defaults, Base, own, VarFile, Vars} \cup {middle[i] : i \in 1..L}
             low == <<Defaults, Base, own>>
             top == <<VarFile, Vars>>
  <1>1. L \in Nat /\ DOMAIN order = 1..L
    BY DEF IsChain
  <1>2. DOMAIN middle = 1..L
    BY <1>1 DEF Environments, RootFirst
  <1>3. \A i \in 1..L : middle[i] = Supplied(Place("environment", order[L - i + 1]),
                                             config.environments[order[L - i + 1]].sets)
    BY <1>1 DEF Environments, RootFirst
  <1>4. middle = [i \in 1..L |-> middle[i]]
    BY <1>1 DEF Environments, RootFirst
  <1> HIDE DEF middle
  <1>5. middle \in Seq(S) /\ Len(middle) = L
    BY <1>1, <1>2, <1>4
  <1>6. low \in Seq(S) /\ Len(low) = 3 /\ low[1] = Defaults /\ low[2] = Base /\ low[3] = own
    OBVIOUS
  <1>7. top \in Seq(S) /\ Len(top) = 2 /\ top[1] = VarFile /\ top[2] = Vars
    OBVIOUS
  <1> HIDE DEF low, top, S, L
  <1> DEFINE part == low \o middle
  <1>8. /\ part \in Seq(S) /\ Len(part) = L + 3
        /\ part[1] = Defaults /\ part[2] = Base /\ part[3] = own
        /\ \A i \in 1..L : part[i + 3] = middle[i]
    <2>1. /\ part \in Seq(S) /\ Len(part) = 3 + L
          /\ \A i \in 1..3 + L : part[i] = IF i <= 3 THEN low[i] ELSE middle[i - 3]
      <3>1. low \in Seq(S) /\ middle \in Seq(S)
        BY <1>5, <1>6
      <3>2. /\ part \in Seq(S) /\ Len(part) = Len(low) + Len(middle)
            /\ \A i \in 1..Len(low) + Len(middle) :
                 part[i] = IF i <= Len(low) THEN low[i] ELSE middle[i - Len(low)]
        BY <3>1, ConcatProperties
      <3>3. Len(low) = 3 /\ Len(middle) = L
        BY <1>5, <1>6
      <3> HIDE DEF part
      <3> QED BY <3>2, <3>3
    <2> HIDE DEF part
    <2>2. ASSUME NEW i \in 1..L
          PROVE  part[i + 3] = middle[i]
      <3>1. i + 3 \in 1..3 + L /\ ~(i + 3 <= 3) /\ (i + 3) - 3 = i
        BY <1>1
      <3> QED BY <2>1, <3>1
    <2>3. 1 \in 1..3 + L /\ 2 \in 1..3 + L /\ 3 \in 1..3 + L /\ 3 + L = L + 3
      BY <1>1
    <2>4. part[1] = low[1] /\ part[2] = low[2] /\ part[3] = low[3]
      BY <2>1, <2>3
    <2> QED BY <1>6, <2>1, <2>2, <2>3, <2>4
  <1> HIDE DEF part
  <1>9. /\ Len(part \o top) = L + 5
        /\ \A i \in 1..L + 3 : (part \o top)[i] = part[i]
        /\ (part \o top)[L + 4] = VarFile /\ (part \o top)[L + 5] = Vars
    <2> DEFINE all == part \o top
    <2>1. /\ Len(all) = (L + 3) + 2
          /\ \A i \in 1..(L + 3) + 2 : all[i] = IF i <= L + 3 THEN part[i] ELSE top[i - (L + 3)]
      <3>1. part \in Seq(S) /\ top \in Seq(S)
        BY <1>7, <1>8
      <3>2. /\ Len(all) = Len(part) + Len(top)
            /\ \A i \in 1..Len(part) + Len(top) :
                 all[i] = IF i <= Len(part) THEN part[i] ELSE top[i - Len(part)]
        BY <3>1, ConcatProperties
      <3>3. Len(part) = L + 3 /\ Len(top) = 2
        BY <1>7, <1>8
      <3> HIDE DEF all
      <3> QED BY <3>2, <3>3
    <2> HIDE DEF all
    <2>2. ASSUME NEW i \in 1..L + 3
          PROVE  all[i] = part[i]
      BY <1>1, <2>1
    <2>3. /\ L + 4 \in 1..(L + 3) + 2 /\ L + 5 \in 1..(L + 3) + 2 /\ (L + 3) + 2 = L + 5
          /\ ~(L + 4 <= L + 3) /\ ~(L + 5 <= L + 3) /\ (L + 4) - (L + 3) = 1 /\ (L + 5) - (L + 3) = 2
      BY <1>1
    <2>4. all[L + 4] = top[1] /\ all[L + 5] = top[2]
      BY <2>1, <2>3
    <2> QED BY <1>7, <2>1, <2>2, <2>3, <2>4 DEF all
  <1>10. Rungs(own) = part \o top
    BY DEF Rungs, part, low, top, middle
  <1>11. \A i \in 1..L : i + 3 \in 1..L + 3
    BY <1>1
  <1>12. 1 \in 1..L + 3 /\ 2 \in 1..L + 3 /\ 3 \in 1..L + 3
    BY <1>1
  <1> QED BY <1>1, <1>3, <1>8, <1>9, <1>10, <1>11, <1>12 DEF L

-----------------------------------------------------------------------------
\* The rung a supplier stands on.
Stands(s, a, k) ==
  \/ k = 1 /\ a = Place("default", Nobody)
  \/ k = 2 /\ a = Place("base", Nobody)
  \/ k = 3 /\ a = s /\ s # Project
  \/ \E i \in DOMAIN order : k = i + 3 /\ a = Place("environment", order[Len(order) - i + 1])
  \/ k = Len(order) + 4 /\ a = Place("var-file", Nobody)
  \/ k = Len(order) + 5 /\ a = Place("var", Nobody)

LEMMA SuppliedSays ==
  ASSUME NEW place, NEW sets, NEW n \in DOMAIN Supplied(place, sets)
  PROVE  n \in DOMAIN sets /\ Supplied(place, sets)[n].from = place
  BY DEF Supplied

\* A rung that sets a name names its supplier.
LEMMA RungSupplies ==
  ASSUME IsChain, Parsed, NEW s, NEW n, n \notin Reserved, NEW k \in 1..Len(Rungs(Own(s))),
         n \in DOMAIN Rungs(Own(s))[k]
  PROVE  LET from == Rungs(Own(s))[k][n].from
         IN from \in Suppliers(s, n) /\ Stands(s, from, k)
  <1> DEFINE R == Rungs(Own(s))
             from == R[k][n].from
             L == Len(order)
  <1>1. /\ L \in Nat /\ DOMAIN order = 1..L /\ Len(R) = L + 5
        /\ R[1] = Defaults /\ R[2] = Base /\ R[3] = Own(s)
        /\ \A i \in DOMAIN order :
             R[i + 3] = Supplied(Place("environment", order[L - i + 1]), config.environments[order[L - i + 1]].sets)
        /\ R[L + 4] = VarFile /\ R[L + 5] = Vars
    BY RungsAre
  <1> HIDE DEF R, L
  <1>2. CASE k = 1
    <2>0. R[k] = Defaults /\ n \in DOMAIN R[k]
      BY <1>1, <1>2 DEF R
    <2>1. n \in DOMAIN Defaults /\ from = Place("default", Nobody)
      BY <2>0, SuppliedSays DEF Defaults
    <2> QED BY <1>2, <2>1 DEF Suppliers, Stands, R
  <1>3. CASE k = 2
    <2>0. R[k] = Base /\ n \in DOMAIN R[k]
      BY <1>1, <1>3 DEF R
    <2>1. n \in DOMAIN config.base /\ from = Place("base", Nobody)
      BY <2>0, SuppliedSays DEF Base, Drop
    <2> QED BY <1>3, <2>1 DEF Suppliers, Stands, R
  <1>4. CASE k = 3
    <2>1. n \in DOMAIN Own(s) /\ from = Own(s)[n].from
      BY <1>1, <1>4 DEF R
    <2>2. s # Project
      BY <2>1 DEF Own
    <2>3. n \in DOMAIN config.directories[s.name] /\ from = s
      BY <2>1, <2>2 DEF Own, Supplied
    <2> QED BY <1>4, <2>2, <2>3 DEF Suppliers, Stands, R
  <1>5. CASE \E i \in DOMAIN order : k = i + 3
    <2>1. PICK i \in DOMAIN order : k = i + 3
      BY <1>5
    <2> DEFINE e == order[L - i + 1]
    <2>2. L - i + 1 \in DOMAIN order
      BY <1>1, <2>1
    <2>0. R[k] = Supplied(Place("environment", e), config.environments[e].sets) /\ n \in DOMAIN R[k]
      BY <1>1, <2>1 DEF R
    <2>3. n \in DOMAIN config.environments[e].sets /\ from = Place("environment", e)
      BY <2>0, SuppliedSays
    <2>4. Place("environment", e) \in Suppliers(s, n)
      BY <2>2, <2>3 DEF Suppliers, Ancestors
    <2>5. Stands(s, from, k)
      BY <2>1, <2>3 DEF Stands, L
    <2> QED BY <2>3, <2>4, <2>5 DEF R
  <1>6. CASE k = L + 4
    <2>0. R[k] = VarFile /\ n \in DOMAIN R[k]
      BY <1>1, <1>6 DEF R
    <2>1. n \in DOMAIN config.varFile /\ from = Place("var-file", Nobody)
      BY <2>0, SuppliedSays DEF VarFile, Drop
    <2> QED BY <1>6, <2>1 DEF Suppliers, Stands, R, L
  <1>7. CASE k = L + 5
    <2>1. n \in DOMAIN Vars /\ from = Vars[n].from
      BY <1>1, <1>7 DEF R
    <2>2. n \in DOMAIN config.vars
      BY <2>1 DEF Vars
    <2>3. ~(n \in DOMAIN config.declared /\ ~config.vars[n])
      BY <2>2 DEF Parsed
    <2>4. from = Place("var", Nobody)
      BY <2>1, <2>2, <2>3 DEF Vars
    <2> QED BY <1>7, <2>2, <2>4 DEF Suppliers, Stands, R, L
  <1>8. k = 1 \/ k = 2 \/ k = 3 \/ k = L + 4 \/ k = L + 5 \/ \E i \in DOMAIN order : k = i + 3
    <2>1. k \in 1..L + 5
      BY <1>1 DEF R
    <2>2. CASE k > 3 /\ k <= L + 3
      <3>1. k - 3 \in DOMAIN order /\ k = (k - 3) + 3
        BY <1>1, <2>1, <2>2
      <3> QED BY <3>1
    <2>3. CASE k <= 3 \/ k > L + 3
      BY <1>1, <2>1, <2>3
    <2> QED BY <1>1, <2>1, <2>2, <2>3
  <1> QED BY <1>2, <1>3, <1>4, <1>5, <1>6, <1>7, <1>8

\* A supplier sets the name on its rung, but for the project's value where the
\* command line's file names it too.
LEMMA SupplierStands ==
  ASSUME IsChain, NEW s, NEW n, n \notin Reserved, NEW a \in Suppliers(s, n)
  PROVE  \E k \in 1..Len(Rungs(Own(s))) :
           /\ n \in DOMAIN Rungs(Own(s))[k]
           /\ Stands(s, a, k) \/ (a = Place("base", Nobody) /\ k = Len(order) + 4)
  <1> DEFINE R == Rungs(Own(s))
             L == Len(order)
  <1>1. /\ L \in Nat /\ DOMAIN order = 1..L /\ Len(R) = L + 5
        /\ R[1] = Defaults /\ R[2] = Base /\ R[3] = Own(s)
        /\ \A i \in DOMAIN order :
             R[i + 3] = Supplied(Place("environment", order[L - i + 1]), config.environments[order[L - i + 1]].sets)
        /\ R[L + 4] = VarFile /\ R[L + 5] = Vars
    BY RungsAre
  <1> HIDE DEF R, L
  <1>2. 1 \in 1..Len(R) /\ 2 \in 1..Len(R) /\ 3 \in 1..Len(R) /\ L + 4 \in 1..Len(R) /\ L + 5 \in 1..Len(R)
    BY <1>1
  <1>3. n \in DOMAIN config.varFile => n \in DOMAIN R[L + 4]
    BY <1>1 DEF VarFile, Supplied, Drop
  <1>4. CASE n \in DOMAIN Defaults /\ a = Place("default", Nobody)
    BY <1>1, <1>2, <1>4 DEF Stands, R
  <1>5. CASE n \in DOMAIN config.base /\ a = Place("base", Nobody)
    <2>1. CASE n \in DOMAIN config.varFile
      BY <1>2, <1>3, <1>5, <2>1 DEF R, L
    <2>2. CASE n \notin DOMAIN config.varFile
      <3>1. n \in DOMAIN R[2]
        BY <1>1, <1>5, <2>2 DEF Base, Supplied, Drop
      <3> QED BY <1>2, <1>5, <3>1 DEF Stands, R
    <2> QED BY <2>1, <2>2
  <1>6. CASE s # Project /\ n \in DOMAIN config.directories[s.name] /\ a = s
    <2>1. n \in DOMAIN R[3]
      BY <1>1, <1>6 DEF Own, Supplied
    <2> QED BY <1>2, <1>6, <2>1 DEF Stands, R
  <1>7. ASSUME NEW e \in Ancestors, n \in DOMAIN config.environments[e].sets, a = Place("environment", e)
        PROVE  \E k \in 1..Len(R) : n \in DOMAIN R[k] /\ Stands(s, a, k)
    <2>1. PICK j \in DOMAIN order : e = order[j]
      BY DEF Ancestors
    <2> DEFINE i == L - j + 1
    <2>2. i \in DOMAIN order /\ L - i + 1 = j /\ i + 3 \in 1..Len(R)
      BY <1>1, <2>1
    <2> HIDE DEF i
    <2>3. n \in DOMAIN R[i + 3]
      BY <1>1, <1>7, <2>1, <2>2 DEF Supplied
    <2>4. Stands(s, a, i + 3)
      BY <1>7, <2>1, <2>2 DEF Stands, L
    <2> QED BY <2>2, <2>3, <2>4
  <1>8. CASE n \in DOMAIN config.varFile /\ a = Place("var-file", Nobody)
    BY <1>2, <1>3, <1>8 DEF Stands, R, L
  <1>9. CASE n \in DOMAIN config.vars /\ a = Place("var", Nobody)
    <2>1. n \in DOMAIN R[L + 5]
      BY <1>1, <1>9 DEF Vars
    <2> QED BY <1>2, <1>9, <2>1 DEF Stands, R, L
  <1>10. \/ n \in DOMAIN Defaults /\ a = Place("default", Nobody)
         \/ n \in DOMAIN config.base /\ a = Place("base", Nobody)
         \/ s # Project /\ n \in DOMAIN config.directories[s.name] /\ a = s
         \/ \E e \in Ancestors : n \in DOMAIN config.environments[e].sets /\ a = Place("environment", e)
         \/ n \in DOMAIN config.varFile /\ a = Place("var-file", Nobody)
         \/ n \in DOMAIN config.vars /\ a = Place("var", Nobody)
    BY DEF Suppliers
  <1> QED BY <1>4, <1>5, <1>6, <1>7, <1>8, <1>9, <1>10 DEF R

\* Of two suppliers the one on the higher rung is the more specific.
LEMMA HigherBeats ==
  ASSUME IsChain, NEW s, s = Project \/ \E dir : s = Place("directory", dir),
         NEW a, NEW b, NEW j \in Nat, NEW k \in Nat, Stands(s, a, k), a # b, j <= k,
         Stands(s, b, j) \/ (b = Place("base", Nobody) /\ j = Len(order) + 4)
  PROVE  Beats(a, b)
  <1> DEFINE L == Len(order)
  <1>1. L \in Nat /\ DOMAIN order = 1..L
    BY DEF IsChain
  <1>2. s # Project => s.kind = "directory"
    BY DEF Place
  <1>3. \/ k = 1 /\ a.kind = "default"
        \/ k = 2 /\ a.kind = "base"
        \/ k = 3 /\ a.kind = "directory"
        \/ k > 3 /\ k < L + 4 /\ a.kind = "environment"
        \/ k = L + 4 /\ a.kind = "var-file"
        \/ k = L + 5 /\ a.kind = "var"
    BY <1>1, <1>2 DEF Stands, Place
  <1>4. \/ j = 1 /\ b.kind = "default"
        \/ j = 2 /\ b.kind = "base"
        \/ j = 3 /\ b.kind = "directory"
        \/ j > 3 /\ j < L + 4 /\ b.kind = "environment"
        \/ j = L + 4 /\ b.kind = "var-file"
        \/ j = L + 5 /\ b.kind = "var"
        \/ j = L + 4 /\ b.kind = "base"
    BY <1>1, <1>2 DEF Stands, Place
  <1>5. CASE a.kind = "environment" /\ b.kind = "environment"
    <2>1. PICK i \in DOMAIN order : k = i + 3 /\ a = Place("environment", order[L - i + 1])
      BY <1>1, <1>3, <1>5 DEF Stands, Place
    <2>2. PICK h \in DOMAIN order : j = h + 3 /\ b = Place("environment", order[L - h + 1])
      BY <1>1, <1>2, <1>4, <1>5 DEF Stands, Place
    <2>3. h # i /\ h <= i
      BY <1>1, <2>1, <2>2
    <2>4. L - i + 1 \in DOMAIN order /\ L - h + 1 \in DOMAIN order /\ L - i + 1 < L - h + 1
      BY <1>1, <2>3
    <2>5. Extends(order[L - i + 1], order[L - h + 1])
      BY <2>4, ChainExtends
    <2> QED BY <2>1, <2>2, <2>5 DEF Beats, Place
  <1>6. CASE ~(a.kind = "environment" /\ b.kind = "environment")
    <2>1. a.kind # b.kind
      <3> SUFFICES ASSUME a.kind = b.kind PROVE a = b
        OBVIOUS
      <3>1. CASE a.kind = "directory"
        BY <1>1, <1>3, <1>4, <3>1 DEF Stands, Place
      <3>2. CASE a.kind # "directory"
        BY <1>1, <1>2, <1>3, <1>4, <1>6, <3>2 DEF Stands, Place
      <3> QED BY <3>1, <3>2
    <2>2. Rank(a.kind) > Rank(b.kind)
      BY <1>1, <1>3, <1>4, <2>1 DEF Rank
    <2> QED BY <2>2 DEF Beats
  <1> QED BY <1>5, <1>6

\* A scope's value of a name is its most specific supplier's.
LEMMA ValueIsMostSpecific ==
  ASSUME IsChain, Parsed, NEW s, s = Project \/ \E dir : s = Place("directory", dir),
         NEW n \in DOMAIN Resolved(s)
  PROVE  LET from == Resolved(s)[n].from
         IN IF n \in Reserved THEN from = Place("run", Nobody)
            ELSE IF Suppliers(s, n) = {} THEN from = Nobody
            ELSE from \in Suppliers(s, n) /\ \A a \in Suppliers(s, n) \ {from} : Beats(from, a)
  <1> DEFINE R == Rungs(Own(s))
             won == Climbed(Own(s))
             from == Resolved(s)[n].from
  <1>1. Len(R) \in Nat /\ Len(R) = Len(order) + 5
    <2>1. Len(order) \in Nat /\ Len(R) = Len(order) + 5
      BY RungsAre
    <2> QED BY <2>1
  <1>2. Highest(R, Ladder(R), Len(R))
    <2>1. Len(R) \in 0..Len(R)
      BY <1>1
    <2> HIDE DEF R
    <2> QED BY <1>1, <2>1, HighestWins
  <1>3. won = Ladder(R)[Len(R)]
    BY DEF Climbed
  <1> HIDE DEF R, won
  <1>4. CASE n \in Reserved
    BY <1>4 DEF Resolved, Seed, Over
  <1>5. CASE n \notin Reserved
    <2>1. Resolved(s)[n] = IF n \in DOMAIN won THEN won[n] ELSE Unset
      <3>1. Resolved(s) = Seed(Judged(won))
        BY DEF Resolved, won
      <3>2. n \in DOMAIN Judged(won) /\ Resolved(s)[n] = Judged(won)[n]
        BY <1>5, <3>1 DEF Seed, Over
      <3> QED BY <3>2 DEF Judged, Over
    <2>2. CASE Suppliers(s, n) = {}
      <3>1. n \notin DOMAIN won
        <4> SUFFICES ASSUME n \in DOMAIN won PROVE FALSE
          OBVIOUS
        <4>1. PICK k \in 1..Len(R) : n \in DOMAIN R[k]
          BY <1>2, <1>3 DEF Highest
        <4>2. R[k][n].from \in Suppliers(s, n)
          BY <1>5, <4>1, RungSupplies DEF R
        <4> QED BY <2>2, <4>2
      <3> QED BY <1>5, <2>1, <2>2, <3>1 DEF Unset
    <2>3. CASE Suppliers(s, n) # {}
      <3>1. PICK a0 : a0 \in Suppliers(s, n)
        BY <2>3
      <3>2. \E k \in 1..Len(R) : n \in DOMAIN R[k]
        BY <1>5, <3>1, SupplierStands DEF R
      <3>3. n \in DOMAIN won
        BY <1>2, <1>3, <3>2 DEF Highest
      <3>4. PICK k \in 1..Len(R) : /\ n \in DOMAIN R[k] /\ won[n] = R[k][n]
                                   /\ \A j \in 1..Len(R) : n \in DOMAIN R[j] => j <= k
        BY <1>2, <1>3, <3>3 DEF Highest
      <3>5. from = R[k][n].from
        BY <2>1, <3>3, <3>4
      <3>6. from \in Suppliers(s, n) /\ Stands(s, from, k)
        <4>1. R[k][n].from \in Suppliers(s, n) /\ Stands(s, R[k][n].from, k)
          BY <1>5, <3>4, RungSupplies DEF R
        <4> QED BY <3>5, <4>1
      <3> HIDE DEF from
      <3>7. ASSUME NEW a \in Suppliers(s, n), a # from
            PROVE  Beats(from, a)
        <4>1. PICK j \in 1..Len(R) :
                 /\ n \in DOMAIN R[j]
                 /\ Stands(s, a, j) \/ (a = Place("base", Nobody) /\ j = Len(order) + 4)
          BY <1>5, SupplierStands DEF R
        <4>2. j <= k /\ j \in Nat /\ k \in Nat
          BY <1>1, <3>4, <4>1
        <4> QED BY <3>6, <3>7, <4>1, <4>2, HigherBeats
      <3> QED BY <1>5, <2>3, <3>6, <3>7 DEF from
    <2> QED BY <2>2, <2>3
  <1> QED BY <1>4, <1>5

\* A protection is what the nearest environment that mentions it says.
LEMMA NearestSpeaks ==
  ASSUME IsChain, NEW p
  PROVE  LET speakers == {e \in Ancestors : p \in DOMAIN config.environments[e].guards}
             g == Guard(order, p)
         IN IF speakers = {} THEN g.from = Nobody /\ ~g.on
            ELSE /\ g.from \in speakers
                 /\ \A e \in speakers \ {g.from} : Extends(g.from, e)
                 /\ g.on = config.environments[g.from].guards[p]
  <1> DEFINE speakers == {e \in Ancestors : p \in DOMAIN config.environments[e].guards}
             says == {i \in DOMAIN order : p \in DOMAIN config.environments[order[i]].guards}
             first == CHOOSE i \in says : \A j \in says : i <= j
             g == Guard(order, p)
  <1>1. DOMAIN order \subseteq Nat
    BY DEF IsChain
  <1>2. CASE says = {}
    <2>1. speakers = {}
      BY <1>2 DEF Ancestors
    <2>2. g.from = Nobody /\ g.on = FALSE
      BY <1>2 DEF Guard
    <2> QED BY <2>1, <2>2
  <1>3. CASE says # {}
    <2>1. \E i \in says : \A j \in says : i <= j
      <3>1. says \in SUBSET Nat
        BY <1>1
      <3> HIDE DEF says
      <3> QED BY <1>3, <3>1, LeastNat
    <2>2. first \in says /\ \A j \in says : first <= j
      <3> HIDE DEF says
      <3> QED BY <2>1
    <2>3. g = [on |-> config.environments[order[first]].guards[p], from |-> order[first]]
      BY <1>3 DEF Guard
    <2> HIDE DEF first, g
    <2>4. g.from = order[first] /\ g.on = config.environments[order[first]].guards[p]
      BY <2>3
    <2>5. order[first] \in speakers
      BY <2>2 DEF Ancestors
    <2>6. ASSUME NEW e \in speakers, e # order[first]
          PROVE  Extends(order[first], e)
      <3>1. PICK j \in says : e = order[j]
        BY DEF Ancestors
      <3>2. first < j /\ first \in DOMAIN order /\ j \in DOMAIN order
        BY <1>1, <2>2, <2>6, <3>1
      <3> QED BY <3>1, <3>2, ChainExtends
    <2> QED BY <2>4, <2>5, <2>6 DEF g
  <1> QED BY <1>2, <1>3

LEMMA ScopesInvImplies == ScopesInv => MostSpecificWins
  <1> SUFFICES ASSUME ScopesInv, progress = "done" PROVE MostSpecificWins
    BY DEF MostSpecificWins
  <1>1. IsChain /\ Settled /\ \A p \in Protections : guards[p] = Guard(order, p)
    BY DEF ScopesInv, GuardsInv
  <1>2. ASSUME NEW s \in DOMAIN scopes, NEW n \in DOMAIN scopes[s]
        PROVE  LET from == scopes[s][n].from
               IN IF n \in Reserved THEN from = Place("run", Nobody)
                  ELSE IF Suppliers(s, n) = {} THEN from = Nobody
                  ELSE from \in Suppliers(s, n) /\ \A a \in Suppliers(s, n) \ {from} : Beats(from, a)
    <2>1. Parsed /\ (s = Project \/ \E dir : s = Place("directory", dir)) /\ scopes[s] = Resolved(s)
      BY <1>1 DEF Settled
    <2>2. n \in DOMAIN Resolved(s)
      BY <2>1
    <2> QED BY <1>1, <2>1, <2>2, ValueIsMostSpecific
  <1>3. ASSUME NEW p \in Protections
        PROVE  LET speakers == {e \in Ancestors : p \in DOMAIN config.environments[e].guards}
               IN IF speakers = {} THEN guards[p].from = Nobody /\ ~guards[p].on
                  ELSE /\ guards[p].from \in speakers
                       /\ \A e \in speakers \ {guards[p].from} : Extends(guards[p].from, e)
                       /\ guards[p].on = config.environments[guards[p].from].guards[p]
    <2>1. guards[p] = Guard(order, p)
      BY <1>1
    <2> QED BY <1>1, <2>1, NearestSpeaks
  <1> QED BY <1>2, <1>3 DEF MostSpecificWins

\* The inductive invariant.
THEOREM ScopesInvariant == ScopesSpec => []ScopesInv
  <1> QED BY ScopesInitInv, ScopesStep, PTL DEF ScopesSpec

\* In every scope a variable is what its most specific supplier says, and each
\* protection is what the nearest environment that mentions it says, for every
\* configuration: any number of environments however they extend each other,
\* of directories and of variables (src/internal/variables/resolve.go, src/internal/environments/resolve.go).
THEOREM MostSpecificWinsAlways == ScopesSpec => []MostSpecificWins
  <1> QED BY ScopesInvariant, ScopesInvImplies, PTL

-----------------------------------------------------------------------------
(* Provider instances: where a command is *)

(***************************************************************************)
(* What is left of a running command is an end of its list of steps.       *)
(***************************************************************************)
AtRead == {<<"read", "operate">>, <<"operate">>}
Paced ==
  outcome = "running" =>
    \/ /\ command = "apply"
       /\ steps \in AtRead \cup
            {<<"ensure", "prepare", "late", "bind", "read", "operate">>,
             <<"prepare", "late", "bind", "read", "operate">>,
             <<"late", "bind", "read", "operate">>, <<"bind", "read", "operate">>}
    \/ /\ command = "teardown"
       /\ steps \in AtRead \cup
            {<<"ensure", "instances", "read", "operate">>, <<"instances", "read", "operate">>}
    \/ /\ command = "destroy"
       /\ steps \in AtRead \cup
            {<<"instances", "ensure", "read", "operate">>, <<"ensure", "read", "operate">>}
    \/ /\ command = "refresh"
       /\ steps \in {<<"instances", "ensure", "read">>, <<"ensure", "read">>, <<"read">>}

\* The step a command takes after another.
After(c, step) ==
  CASE step = "ensure" -> (CASE c = "apply" -> "prepare" [] c = "teardown" -> "instances" [] OTHER -> "read")
    [] step = "instances" -> (IF c = "teardown" THEN "read" ELSE "ensure")
    [] step = "prepare" -> "late"
    [] step = "late" -> "bind"
    [] step = "bind" -> "read"
    [] step = "read" -> "operate"
    [] OTHER -> "none"

\* Which command may be at a step.
Takes(c, step) ==
  /\ step \in {"prepare", "late", "bind"} => c = "apply"
  /\ step = "instances" => c \in {"teardown", "destroy", "refresh"}
  /\ step = "operate" => c \in {"apply", "teardown", "destroy"}
  /\ step \in {"ensure", "read"} => c \in {"apply", "teardown", "destroy", "refresh"}

\* A command goes on to the step after the one it was at, or is done.
LEMMA PacedStep ==
  ASSUME Paced, NEW step, At(step), Proceed
  PROVE  /\ Paced' /\ Takes(command, step)
         /\ outcome' = "running" => Head(steps') = After(command, step) /\ step # "operate"
         /\ outcome' \in {"running", "done"}
         /\ step = "operate" => outcome' = "done"
  <1>1. outcome = "running" /\ step = Head(steps) /\ steps' = Tail(steps) /\ command' = command
        /\ outcome' = IF Len(steps) = 1 THEN "done" ELSE "running"
    BY DEF At, Proceed
  <1>2. CASE command = "apply" /\ steps = <<"ensure", "prepare", "late", "bind", "read", "operate">>
    <2>1. step = "ensure" /\ steps' = <<"prepare", "late", "bind", "read", "operate">> /\ Len(steps) = 6
      BY <1>1, <1>2
    <2> QED BY <1>1, <1>2, <2>1 DEF Paced, After, Takes
  <1>3. CASE command = "apply" /\ steps = <<"prepare", "late", "bind", "read", "operate">>
    <2>1. step = "prepare" /\ steps' = <<"late", "bind", "read", "operate">> /\ Len(steps) = 5
      BY <1>1, <1>3
    <2> QED BY <1>1, <1>3, <2>1 DEF Paced, After, Takes
  <1>4. CASE command = "apply" /\ steps = <<"late", "bind", "read", "operate">>
    <2>1. step = "late" /\ steps' = <<"bind", "read", "operate">> /\ Len(steps) = 4
      BY <1>1, <1>4
    <2> QED BY <1>1, <1>4, <2>1 DEF Paced, After, Takes
  <1>5. CASE command = "apply" /\ steps = <<"bind", "read", "operate">>
    <2>1. step = "bind" /\ steps' = <<"read", "operate">> /\ Len(steps) = 3
      BY <1>1, <1>5
    <2> QED BY <1>1, <1>5, <2>1 DEF Paced, AtRead, After, Takes
  <1>6. CASE command = "teardown" /\ steps = <<"ensure", "instances", "read", "operate">>
    <2>1. step = "ensure" /\ steps' = <<"instances", "read", "operate">> /\ Len(steps) = 4
      BY <1>1, <1>6
    <2> QED BY <1>1, <1>6, <2>1 DEF Paced, After, Takes
  <1>7. CASE command = "teardown" /\ steps = <<"instances", "read", "operate">>
    <2>1. step = "instances" /\ steps' = <<"read", "operate">> /\ Len(steps) = 3
      BY <1>1, <1>7
    <2> QED BY <1>1, <1>7, <2>1 DEF Paced, AtRead, After, Takes
  <1>8. CASE command = "destroy" /\ steps = <<"instances", "ensure", "read", "operate">>
    <2>1. step = "instances" /\ steps' = <<"ensure", "read", "operate">> /\ Len(steps) = 4
      BY <1>1, <1>8
    <2> QED BY <1>1, <1>8, <2>1 DEF Paced, After, Takes
  <1>9. CASE command = "destroy" /\ steps = <<"ensure", "read", "operate">>
    <2>1. step = "ensure" /\ steps' = <<"read", "operate">> /\ Len(steps) = 3
      BY <1>1, <1>9
    <2> QED BY <1>1, <1>9, <2>1 DEF Paced, AtRead, After, Takes
  <1>10. CASE command = "refresh" /\ steps = <<"instances", "ensure", "read">>
    <2>1. step = "instances" /\ steps' = <<"ensure", "read">> /\ Len(steps) = 3
      BY <1>1, <1>10
    <2> QED BY <1>1, <1>10, <2>1 DEF Paced, After, Takes
  <1>11. CASE command = "refresh" /\ steps = <<"ensure", "read">>
    <2>1. step = "ensure" /\ steps' = <<"read">> /\ Len(steps) = 2
      BY <1>1, <1>11
    <2> QED BY <1>1, <1>11, <2>1 DEF Paced, After, Takes
  <1>12. CASE command = "refresh" /\ steps = <<"read">>
    <2>1. step = "read" /\ Len(steps) = 1
      BY <1>1, <1>12
    <2> QED BY <1>1, <1>12, <2>1 DEF Paced, After, Takes
  <1>13. CASE command \in {"apply", "teardown", "destroy"} /\ steps = <<"read", "operate">>
    <2>1. step = "read" /\ steps' = <<"operate">> /\ Len(steps) = 2
      BY <1>1, <1>13
    <2> QED BY <1>1, <1>13, <2>1 DEF Paced, AtRead, After, Takes
  <1>14. CASE command \in {"apply", "teardown", "destroy"} /\ steps = <<"operate">>
    <2>1. step = "operate" /\ Len(steps) = 1
      BY <1>1, <1>14
    <2> QED BY <1>1, <1>14, <2>1 DEF Paced, After, Takes
  <1>15. \/ command = "apply" /\ steps = <<"ensure", "prepare", "late", "bind", "read", "operate">>
         \/ command = "apply" /\ steps = <<"prepare", "late", "bind", "read", "operate">>
         \/ command = "apply" /\ steps = <<"late", "bind", "read", "operate">>
         \/ command = "apply" /\ steps = <<"bind", "read", "operate">>
         \/ command = "teardown" /\ steps = <<"ensure", "instances", "read", "operate">>
         \/ command = "teardown" /\ steps = <<"instances", "read", "operate">>
         \/ command = "destroy" /\ steps = <<"instances", "ensure", "read", "operate">>
         \/ command = "destroy" /\ steps = <<"ensure", "read", "operate">>
         \/ command = "refresh" /\ steps = <<"instances", "ensure", "read">>
         \/ command = "refresh" /\ steps = <<"ensure", "read">>
         \/ command = "refresh" /\ steps = <<"read">>
         \/ command \in {"apply", "teardown", "destroy"} /\ steps = <<"read", "operate">>
         \/ command \in {"apply", "teardown", "destroy"} /\ steps = <<"operate">>
    BY <1>1 DEF Paced, AtRead
  <1> QED BY <1>2, <1>3, <1>4, <1>5, <1>6, <1>7, <1>8, <1>9, <1>10, <1>11, <1>12, <1>13, <1>14, <1>15

-----------------------------------------------------------------------------
(* What the files resolve to *)

\* An instance of the project is what an entry says.
Says(instance, i, environment) ==
  /\ instance.plugin = setup.entries[i].plugin
  /\ instance.config = ResolveOne(setup.entries[i].config, environment)
  /\ instance.default <=> IsDefault(setup.entries, i)

\* The entry an instance's name stands for.
LEMMA ResolvedFrom ==
  ASSUME NEW environment, NEW n \in DOMAIN Resolve(environment)
  PROVE  \E i \in DOMAIN setup.entries :
           /\ NameOf(setup.entries[i]) = n
           /\ Says(Resolve(environment)[n], i, environment)
  <1> DEFINE i == CHOOSE i \in DOMAIN setup.entries : NameOf(setup.entries[i]) = n
  <1>1. \E j \in DOMAIN setup.entries : NameOf(setup.entries[j]) = n
    BY DEF Resolve
  <1>2. i \in DOMAIN setup.entries /\ NameOf(setup.entries[i]) = n
    BY <1>1
  <1>3. Says(Resolve(environment)[n], i, environment)
    BY DEF Resolve, Says
  <1> QED BY <1>2, <1>3

\* Where names are not given twice, each entry is what its name stands for.
LEMMA ResolvedTo ==
  ASSUME NEW environment, WellNamed(setup.entries), NEW i \in DOMAIN setup.entries
  PROVE  LET n == NameOf(setup.entries[i])
         IN /\ n \in DOMAIN Resolve(environment)
            /\ Says(Resolve(environment)[n], i, environment)
  <1> DEFINE n == NameOf(setup.entries[i])
  <1>1. n \in DOMAIN Resolve(environment)
    BY DEF Resolve
  <1>2. PICK j \in DOMAIN setup.entries :
           /\ NameOf(setup.entries[j]) = n
           /\ Says(Resolve(environment)[n], j, environment)
    BY <1>1, ResolvedFrom
  <1>3. i = j
    BY <1>2 DEF WellNamed
  <1> QED BY <1>1, <1>2, <1>3

\* An instance of the project: of a plugin the project needs, with nothing left
\* unsettled where there is an environment; one of them is the default.
LEMMA ResolvedIsKnown ==
  ASSUME setup \in Setups, NEW n \in DOMAIN Resolve(TRUE)
  PROVE  Resolve(TRUE)[n].plugin \in NeededPlugins /\ Resolve(TRUE)[n].config # Unsettled
  <1>1. PICK i \in DOMAIN setup.entries :
           Says(Resolve(TRUE)[n], i, TRUE)
    BY ResolvedFrom
  <1>2. Resolve(TRUE)[n].plugin = setup.entries[i].plugin /\ Resolve(TRUE)[n].config = setup.entries[i].config
    BY <1>1 DEF ResolveOne, Says
  <1> QED BY <1>2, SetupsAssumption DEF NeededPlugins, SetupsAssumption

LEMMA DefaultIsDeclared ==
  ASSUME setup \in Setups, WellNamed(setup.entries), Declares
  PROVE  \E n \in DOMAIN Resolve(TRUE) : Resolve(TRUE)[n].default
  <1>1. 1 \in DOMAIN setup.entries
    BY SetupsAssumption, EmptySeq DEF SetupsAssumption, Declares
  <1>2. PICK i \in DOMAIN setup.entries : IsDefault(setup.entries, i)
    BY <1>1 DEF IsDefault
  <1>3. NameOf(setup.entries[i]) \in DOMAIN Resolve(TRUE) /\ Resolve(TRUE)[NameOf(setup.entries[i])].default
    BY <1>2, ResolvedTo DEF Says
  <1> QED BY <1>3

LEMMA NoneDeclared ==
  ASSUME ~Declares
  PROVE  /\ \A environment : DOMAIN Resolve(environment) = {}
         /\ WellNamed(setup.entries) /\ ~RefersToResource
  <1>1. DOMAIN setup.entries = {}
    BY DEF Declares
  <1> QED BY <1>1 DEF Resolve, WellNamed, RefersToResource

LEMMA SomeDeclared ==
  ASSUME setup \in Setups, Declares
  PROVE  \E n : n \in DOMAIN Resolve(TRUE)
  <1>1. 1 \in DOMAIN setup.entries
    BY SetupsAssumption, EmptySeq DEF SetupsAssumption, Declares
  <1> QED BY <1>1 DEF Resolve

\* A teardown that meets nothing an environment would have had to settle
\* resolves the entries as an apply did.
LEMMA SettledWithout ==
  ASSUME \A n \in DOMAIN Resolve(FALSE) : Resolve(FALSE)[n].config # Unsettled
  PROVE  Resolve(FALSE) = Resolve(TRUE)
  <1>1. DOMAIN Resolve(FALSE) = DOMAIN Resolve(TRUE)
    BY DEF Resolve
  <1>2. ASSUME NEW n \in DOMAIN Resolve(FALSE)
        PROVE  Resolve(FALSE)[n] = Resolve(TRUE)[n]
    <2> DEFINE i == CHOOSE i \in DOMAIN setup.entries : NameOf(setup.entries[i]) = n
               e == setup.entries[i]
               r(b) == [plugin |-> e.plugin, config |-> ResolveOne(e.config, b),
                        default |-> IsDefault(setup.entries, i)]
    <2>1. n \in {NameOf(setup.entries[j]) : j \in DOMAIN setup.entries}
      BY <1>2 DEF Resolve
    <2>2. Resolve(FALSE)[n] = r(FALSE) /\ Resolve(TRUE)[n] = r(TRUE)
      BY <2>1 DEF Resolve
    <2>3. Resolve(FALSE)[n].config = ResolveOne(e.config, FALSE)
      BY <2>1 DEF Resolve
    <2>4. ResolveOne(e.config, FALSE) = ResolveOne(e.config, TRUE)
      BY <1>2, <2>3 DEF ResolveOne
    <2>5. r(FALSE) = r(TRUE)
      BY <2>4
    <2> QED BY <2>2, <2>5
  <1> DEFINE r(b) == Resolve(b)
  <1>3. r(FALSE) = [n \in DOMAIN r(FALSE) |-> r(FALSE)[n]] /\ r(TRUE) = [n \in DOMAIN r(TRUE) |-> r(TRUE)[n]]
    BY DEF Resolve
  <1> QED BY <1>1, <1>2, <1>3

-----------------------------------------------------------------------------
(***************************************************************************)
(* The inductive invariant.  What a record says is what the entries say;   *)
(* what is built is what the entries say, so a call meets its record; and  *)
(* the table follows the plugins, so what is bound is built.               *)
(***************************************************************************)
RecordsInv ==
  /\ records # {} => WellNamed(setup.entries) /\ ~RefersToResource
  /\ \A r \in records :
       IF Declares
       THEN /\ r.instance \in DOMAIN Resolve(TRUE)
            /\ Resolve(TRUE)[r.instance].plugin = r.of.plugin
            /\ r.account = Resolve(TRUE)[r.instance].config
       ELSE r.account = Anywhere

\* The steps at which the command has not yet read the entries.
Unread ==
  \/ Head(steps) \in {"prepare", "instances"}
  \/ Head(steps) = "ensure" /\ command \in {"apply", "teardown"}
\* Every instance the project declares is built, and none else.
AllBuilt ==
  /\ DOMAIN built = DOMAIN Resolve(TRUE)
  /\ \A n \in DOMAIN Resolve(TRUE) :
       built[n].plugin = Resolve(TRUE)[n].plugin /\ built[n].account = Resolve(TRUE)[n].config
BuiltInv ==
  /\ outcome = "running" /\ Decodes /\ Declares => IF Unread THEN DOMAIN built = {} ELSE AllBuilt
  /\ outcome = "running" /\ command = "teardown" => Decodes
  /\ outcome = "running" /\ command = "apply" /\ ~Unread => Decodes /\ ~RefersToResource

\* Of a project that declares none, an instance is a plugin's.
OnlyImplicit ==
  ~Declares =>
    /\ \A n \in DOMAIN built : built[n].plugin = n /\ built[n].account = Anywhere
    /\ \A n \in DOMAIN table : /\ n \in DOMAIN built
                               /\ table[n].plugin = n /\ table[n].config = Anywhere /\ table[n].default

Used == NeededPlugins \cup {r.plugin : r \in files.resources} \cup {r.of.plugin : r \in records}
Follows == Single(plugins) => table = Implicit(plugins)
Bound ==
  \A r \in files.resources : NamedBy(r) \in {Unnamed} \cup DOMAIN table /\ r.plugin \in plugins
TableInv ==
  /\ outcome = "running" => plugins \subseteq Used
  /\ outcome = "running" /\ command = "apply" /\ ~Unread =>
       /\ Declares => table = Resolve(TRUE)
       /\ ~Declares /\ Head(steps) = "late" => table = Implicit(plugins)
       /\ ~Declares => Follows
       /\ Head(steps) \in {"read", "operate"} => Bound

CallsInv == Decodes => SameAccount
RefusalInv ==
  outcome = "refused" /\ Decodes /\ command \in {"destroy", "refresh"} /\ records # {} /\ Declares
    => ~Loadable(NeededPlugins)
StrandedInv ==
  /\ outcome = "running" \/ command # "apply" => stranded = {}
  /\ AcceptedIsServed

InstInv ==
  /\ setup \in Setups /\ Paced
  /\ RecordsInv /\ BuiltInv /\ OnlyImplicit /\ TableInv
  /\ CallsInv /\ RefusalInv /\ StrandedInv

-----------------------------------------------------------------------------
(* What a step leaves alone *)

LEMMA SameProject ==
  ASSUME setup' = setup
  PROVE  /\ Declares' <=> Declares
         /\ RefersToResource' <=> RefersToResource
         /\ WellNamed(setup.entries)' <=> WellNamed(setup.entries)
         /\ Resolve(TRUE)' = Resolve(TRUE)
  <1>1. Declares' <=> Declares
    BY DEF Declares
  <1>2. RefersToResource' <=> RefersToResource
    BY DEF RefersToResource
  <1>3. WellNamed(setup.entries)' <=> WellNamed(setup.entries)
    BY DEF WellNamed, NameOf
  <1>4. Resolve(TRUE)' = Resolve(TRUE)
    BY DEF Resolve, NameOf, ResolveOne, IsDefault
  <1> QED BY <1>1, <1>2, <1>3, <1>4

LEMMA SameFiles ==
  ASSUME setup' = setup, files' = files
  PROVE  /\ Decodes' <=> Decodes
         /\ NeededPlugins' = NeededPlugins
  <1>1. Decodes' <=> Decodes
    BY SameProject DEF Decodes
  <1>2. NeededPlugins' = NeededPlugins
    BY DEF NeededPlugins
  <1> QED BY <1>1, <1>2

\* A command that is refused leaves everything but what it was.
LEMMA RefuseKeeps ==
  ASSUME InstInv, outcome = "running", Refuse,
         Decodes /\ command \in {"destroy", "refresh"} /\ records # {} /\ Declares => ~Loadable(NeededPlugins)
  PROVE  InstInv'
  <1>1. /\ outcome' = "refused"
        /\ UNCHANGED <<setup, records, command, files, plugins, built, table, calls, stranded>>
    BY DEF Refuse
  <1>2. /\ Declares' <=> Declares
        /\ RefersToResource' <=> RefersToResource
        /\ WellNamed(setup.entries)' <=> WellNamed(setup.entries)
        /\ Resolve(TRUE)' = Resolve(TRUE)
        /\ Decodes' <=> Decodes
        /\ NeededPlugins' = NeededPlugins
    BY <1>1, SameProject, SameFiles
  <1>3. setup' \in Setups /\ Paced'
    BY <1>1 DEF InstInv, Paced
  <1>4. RecordsInv' /\ BuiltInv' /\ OnlyImplicit' /\ TableInv'
    BY <1>1, <1>2 DEF InstInv, RecordsInv, BuiltInv, OnlyImplicit, TableInv
  <1>5. CallsInv' /\ RefusalInv'
    BY <1>1, <1>2 DEF InstInv, CallsInv, SameAccount, RefusalInv, Loadable
  <1>6. StrandedInv'
    BY <1>1, <1>2 DEF InstInv, StrandedInv, AcceptedIsServed
  <1> QED BY <1>3, <1>4, <1>5, <1>6 DEF InstInv

LEMMA InstInitInv == InstInit => InstInv
  <1> SUFFICES ASSUME InstInit PROVE InstInv
    OBVIOUS
  <1>1. Paced /\ RecordsInv /\ BuiltInv /\ TableInv /\ RefusalInv
    BY DEF InstInit, Paced, RecordsInv, BuiltInv, TableInv, RefusalInv
  <1>2. OnlyImplicit
    BY DEF InstInit, OnlyImplicit
  <1>3. CallsInv /\ StrandedInv
    BY DEF InstInit, CallsInv, SameAccount, StrandedInv, AcceptedIsServed
  <1> QED BY <1>1, <1>2, <1>3 DEF InstInit, InstInv

\* A command starts with nothing built and all its steps to take.
LEMMA StartKeeps ==
  ASSUME InstInv, NEW c \in {"apply", "teardown", "destroy", "refresh"}, NEW status, NEW resources,
         Start(c, status, resources)
  PROVE  InstInv'
  <1>1. /\ setup' = setup /\ records' = records /\ command' = c /\ steps' = Steps(c) /\ outcome' = "running"
        /\ plugins' = {} /\ DOMAIN built' = {} /\ table' = << >> /\ calls' = {} /\ stranded' = {}
    BY DEF Start
  <1>2. /\ Declares' <=> Declares
        /\ RefersToResource' <=> RefersToResource
        /\ WellNamed(setup.entries)' <=> WellNamed(setup.entries)
        /\ Resolve(TRUE)' = Resolve(TRUE)
    BY <1>1, SameProject
  <1>3. setup' \in Setups /\ Paced'
    BY <1>1 DEF InstInv, Paced, Steps
  <1>4. Unread'
    BY <1>1 DEF Unread, Steps
  <1>5. c = "teardown" => Decodes'
    BY <1>1, <1>2 DEF Start, Decodes
  <1>6. RecordsInv'
    BY <1>1, <1>2 DEF InstInv, RecordsInv
  <1>7. BuiltInv'
    BY <1>1, <1>4, <1>5 DEF BuiltInv
  <1>8. OnlyImplicit' /\ TableInv'
    BY <1>1, <1>4 DEF OnlyImplicit, TableInv
  <1>9. CallsInv' /\ RefusalInv' /\ StrandedInv'
    BY <1>1 DEF CallsInv, SameAccount, RefusalInv, StrandedInv, AcceptedIsServed
  <1> QED BY <1>3, <1>6, <1>7, <1>8, <1>9 DEF InstInv

\* A step that only loads and builds leaves the records and the calls.
LEMMA ProceedKeeps ==
  ASSUME InstInv, NEW step, At(step), Proceed, Untouched
  PROVE  /\ setup' \in Setups /\ Paced' /\ RecordsInv' /\ CallsInv' /\ RefusalInv' /\ StrandedInv'
         /\ outcome = "running" /\ setup' = setup /\ files' = files /\ records' = records /\ command' = command
         /\ Takes(command, step) /\ Head(steps) = step
         /\ outcome' = "running" => Head(steps') = After(command, step)
         /\ Declares' <=> Declares
         /\ RefersToResource' <=> RefersToResource
         /\ Resolve(TRUE)' = Resolve(TRUE)
         /\ Decodes' <=> Decodes
         /\ Used' = Used
  <1>1. /\ outcome = "running" /\ setup' = setup /\ files' = files /\ records' = records
        /\ command' = command /\ calls' = calls /\ stranded' = stranded /\ Head(steps) = step
    BY DEF At, Proceed, Untouched
  <1>2. /\ Declares' <=> Declares
        /\ RefersToResource' <=> RefersToResource
        /\ WellNamed(setup.entries)' <=> WellNamed(setup.entries)
        /\ Resolve(TRUE)' = Resolve(TRUE)
        /\ Decodes' <=> Decodes
        /\ NeededPlugins' = NeededPlugins
    BY <1>1, SameProject, SameFiles
  <1>3. Used' = Used
    BY <1>1, <1>2 DEF Used
  <1>4. /\ Paced' /\ Takes(command, step) /\ outcome' \in {"running", "done"}
        /\ outcome' = "running" => Head(steps') = After(command, step)
    BY PacedStep DEF InstInv
  <1>5. RecordsInv'
    BY <1>1, <1>2 DEF InstInv, RecordsInv
  <1>6. CallsInv' /\ RefusalInv'
    BY <1>1, <1>2, <1>4 DEF InstInv, CallsInv, SameAccount, RefusalInv
  <1>7. StrandedInv'
    BY <1>1, <1>4 DEF InstInv, StrandedInv, AcceptedIsServed
  <1> QED BY <1>1, <1>2, <1>3, <1>4, <1>5, <1>6, <1>7 DEF InstInv

LEMMA NothingIn == DOMAIN << >> = {}
  OBVIOUS

LEMMA NothingCollides ==
  ASSUME NEW t, DOMAIN built = {} \/ \A n \in DOMAIN t : t[n].config = Anywhere
  PROVE  ~Collides(t)
  BY DEF Collides

LEMMA ImplicitOnly ==
  ASSUME NEW ps
  PROVE  /\ \A n \in DOMAIN Implicit(ps) :
              /\ n \in ps /\ Implicit(ps)[n].plugin = n
              /\ Implicit(ps)[n].config = Anywhere /\ Implicit(ps)[n].default
         /\ Single(ps) => DOMAIN Implicit(ps) = ps
         /\ ~Single(ps) => Implicit(ps) = << >> /\ DOMAIN Implicit(ps) = {}
  BY DEF Implicit

\* What registering a table of unconfigured instances builds.
LEMMA RegisteredImplicit ==
  ASSUME NEW t, \A n \in DOMAIN t : t[n].plugin = n /\ t[n].config = Anywhere,
         \A n \in DOMAIN built : built[n].plugin = n /\ built[n].account = Anywhere,
         RegisterInstances(t)
  PROVE  /\ \A n \in DOMAIN built' : built'[n].plugin = n /\ built'[n].account = Anywhere
         /\ DOMAIN built' = DOMAIN built \cup DOMAIN t
  <1>1. \A n \in DOMAIN t : New(t[n]).plugin = n /\ New(t[n]).account = Anywhere
    BY DEF New
  <1> QED BY <1>1 DEF RegisterInstances

\* What registering the project's own builds where nothing was.
LEMMA RegisteredDeclared ==
  ASSUME setup \in Setups, DOMAIN built = {}, RegisterInstances(Resolve(TRUE))
  PROVE  /\ DOMAIN built' = DOMAIN Resolve(TRUE)
         /\ \A n \in DOMAIN Resolve(TRUE) :
              built'[n].plugin = Resolve(TRUE)[n].plugin /\ built'[n].account = Resolve(TRUE)[n].config
  <1>1. \A n \in DOMAIN Resolve(TRUE) :
          New(Resolve(TRUE)[n]).plugin = Resolve(TRUE)[n].plugin
          /\ New(Resolve(TRUE)[n]).account = Resolve(TRUE)[n].config
    BY ResolvedIsKnown DEF New
  <1> QED BY <1>1 DEF RegisterInstances

LEMMA EnsureKeeps ==
  ASSUME InstInv, EnsureState
  PROVE  InstInv'
  <1> DEFINE ps == plugins \cup {r.of.plugin : r \in records}
             t == IF SeesDeclared \/ DOMAIN built # {} THEN << >> ELSE Implicit(ps)
  <1>1. At("ensure") /\ Install(t, ps) /\ table' = table
    BY DEF EnsureState
  <1>2. ~Collides(t)
    BY ImplicitOnly, NothingCollides
  <1>3. RegisterInstances(t) /\ plugins' = ps /\ Proceed /\ Untouched
    BY <1>1, <1>2 DEF Install
  <1>4. /\ setup' \in Setups /\ Paced' /\ RecordsInv' /\ CallsInv' /\ RefusalInv' /\ StrandedInv'
        /\ outcome = "running" /\ command' = command /\ Takes(command, "ensure") /\ Head(steps) = "ensure"
        /\ outcome' = "running" => Head(steps') = After(command, "ensure")
        /\ Declares' <=> Declares
        /\ RefersToResource' <=> RefersToResource
        /\ Resolve(TRUE)' = Resolve(TRUE)
        /\ Decodes' <=> Decodes
        /\ Used' = Used
    BY <1>1, <1>3, ProceedKeeps
  <1>5. Unread <=> command \in {"apply", "teardown"}
    BY <1>4 DEF Unread
  <1>6. outcome' = "running" => (Unread' <=> command \in {"apply", "teardown"})
    BY <1>4 DEF Unread, After, Takes
  <1>7. BuiltInv'
    <2>1. CASE Decodes /\ Declares
      <3>1. command \in {"apply", "teardown"} => DOMAIN built = {}
        BY <1>4, <1>5, <2>1 DEF InstInv, BuiltInv
      <3>2. command \notin {"apply", "teardown"} => AllBuilt
        BY <1>4, <1>5, <2>1 DEF InstInv, BuiltInv
      <3>3. t = << >>
        <4>1. CASE command \in {"apply", "teardown"}
          BY <2>1, <4>1 DEF SeesDeclared
        <4>2. CASE command \notin {"apply", "teardown"}
          BY <2>1, <3>2, <4>2, SomeDeclared DEF AllBuilt, InstInv
        <4> QED BY <4>1, <4>2
      <3>4. DOMAIN built' = DOMAIN built /\ \A n \in DOMAIN built : built'[n] = built[n]
        <4> HIDE DEF t
        <4> QED BY <1>3, <3>3 DEF RegisterInstances
      <3>5. command \notin {"apply", "teardown"} => AllBuilt'
        BY <1>4, <3>2, <3>4 DEF AllBuilt
      <3> QED BY <1>4, <1>5, <1>6, <3>1, <3>4, <3>5 DEF InstInv, BuiltInv
    <2>2. CASE ~(Decodes /\ Declares)
      BY <1>4, <1>5, <1>6, <2>2 DEF InstInv, BuiltInv
    <2> QED BY <2>1, <2>2
  <1>8. OnlyImplicit'
    <2> SUFFICES ASSUME ~Declares PROVE OnlyImplicit'
      BY <1>4 DEF OnlyImplicit
    <2>1. \A n \in DOMAIN t : t[n].plugin = n /\ t[n].config = Anywhere
      BY ImplicitOnly
    <2>2. \A n \in DOMAIN built : built[n].plugin = n /\ built[n].account = Anywhere
      BY DEF InstInv, OnlyImplicit
    <2> HIDE DEF t
    <2>3. /\ \A n \in DOMAIN built' : built'[n].plugin = n /\ built'[n].account = Anywhere
          /\ DOMAIN built \subseteq DOMAIN built'
      BY <1>3, <2>1, <2>2, RegisteredImplicit
    <2> QED BY <1>1, <2>3 DEF InstInv, OnlyImplicit
  <1>9. TableInv'
    <2>1. plugins' \subseteq Used
      BY <1>3, <1>4 DEF InstInv, TableInv, Used
    <2> QED BY <1>4, <1>6, <2>1 DEF TableInv
  <1> QED BY <1>4, <1>7, <1>8, <1>9 DEF InstInv

\* Destroy, refresh and a teardown read the entries themselves.
LEMMA StateInstancesKeeps ==
  ASSUME InstInv, StateInstances
  PROVE  InstInv'
  <1> DEFINE resolved == Resolve(Environment)
             ps == plugins \cup NeededPlugins
  <1>1. At("instances") /\ table' = table /\ outcome = "running"
    BY DEF StateInstances, At
  <1>2. Head(steps) = "instances" /\ Unread
    BY <1>1 DEF At, Unread
  <1>3. Decodes /\ Declares => DOMAIN built = {}
    BY <1>1, <1>2 DEF InstInv, BuiltInv
  \* With the files read, the same instances as an apply's.
  <1>4. ASSUME \A n \in DOMAIN resolved : resolved[n].config # Unsettled
        PROVE  resolved = Resolve(TRUE)
    BY <1>4, SettledWithout DEF Environment
  <1>5. CASE Refuse
    <2>1. ASSUME Decodes, command \in {"destroy", "refresh"}, records # {}, Declares, Loadable(NeededPlugins)
          PROVE  FALSE
      <3>1. ~RefersToResource
        BY <2>1 DEF InstInv, RecordsInv
      <3>2. resolved = Resolve(TRUE)
        BY <2>1 DEF Environment
      <3>3. \A n \in DOMAIN resolved : resolved[n].config # Unsettled
        BY <3>2, ResolvedIsKnown DEF InstInv
      <3>4. Install(resolved, ps)
        BY <1>1, <2>1, <3>1, <3>3 DEF StateInstances
      <3>5. ~Collides(resolved)
        BY <1>3, <2>1, NothingCollides
      <3>6. outcome' \in {"done", "running"}
        BY <3>4, <3>5 DEF Install, Proceed
      <3> QED BY <1>5, <3>6 DEF Refuse
    <2> QED BY <1>1, <1>5, <2>1, RefuseKeeps
  <1>6. CASE ~Refuse
    <2> DEFINE t == IF Decodes /\ Declares THEN Resolve(TRUE) ELSE Implicit(IF Decodes THEN ps ELSE plugins)
               loaded == IF Decodes THEN ps ELSE plugins
    <2>1. Install(t, loaded)
      <3>1. CASE ~Decodes
        BY <1>6, <3>1 DEF StateInstances
      <3>2. CASE Decodes /\ ~Declares
        BY <1>6, <3>2 DEF StateInstances
      <3>3. CASE Decodes /\ Declares
        <4>1. (\A n \in DOMAIN resolved : resolved[n].config # Unsettled) /\ Install(resolved, ps)
          BY <1>6, <3>3 DEF StateInstances
        <4>2. Install(Resolve(TRUE), ps)
          BY <1>4, <4>1
        <4> QED BY <3>3, <4>2
      <3> QED BY <3>1, <3>2, <3>3
    <2> HIDE DEF t, loaded
    <2>2. RegisterInstances(t) /\ plugins' = loaded /\ Proceed /\ Untouched
      BY <1>6, <2>1 DEF Install
    <2>3. /\ setup' \in Setups /\ Paced' /\ RecordsInv' /\ CallsInv' /\ RefusalInv' /\ StrandedInv'
          /\ command' = command /\ Takes(command, "instances")
          /\ outcome' = "running" => Head(steps') = After(command, "instances")
          /\ Declares' <=> Declares
          /\ Resolve(TRUE)' = Resolve(TRUE)
          /\ Decodes' <=> Decodes
          /\ Used' = Used
      BY <1>1, <2>2, ProceedKeeps
    <2>4. outcome' = "running" => ~Unread'
      BY <2>3 DEF Unread, After, Takes
    <2>5. BuiltInv'
      <3>1. ASSUME Decodes, Declares PROVE AllBuilt'
        <4>1. RegisterInstances(Resolve(TRUE))
          BY <2>2, <3>1 DEF t
        <4>2. /\ DOMAIN built' = DOMAIN Resolve(TRUE)
              /\ \A n \in DOMAIN Resolve(TRUE) :
                   built'[n].plugin = Resolve(TRUE)[n].plugin /\ built'[n].account = Resolve(TRUE)[n].config
          BY <1>3, <3>1, <4>1, RegisteredDeclared DEF InstInv
        <4> QED BY <2>3, <4>2 DEF AllBuilt
      <3>2. command \in {"teardown", "destroy", "refresh"}
        BY <2>3 DEF Takes
      <3> QED BY <1>1, <2>3, <2>4, <3>1, <3>2 DEF InstInv, BuiltInv
    <2>6. OnlyImplicit'
      <3> SUFFICES ASSUME ~Declares PROVE OnlyImplicit'
        BY <2>3 DEF OnlyImplicit
      <3>1. \A n \in DOMAIN t : t[n].plugin = n /\ t[n].config = Anywhere
        BY ImplicitOnly DEF t
      <3>2. \A n \in DOMAIN built : built[n].plugin = n /\ built[n].account = Anywhere
        BY DEF InstInv, OnlyImplicit
      <3>3. /\ \A n \in DOMAIN built' : built'[n].plugin = n /\ built'[n].account = Anywhere
            /\ DOMAIN built \subseteq DOMAIN built'
        BY <2>2, <3>1, <3>2, RegisteredImplicit
      <3> QED BY <1>1, <3>3 DEF InstInv, OnlyImplicit
    <2>7. TableInv'
      <3>1. plugins' \subseteq Used
        BY <1>1, <2>2 DEF InstInv, TableInv, Used, loaded
      <3>2. command' # "apply"
        BY <2>3 DEF Takes
      <3> QED BY <2>3, <3>1, <3>2 DEF TableInv
    <2> QED BY <2>3, <2>5, <2>6, <2>7 DEF InstInv
  <1> QED BY <1>5, <1>6

\* Stage 4.5 resolves the entries, or the one plugin there is.
LEMMA PrepareKeeps ==
  ASSUME InstInv, Prepare
  PROVE  InstInv'
  <1> DEFINE ps == plugins \cup NeededPlugins
             t == IF Declares THEN Resolve(TRUE) ELSE Implicit(ps)
  <1>1. At("prepare") /\ outcome = "running" /\ Head(steps) = "prepare" /\ Unread
    BY DEF Prepare, At, Unread
  <1>2. command = "apply"
    BY <1>1 DEF InstInv, Paced, AtRead
  <1>3. CASE Refuse
    BY <1>1, <1>2, <1>3, RefuseKeeps
  <1>4. CASE ~Refuse
    <2>1. Decodes /\ ~RefersToResource /\ Install(t, ps) /\ table' = t
      BY <1>4 DEF Prepare
    <2>2. RegisterInstances(t) /\ plugins' = ps /\ Proceed /\ Untouched
      BY <1>4, <2>1 DEF Install
    <2>3. /\ setup' \in Setups /\ Paced' /\ RecordsInv' /\ CallsInv' /\ RefusalInv' /\ StrandedInv'
          /\ command' = command
          /\ outcome' = "running" => Head(steps') = After(command, "prepare")
          /\ Declares' <=> Declares
          /\ RefersToResource' <=> RefersToResource
          /\ Resolve(TRUE)' = Resolve(TRUE)
          /\ Decodes' <=> Decodes
          /\ Used' = Used
      BY <1>1, <2>2, ProceedKeeps
    <2>4. outcome' = "running" => ~Unread' /\ Head(steps') = "late"
      BY <1>2, <2>3 DEF Unread, After
    <2>5. BuiltInv'
      <3>1. ASSUME Declares PROVE AllBuilt'
        <4>1. DOMAIN built = {}
          BY <1>1, <2>1, <3>1 DEF InstInv, BuiltInv
        <4>2. RegisterInstances(Resolve(TRUE))
          BY <2>2, <3>1
        <4>3. /\ DOMAIN built' = DOMAIN Resolve(TRUE)
              /\ \A n \in DOMAIN Resolve(TRUE) :
                   built'[n].plugin = Resolve(TRUE)[n].plugin /\ built'[n].account = Resolve(TRUE)[n].config
          BY <4>1, <4>2, RegisteredDeclared DEF InstInv
        <4> QED BY <2>3, <4>3 DEF AllBuilt
      <3> QED BY <1>2, <2>1, <2>3, <2>4, <3>1 DEF BuiltInv
    <2>6. OnlyImplicit'
      <3> SUFFICES ASSUME ~Declares PROVE OnlyImplicit'
        BY <2>3 DEF OnlyImplicit
      <3>1. t = Implicit(ps)
        OBVIOUS
      <3>2. \A n \in DOMAIN t : t[n].plugin = n /\ t[n].config = Anywhere /\ t[n].default
        BY <3>1, ImplicitOnly
      <3>3. \A n \in DOMAIN built : built[n].plugin = n /\ built[n].account = Anywhere
        BY DEF InstInv, OnlyImplicit
      <3> HIDE DEF t
      <3>4. /\ \A n \in DOMAIN built' : built'[n].plugin = n /\ built'[n].account = Anywhere
            /\ DOMAIN t \subseteq DOMAIN built'
        BY <2>2, <3>2, <3>3, RegisteredImplicit
      <3> QED BY <2>1, <3>2, <3>4 DEF OnlyImplicit
    <2>7. TableInv'
      <3>1. plugins' \subseteq Used
        BY <1>1, <2>2 DEF InstInv, TableInv, Used
      <3>2. Declares => table' = Resolve(TRUE)
        BY <2>1
      <3>3. ~Declares => table' = Implicit(plugins')
        BY <2>1, <2>2
      <3>4. Implicit(plugins)' = Implicit(plugins')
        BY DEF Implicit, Single
      <3> QED BY <2>3, <2>4, <3>1, <3>2, <3>3, <3>4 DEF TableInv, Follows
    <2> QED BY <2>3, <2>5, <2>6, <2>7 DEF InstInv
  <1> QED BY <1>3, <1>4

\* Stage 5.5 loads what the modules use, and gives the only one an instance.
LEMMA PrepareLateKeeps ==
  ASSUME InstInv, PrepareLate
  PROVE  InstInv'
  <1> DEFINE ps == plugins \cup ({r.plugin : r \in files.resources} \cap Installed)
             t == IF ps # plugins /\ table = << >> THEN Implicit(ps) ELSE table
  <1>1. At("late") /\ outcome = "running" /\ Head(steps) = "late" /\ ~Unread
    BY DEF PrepareLate, At, Unread
  <1>2. command = "apply"
    BY <1>1 DEF InstInv, Paced, AtRead
  <1>3. CASE Refuse
    BY <1>1, <1>2, <1>3, RefuseKeeps
  <1>4. CASE ~Refuse
    <2>1. /\ plugins' = ps /\ Proceed /\ Untouched /\ table' = t
          /\ \/ t = table /\ built' = built
             \/ t # table /\ RegisterInstances(t)
      BY <1>4 DEF PrepareLate, Install
    <2>2. /\ setup' \in Setups /\ Paced' /\ RecordsInv' /\ CallsInv' /\ RefusalInv' /\ StrandedInv'
          /\ command' = command
          /\ outcome' = "running" => Head(steps') = After(command, "late")
          /\ Declares' <=> Declares
          /\ RefersToResource' <=> RefersToResource
          /\ Resolve(TRUE)' = Resolve(TRUE)
          /\ Decodes' <=> Decodes
          /\ Used' = Used
      BY <1>1, <2>1, ProceedKeeps
    <2>3. outcome' = "running" => ~Unread' /\ Head(steps') = "bind"
      BY <1>2, <2>2 DEF Unread, After
    <2>4. Decodes /\ ~RefersToResource /\ (Declares => AllBuilt /\ table = Resolve(TRUE))
      BY <1>1, <1>2 DEF InstInv, BuiltInv, TableInv
    <2>5. Declares => t = table /\ built' = built
      <3>1. Declares => table # << >>
        <4> SUFFICES ASSUME Declares, table = << >> PROVE FALSE
          OBVIOUS
        <4>1. Resolve(TRUE) = << >>
          BY <2>4
        <4>2. DOMAIN Resolve(TRUE) = {}
          BY <4>1, NothingIn
        <4> QED BY <4>2, SomeDeclared DEF InstInv
      <3> QED BY <2>1, <3>1
    <2>6. BuiltInv'
      BY <1>2, <2>2, <2>3, <2>4, <2>5 DEF BuiltInv, AllBuilt
    <2>7. OnlyImplicit'
      <3> SUFFICES ASSUME ~Declares PROVE OnlyImplicit'
        BY <2>2 DEF OnlyImplicit
      <3>1. CASE t = table /\ built' = built
        BY <2>1, <3>1 DEF InstInv, OnlyImplicit
      <3>2. CASE t # table /\ RegisterInstances(t)
        <4>1. t = Implicit(ps)
          BY <3>2
        <4>2. \A n \in DOMAIN t : t[n].plugin = n /\ t[n].config = Anywhere /\ t[n].default
          BY <4>1, ImplicitOnly
        <4>3. \A n \in DOMAIN built : built[n].plugin = n /\ built[n].account = Anywhere
          BY DEF InstInv, OnlyImplicit
        <4> HIDE DEF t
        <4>4. /\ \A n \in DOMAIN built' : built'[n].plugin = n /\ built'[n].account = Anywhere
              /\ DOMAIN t \subseteq DOMAIN built'
          BY <3>2, <4>2, <4>3, RegisteredImplicit
        <4> QED BY <2>1, <4>2, <4>4 DEF OnlyImplicit
      <3> QED BY <2>1, <3>1, <3>2
    <2>8. TableInv'
      <3>1. plugins' \subseteq Used
        BY <1>1, <2>1 DEF InstInv, TableInv, Used
      <3>2. Declares => table' = Resolve(TRUE)
        BY <2>1, <2>4, <2>5
      <3>3. ~Declares => Follows'
        <4> SUFFICES ASSUME ~Declares, Single(ps) PROVE table' = Implicit(ps)
          BY <2>1 DEF Follows, Single, Implicit
        <4>1. table = Implicit(plugins)
          BY <1>1, <1>2 DEF InstInv, TableInv
        <4>2. CASE ps = plugins
          BY <2>1, <4>1, <4>2
        <4>3. CASE ps # plugins
          <5>1. ~Single(plugins)
            BY <4>3 DEF Single
          <5>2. table = << >>
            BY <4>1, <5>1, ImplicitOnly
          <5> QED BY <2>1, <4>3, <5>2
        <4> QED BY <4>2, <4>3
      <3> QED BY <2>2, <2>3, <3>1, <3>2, <3>3 DEF TableInv
    <2> QED BY <2>2, <2>6, <2>7, <2>8 DEF InstInv
  <1> QED BY <1>3, <1>4

\* Stages 6 and 7 let nothing through that the table does not name.
LEMMA BindKeeps ==
  ASSUME InstInv, BindInstances
  PROVE  InstInv'
  <1>1. At("bind") /\ outcome = "running" /\ Head(steps) = "bind" /\ ~Unread
    BY DEF BindInstances, At, Unread
  <1>2. command = "apply"
    BY <1>1 DEF InstInv, Paced, AtRead
  <1>3. CASE Refuse
    BY <1>1, <1>2, <1>3, RefuseKeeps
  <1>4. CASE ~Refuse
    <2>1. Proceed /\ Untouched /\ Bound /\ plugins' = plugins /\ built' = built /\ table' = table
      BY <1>4 DEF BindInstances, Bound
    <2>2. /\ setup' \in Setups /\ Paced' /\ RecordsInv' /\ CallsInv' /\ RefusalInv' /\ StrandedInv'
          /\ command' = command /\ files' = files
          /\ outcome' = "running" => Head(steps') = After(command, "bind")
          /\ Declares' <=> Declares
          /\ RefersToResource' <=> RefersToResource
          /\ Resolve(TRUE)' = Resolve(TRUE)
          /\ Decodes' <=> Decodes
          /\ Used' = Used
      BY <1>1, <2>1, ProceedKeeps
    <2>3. outcome' = "running" => ~Unread' /\ Head(steps') = "read"
      BY <1>2, <2>2 DEF Unread, After
    <2>4. BuiltInv' /\ OnlyImplicit'
      <3>1. AllBuilt' <=> AllBuilt
        BY <2>1, <2>2 DEF AllBuilt
      <3>2. BuiltInv'
        BY <1>1, <1>2, <2>2, <2>3, <3>1 DEF InstInv, BuiltInv
      <3>3. OnlyImplicit'
        BY <2>1, <2>2 DEF InstInv, OnlyImplicit
      <3> QED BY <3>2, <3>3
    <2>5. Bound' /\ (Follows' <=> Follows)
      BY <2>1, <2>2 DEF Bound, NamedBy, Follows, Implicit, Single
    <2>6. TableInv'
      BY <1>1, <1>2, <2>1, <2>2, <2>3, <2>5 DEF InstInv, TableInv
    <2> QED BY <2>2, <2>4, <2>6 DEF InstInv
  <1> QED BY <1>3, <1>4

\* Every record is read in the account it was made in; with the entries built,
\* none is out of reach.
LEMMA ReadKeeps ==
  ASSUME InstInv, Read
  PROVE  InstInv'
  <1>1. At("read") /\ outcome = "running" /\ Head(steps) = "read" /\ ~Unread
    BY DEF Read, At, Unread
  <1>2. Decodes /\ Declares => AllBuilt
    BY <1>1 DEF InstInv, BuiltInv
  <1>3. CASE Refuse
    <2>1. ASSUME Decodes, Declares PROVE FALSE
      <3>1. PICK r \in records : ~ProviderFor(r.of.plugin, r.instance)
        BY <1>3 DEF Read, Refuse, Proceed
      <3>2. r.instance \in DOMAIN Resolve(TRUE) /\ Resolve(TRUE)[r.instance].plugin = r.of.plugin
        BY <2>1 DEF InstInv, RecordsInv
      <3> QED BY <1>2, <2>1, <3>1, <3>2 DEF AllBuilt, ProviderFor
    <2> QED BY <1>1, <1>3, <2>1, RefuseKeeps
  <1>4. CASE ~Refuse
    <2>1. /\ \A r \in records : ProviderFor(r.of.plugin, r.instance)
          /\ calls' = {[of |-> r, account |-> built[r.instance].account] : r \in records}
          /\ Proceed /\ records' = records /\ plugins' = plugins /\ built' = built /\ table' = table
          /\ stranded' = stranded
      BY <1>4 DEF Read
    <2>2. /\ setup' = setup /\ files' = files /\ command' = command
      BY <2>1 DEF Proceed
    <2>3. /\ Declares' <=> Declares
          /\ RefersToResource' <=> RefersToResource
          /\ WellNamed(setup.entries)' <=> WellNamed(setup.entries)
          /\ Resolve(TRUE)' = Resolve(TRUE)
          /\ Decodes' <=> Decodes
          /\ NeededPlugins' = NeededPlugins
      BY <2>2, SameProject, SameFiles
    <2>4. /\ Paced' /\ Takes(command, "read") /\ outcome' \in {"running", "done"}
          /\ outcome' = "running" => Head(steps') = After(command, "read")
      BY <1>1, <2>1, PacedStep DEF InstInv
    <2>5. outcome' = "running" => Head(steps') = "operate" /\ ~Unread'
      BY <2>4 DEF After, Unread
    <2>6. RecordsInv' /\ RefusalInv'
      BY <2>1, <2>2, <2>3, <2>4 DEF InstInv, RecordsInv, RefusalInv
    <2>7. BuiltInv' /\ OnlyImplicit'
      <3>1. AllBuilt' <=> AllBuilt
        BY <2>1, <2>3 DEF AllBuilt
      <3>2. BuiltInv'
        BY <1>1, <2>2, <2>3, <2>5, <3>1 DEF InstInv, BuiltInv
      <3>3. OnlyImplicit'
        BY <2>1, <2>3 DEF InstInv, OnlyImplicit
      <3> QED BY <3>2, <3>3
    <2>8. TableInv'
      <3>1. Bound' <=> Bound
        BY <2>1, <2>2 DEF Bound, NamedBy
      <3>2. Follows' <=> Follows
        BY <2>1 DEF Follows, Implicit, Single
      <3>3. Used' = Used
        BY <2>1, <2>2, <2>3 DEF Used
      <3> QED BY <1>1, <2>1, <2>2, <2>3, <2>4, <2>5, <3>1, <3>2, <3>3 DEF InstInv, TableInv
    <2>9. CallsInv'
      <3>1. ASSUME Decodes, NEW r \in records
            PROVE  built[r.instance].account = r.account
        <4>1. CASE Declares
          BY <1>2, <3>1, <4>1 DEF InstInv, RecordsInv, AllBuilt
        <4>2. CASE ~Declares
          <5>1. r.instance \in DOMAIN built
            BY <2>1 DEF ProviderFor
          <5> QED BY <4>2, <5>1 DEF InstInv, RecordsInv, OnlyImplicit
        <4> QED BY <4>1, <4>2
      <3>2. ASSUME Decodes, NEW c \in calls'
            PROVE  c.account = c.of.account
        <4>1. PICK r \in records : c = [of |-> r, account |-> built[r.instance].account]
          BY <2>1
        <4>2. c.of = r /\ c.account = built[r.instance].account
          BY <4>1
        <4> QED BY <3>1, <3>2, <4>2
      <3> QED BY <2>3, <3>2 DEF CallsInv, SameAccount
    <2>10. StrandedInv'
      <3>1. stranded' = {}
        BY <1>1, <2>1 DEF InstInv, StrandedInv
      <3> QED BY <3>1 DEF StrandedInv, AcceptedIsServed
    <2> QED BY <2>2, <2>4, <2>6, <2>7, <2>8, <2>9, <2>10 DEF InstInv
  <1> QED BY <1>3, <1>4

\* Of a project of one plugin, the instance a resource is bound to is built.
LEMMA OnePluginIsServed ==
  ASSUME InstInv, At("operate"), command = "apply", Single(Used), NEW r \in files.resources
  PROVE  ProviderFor(r.plugin, ProviderInstanceFor(r))
  <1> DEFINE n == ProviderInstanceFor(r)
  <1>1. outcome = "running" /\ Head(steps) = "operate" /\ ~Unread
    BY DEF At, Unread
  <1>2. PICK p : Used = {p}
    BY DEF Single
  <1>3. /\ NamedBy(r) \in {Unnamed} \cup DOMAIN table /\ r.plugin \in plugins
        /\ plugins \subseteq Used /\ Decodes
    BY <1>1 DEF InstInv, TableInv, Bound, BuiltInv
  <1>4. r.plugin = p /\ plugins = {p}
    BY <1>2, <1>3
  <1>5. \E m \in DOMAIN table : table[m].default
    <2>1. CASE Declares
      <3>1. WellNamed(setup.entries) /\ table = Resolve(TRUE)
        BY <1>1, <1>3, <2>1 DEF Decodes, InstInv, TableInv
      <3> QED BY <2>1, <3>1, DefaultIsDeclared DEF InstInv
    <2>2. CASE ~Declares
      <3>1. table = Implicit(plugins) /\ Single(plugins)
        BY <1>1, <1>4, <2>2 DEF InstInv, TableInv, Follows, Single
      <3> QED BY <1>4, <3>1, ImplicitOnly
    <2> QED BY <2>1, <2>2
  <1>6. n \in DOMAIN table
    BY <1>3, <1>5 DEF ProviderInstanceFor
  <1>7. CASE Declares
    <2>1. table = Resolve(TRUE) /\ AllBuilt
      BY <1>1, <1>3, <1>7 DEF InstInv, TableInv, BuiltInv
    <2>2. Resolve(TRUE)[n].plugin = p
      BY <1>2, <1>6, <2>1, ResolvedIsKnown DEF InstInv, Used
    <2> QED BY <1>4, <1>6, <2>1, <2>2 DEF AllBuilt, ProviderFor
  <1>8. CASE ~Declares
    <2>1. table = Implicit(plugins) /\ Single(plugins)
      BY <1>1, <1>4, <1>8 DEF InstInv, TableInv, Follows, Single
    <2>2. n = p
      BY <1>4, <1>6, <2>1, ImplicitOnly
    <2> QED BY <1>4, <1>6, <1>8, <2>2 DEF InstInv, OnlyImplicit, ProviderFor
  <1> QED BY <1>7, <1>8

\* A create records the instance it ran against, and the account of it.
LEMMA OperateKeeps ==
  ASSUME InstInv, Operate
  PROVE  InstInv'
  <1> DEFINE fresh == {r \in files.resources : \A s \in records : s.of # r}
             served == {r \in fresh : ProviderFor(r.plugin, ProviderInstanceFor(r))}
             created == {[of |-> r, instance |-> ProviderInstanceFor(r),
                          account |-> built[ProviderInstanceFor(r)].account] : r \in served}
  <1>1. /\ At("operate") /\ outcome = "running" /\ Head(steps) = "operate" /\ ~Unread /\ Proceed
        /\ plugins' = plugins /\ built' = built /\ table' = table /\ calls' = calls
    BY DEF Operate, At, Unread
  <1>2. command = "apply" => stranded' = fresh \ served /\ records' = records \cup created
    BY DEF Operate
  <1>3. command # "apply" => records' = {} /\ stranded' = stranded
    BY DEF Operate
  <1>4. setup' = setup /\ files' = files /\ command' = command
    BY <1>1 DEF Proceed
  <1>5. /\ Declares' <=> Declares
        /\ RefersToResource' <=> RefersToResource
        /\ WellNamed(setup.entries)' <=> WellNamed(setup.entries)
        /\ Resolve(TRUE)' = Resolve(TRUE)
        /\ Decodes' <=> Decodes
        /\ NeededPlugins' = NeededPlugins
    BY <1>4, SameProject, SameFiles
  <1>6. Paced' /\ outcome' = "done"
    BY <1>1, PacedStep DEF InstInv
  <1>7. BuiltInv' /\ OnlyImplicit' /\ RefusalInv' /\ TableInv'
    BY <1>1, <1>5, <1>6 DEF InstInv, BuiltInv, OnlyImplicit, RefusalInv, TableInv
  <1>8. CallsInv'
    BY <1>1, <1>5 DEF InstInv, CallsInv, SameAccount
  <1>9. RecordsInv'
    <2>1. CASE command # "apply"
      BY <1>3, <2>1 DEF RecordsInv
    <2>2. CASE command = "apply"
      <3>1. WellNamed(setup.entries) /\ ~RefersToResource /\ (Declares => AllBuilt)
        BY <1>1, <2>2 DEF InstInv, BuiltInv, Decodes
      <3>2. ASSUME NEW r \in created
            PROVE  IF Declares
                   THEN /\ r.instance \in DOMAIN Resolve(TRUE)
                        /\ Resolve(TRUE)[r.instance].plugin = r.of.plugin
                        /\ r.account = Resolve(TRUE)[r.instance].config
                   ELSE r.account = Anywhere
        <4>1. PICK f \in served : r = [of |-> f, instance |-> ProviderInstanceFor(f),
                                       account |-> built[ProviderInstanceFor(f)].account]
          OBVIOUS
        <4>2. /\ r.of = f /\ r.instance = ProviderInstanceFor(f)
              /\ r.account = built[ProviderInstanceFor(f)].account
          BY <4>1
        <4>3. r.instance \in DOMAIN built /\ built[r.instance].plugin = r.of.plugin
          BY <4>2 DEF ProviderFor
        <4>4. CASE Declares
          BY <3>1, <4>2, <4>3, <4>4 DEF AllBuilt
        <4>5. CASE ~Declares
          <5>1. built[r.instance].account = Anywhere
            BY <4>3, <4>5 DEF InstInv, OnlyImplicit
          <5> QED BY <4>2, <4>5, <5>1
        <4> QED BY <4>4, <4>5
      <3>3. records' = records \cup created
        BY <1>2, <2>2
      <3> HIDE DEF created
      <3> QED BY <1>5, <3>1, <3>2, <3>3 DEF InstInv, RecordsInv
    <2> QED BY <2>1, <2>2
  <1>10. StrandedInv'
    <2>1. CASE command # "apply"
      <3>1. stranded' = {}
        BY <1>1, <1>3, <2>1 DEF InstInv, StrandedInv
      <3> QED BY <3>1 DEF StrandedInv, AcceptedIsServed
    <2>2. CASE command = "apply"
      <3>1. Used' = Used
        <4>1. \A r \in created : r.of \in files.resources
          OBVIOUS
        <4>2. records' = records \cup created
          BY <1>2, <2>2
        <4>3. {r.of.plugin : r \in records'} \subseteq
                {r.of.plugin : r \in records} \cup {r.plugin : r \in files.resources}
          <5> HIDE DEF created
          <5> QED BY <4>1, <4>2
        <4>4. {r.of.plugin : r \in records} \subseteq {r.of.plugin : r \in records'}
          BY <4>2
        <4> QED BY <1>4, <1>5, <4>3, <4>4 DEF Used
      <3>2. Single(Used) => stranded' = {}
        BY <1>1, <1>2, <2>2, OnePluginIsServed
      <3>3. Single(Used)' <=> Single(Used)
        BY <3>1 DEF Single
      <3> QED BY <1>4, <1>6, <2>2, <3>2, <3>3 DEF StrandedInv, AcceptedIsServed, Used
    <2> QED BY <2>1, <2>2
  <1> QED BY <1>4, <1>6, <1>7, <1>8, <1>9, <1>10 DEF InstInv

\* The inductive invariant.
THEOREM InstancesInvariant == InstSpec => []InstInv
  <1>1. InstInv /\ [InstNext]_instVars => InstInv'
    <2> SUFFICES ASSUME InstInv, [InstNext]_instVars PROVE InstInv'
      OBVIOUS
    <2>1. ASSUME NEW c \in {"apply", "teardown", "destroy", "refresh"}, NEW status, NEW resources,
                 Start(c, status, resources)
          PROVE  InstInv'
      BY <2>1, StartKeeps
    <2>2. CASE EnsureState
      BY <2>2, EnsureKeeps
    <2>3. CASE StateInstances
      BY <2>3, StateInstancesKeeps
    <2>4. CASE Prepare
      BY <2>4, PrepareKeeps
    <2>5. CASE PrepareLate
      BY <2>5, PrepareLateKeeps
    <2>6. CASE BindInstances
      BY <2>6, BindKeeps
    <2>7. CASE Read
      BY <2>7, ReadKeeps
    <2>8. CASE Operate
      BY <2>8, OperateKeeps
    <2>9. CASE UNCHANGED instVars
      <3>1. /\ UNCHANGED <<setup, records, command, files, steps, outcome, plugins, built, table, calls, stranded>>
        BY <2>9 DEF instVars
      <3>2. /\ Declares' <=> Declares
            /\ RefersToResource' <=> RefersToResource
            /\ WellNamed(setup.entries)' <=> WellNamed(setup.entries)
            /\ Resolve(TRUE)' = Resolve(TRUE)
            /\ Decodes' <=> Decodes
            /\ NeededPlugins' = NeededPlugins
        BY <3>1, SameProject, SameFiles
      <3>3. Paced' /\ RecordsInv'
        BY <3>1, <3>2 DEF InstInv, Paced, RecordsInv
      <3>6. BuiltInv'
        <4>1. (AllBuilt' <=> AllBuilt) /\ (Unread' <=> Unread)
          BY <3>1, <3>2 DEF AllBuilt, Unread
        <4> QED BY <3>1, <3>2, <4>1 DEF InstInv, BuiltInv
      <3>7. OnlyImplicit'
        BY <3>1, <3>2 DEF InstInv, OnlyImplicit
      <3>4. TableInv'
        BY <3>1, <3>2 DEF InstInv, TableInv, Used, Unread, Bound, NamedBy, Follows, Single, Implicit
      <3>5. CallsInv' /\ RefusalInv' /\ StrandedInv'
        BY <3>1, <3>2 DEF InstInv, CallsInv, SameAccount, RefusalInv, Loadable, StrandedInv, AcceptedIsServed, Single
      <3> QED BY <3>1, <3>3, <3>4, <3>5, <3>6, <3>7 DEF InstInv
    <2> QED BY <2>1, <2>2, <2>3, <2>4, <2>5, <2>6, <2>7, <2>8, <2>9 DEF InstNext
  <1> QED BY <1>1, InstInitInv, PTL DEF InstSpec

\* While the files decode, a command that is not refused calls every recorded
\* resource in the account its object was made in, and destroy and refresh are
\* not refused what apply recorded but for a plugin that is not there: whatever
\* the projects, the plugins and the order of apply, destroy, refresh and
\* teardown, with the files edited between any two (src/internal/cli/context.go,
\* src/internal/providers/prepare.go, src/internal/registry/registry.go).
THEOREM RecordsStayInReachAlways == InstSpec => []RecordsStayInReach
  <1>1. InstInv => RecordsStayInReach
    BY DEF InstInv, CallsInv, RefusalInv, RecordsStayInReach
  <1> QED BY <1>1, InstancesInvariant, PTL

\* Of a project that uses one plugin no operation of an accepted plan is left
\* without an instance, whether the plugin is named at the root, in a module or
\* only in state (src/internal/providers/prepare.go, PrepareLate).
THEOREM AcceptedIsServedAlways == InstSpec => []AcceptedIsServed
  <1>1. InstInv => AcceptedIsServed
    BY DEF InstInv, StrandedInv
  <1> QED BY <1>1, InstancesInvariant, PTL
=============================================================================
