------------------------------ MODULE Expansion ------------------------------
(***************************************************************************)
(* A project whose modules are expanded away: what resources there are,    *)
(* at which addresses, and which of them wait for which.                   *)
(*                                                                         *)
(* A level is the project or one module file: declarations by name, the    *)
(* outputs it publishes.  A declaration is a resource or a call of a       *)
(* module; it may be made once per key, or be left out of the environment. *)
(* An expression is the set of names it reads, and a value is the set of   *)
(* addresses whose attributes it waits for: the empty set is a value known *)
(* when the project is compiled.                                           *)
(*                                                                         *)
(* An address is the path of <<name, key>> pairs from the project down,    *)
(* with Once for the key of something made once.                           *)
(***************************************************************************)
EXTENDS Naturals, Sequences, FiniteSets
LOCAL INSTANCE SequencesExt
LOCAL INSTANCE TLC

CONSTANTS
  Projects,   \* the root levels
  Library,    \* the modules that can be called, by name
  Once,       \* the key of what is made once
  MaxDepth    \* how many instantiations may nest

VARIABLES
  project,    \* the root level
  phase,      \* "written", "expanded", "bound"
  expansion,  \* what expanding made of it
  edges,      \* for each resource, the addresses it depends on
  valid       \* FALSE once an error was reported

expandVars == <<project, phase, expansion, edges, valid>>

-----------------------------------------------------------------------------
(* Levels.  A declaration has of (the module called, or "resource"), each  *)
(* (its keys, {} for none), skipped, inputs and composites (the names its  *)
(* plain and its composite attributes read) and after (its depends_on).    *)

IsCall(d) == d.of # "resource"
Keys(d) == IF d.each = {} THEN {Once} ELSE d.each
Ref(n, k) == [name |-> n, key |-> k]
Var(n) == [name |-> n, key |-> "var"]
IsVar(a) == a.key = "var"
Refs(expr) == {a \in expr : ~IsVar(a)}

Unbound == [bound |-> "nothing"]
ResourceBinding(addr, made) == [bound |-> "resource", address |-> addr, instances |-> made]
CallBinding(made, outputs) == [bound |-> "call", addresses |-> made, outputs |-> outputs]
BindingOf(names, n) == IF n \in DOMAIN names THEN names[n] ELSE Unbound

\* The outputs a reference reads: the key is looked at only when there are keys.
Published(b, key) ==
  IF Once \in DOMAIN b.outputs THEN {Once} ELSE {key} \cap DOMAIN b.outputs

\* A reference made absolute.  One to a call's output is the output's value;
\* one that names nothing here stays as it is written, which is how the
\* project's own resources are addressed.
AsWritten(a) == <<<<a.name, a.key>>>>
Qualify(a, names) ==
  LET b == BindingOf(names, a.name)
      keyed == Append(Front(b.address), <<a.name, a.key>>)
  IN CASE b.bound = "resource" -> {IF keyed \in b.instances THEN keyed ELSE b.address}
       [] b.bound = "call" /\ Published(b, a.key) # {} ->
            UNION {b.outputs[k] : k \in Published(b, a.key)}
       [] OTHER -> {AsWritten(a)}

AwaitedIn(expr, names, vars) ==
  UNION {IF IsVar(a) THEN vars[a.name] ELSE Qualify(a, names) : a \in expr}

\* A mutant: a reference to another call is left to the evaluation.
CallReferencesOfResources(d, names) ==
  {b.address : b \in {c \in {BindingOf(names, a.name) : a \in Refs(d.inputs)} :
                        c.bound = "resource"}}
\* The edges of a call's own attributes: a resource, or all a call produced,
\* whichever instance is named.
CallReferences(d, names) ==
  UNION {LET b == BindingOf(names, a.name)
         IN CASE b.bound = "resource" -> {b.address}
              [] b.bound = "call" -> b.addresses
              [] OTHER -> {} : a \in Refs(d.inputs)}

-----------------------------------------------------------------------------
(* Expanding a level. *)

\* What a call's plain attributes read decides which calls come first.  A call
\* that reads itself is passed over here, and by everything after.
Before(decls, n) ==
  {m \in DOMAIN decls : IsCall(decls[m]) /\ m # n /\ \E a \in Refs(decls[n].inputs) : a.name = m}
RECURSIVE Preceding(_, _)
Preceding(decls, ns) ==
  LET more == ns \cup UNION {Before(decls, n) : n \in ns}
  IN IF more = ns THEN ns ELSE Preceding(decls, more)
CallCycle(decls) ==
  \E n \in DOMAIN decls : IsCall(decls[n]) /\ n \in Preceding(decls, Before(decls, n))
\* An order with every call behind those it reads.
CallOrder(decls) ==
  LET depth(n) == Cardinality(Preceding(decls, Before(decls, n)))
  IN SetToSortSeq({n \in DOMAIN decls : IsCall(decls[n])},
                  LAMBDA m, n : depth(m) < depth(n) \/ (depth(m) = depth(n) /\ m < n))

Made(path, n, d) == {Append(path, <<n, k>>) : k \in Keys(d)}

\* Every resource is bound before any call is looked at.  One left out is
\* kept, for the sake of what may be said of it, and is bound to nothing.
BoundResources(level, path) ==
  [n \in {m \in DOMAIN level.decls : ~IsCall(level.decls[m]) /\ ~level.decls[m].skipped} |->
     ResourceBinding(Append(path, <<n, Once>>),
                   IF level.decls[n].each = {} THEN {} ELSE Made(path, n, level.decls[n]))]

Attach(extra, made, more) ==
  [a \in DOMAIN extra \cup made |->
     (IF a \in DOMAIN extra THEN extra[a] ELSE {}) \cup (IF a \in made THEN more ELSE {})]

RECURSIVE ExpandLevel(_, _, _, _)

\* One call, once per key: the module's level with the call's attributes as
\* its variables, then the edges of those attributes on all it produced.
Instantiate(acc, n, d, path, vars, stack) ==
  LET level == Library[d.of]
      supplied == AwaitedIn(d.inputs \cup d.composites, acc.names, vars)
      inner(k) == ExpandLevel(level, Append(path, <<n, k>>), [x \in level.inputs |-> supplied],
                              Append(stack, d.of))
      made == [k \in Keys(d) |-> inner(k)]
      all == UNION {made[k].produced : k \in Keys(d)}
      extras == UNION {{<<a, made[k].extra[a]>> : a \in DOMAIN made[k].extra} : k \in Keys(d)}
      joined == [a \in {e[1] : e \in extras} |-> UNION {e[2] : e \in {f \in extras : f[1] = a}}]
  IN [acc EXCEPT
        !.instances = @ \cup UNION {made[k].instances : k \in Keys(d)},
        !.produced = @ \cup all,
        !.extra = Attach(joined @@ @, all, CallReferences(d, acc.names)),
        !.names = (n :> CallBinding(all, [k \in Keys(d) |-> made[k].outputs])) @@ @,
        !.ok = @ /\ \A k \in Keys(d) : made[k].ok]

\* The call is refused when its module is being expanded already, or is
\* nested too deep.
Refused(d, stack) ==
  \/ d.of \notin DOMAIN Library
  \/ \E i \in DOMAIN stack : stack[i] = d.of
  \/ Len(stack) >= MaxDepth

ExpandCall(acc, n, d, path, vars, stack) ==
  CASE d.skipped -> acc
    [] ~d.skipped /\ Refused(d, stack) -> [acc EXCEPT !.ok = FALSE]
    [] OTHER -> Instantiate(acc, n, d, path, vars, stack)

\* A depends_on that names a call becomes an edge to all it produced, and one
\* written on a call is given to all that produced; a resource is named by the
\* address it would have if it were made once.
CallsAmong(level, acc, ns) ==
  {n \in ns : n \in DOMAIN acc.names /\ acc.names[n].bound = "call"}
\* A mutant: what is written on a call stays on the call.
FanOutToResources(level, acc, path) ==
  LET edge(d) == UNION {acc.names[n].addresses : n \in CallsAmong(level, acc, d.after)}
      given(extra, n) ==
        IF IsCall(level.decls[n]) THEN extra
        ELSE Attach(extra, {Append(path, <<n, Once>>)}, edge(level.decls[n]))
  IN FoldLeft(given, acc.extra, SetToSeq(DOMAIN level.decls))
FanOut(level, acc, path) ==
  LET calls(d) == CallsAmong(level, acc, d.after)
      edge(d) == UNION {acc.names[n].addresses : n \in calls(d)}
      plain(d) == {Append(path, <<n, Once>>) : n \in d.after \ calls(d)}
      given(extra, n) ==
        LET d == level.decls[n]
        IN IF ~IsCall(d) THEN Attach(extra, {Append(path, <<n, Once>>)}, edge(d))
           ELSE IF n \in DOMAIN acc.names
           THEN Attach(extra, acc.names[n].addresses, edge(d) \cup plain(d))
           ELSE extra
  IN FoldLeft(given, acc.extra, SetToSeq(DOMAIN level.decls))

\* A level: its resources, its calls in order, the edges written on either;
\* then what it publishes, read in its own names.
ExpandLevel(level, path, vars, stack) ==
  LET own == {n \in DOMAIN level.decls : ~IsCall(level.decls[n])}
      start == [names |-> BoundResources(level, path),
                produced |-> UNION {Made(path, n, level.decls[n]) :
                                      n \in {m \in own : ~level.decls[m].skipped}},
                instances |-> {}, extra |-> << >>, ok |-> ~CallCycle(level.decls)]
      after == IF start.ok
               THEN FoldLeft(LAMBDA acc, n : ExpandCall(acc, n, level.decls[n], path, vars, stack),
                             start, CallOrder(level.decls))
               ELSE start
      instance(n, a) == [address |-> a, decl |-> level.decls[n], names |-> after.names,
                         vars |-> vars, level |-> level]
      here == UNION {{instance(n, a) : a \in Made(path, n, level.decls[n])} : n \in own}
  IN [after EXCEPT !.instances = @ \cup here, !.extra = FanOut(level, after, path)]
     @@ [outputs |-> AwaitedIn(level.outputs, after.names, vars)]

-----------------------------------------------------------------------------
(* Binding what was expanded. *)

Surviving(instances) == {i \in instances : ~i.decl.skipped}
Declared(instances) == {i.address : i \in Surviving(instances)}

\* A reference to a call waits for the instance it names, or for all of it;
\* the edge is recorded before the call's output takes the reference's place.
RefEdges(i, a) ==
  LET b == BindingOf(i.names, a.name)
  IN IF b.bound = "call"
     THEN IF a.key \in DOMAIN b.outputs \ {Once}
          THEN {x \in b.addresses : x[Len(i.address)] = <<a.name, a.key>>}
          ELSE b.addresses
     ELSE Qualify(a, i.names)

\* What is reported of one reference.
RefRefused(i, a, declared) ==
  LET b == BindingOf(i.names, a.name)
  IN IF b.bound = "call" THEN Published(b, a.key) = {}
     ELSE LET target == CHOOSE t \in Qualify(a, i.names) : TRUE
          IN \/ target \notin declared
                /\ ~(a.name \in DOMAIN i.level.decls /\ i.level.decls[a.name].skipped /\ i.decl.skipped)
             \/ target = i.address

AfterTarget(i, n) == Append(Front(i.address), <<n, Once>>)
AfterIsCall(i, n) == BindingOf(i.names, n).bound = "call"
AfterRefused(i, n, declared) ==
  /\ ~AfterIsCall(i, n)
  /\ \/ AfterTarget(i, n) \notin declared
        /\ ~(n \in DOMAIN i.level.decls /\ i.level.decls[n].skipped /\ i.decl.skipped)
     \/ AfterTarget(i, n) = i.address

Reads(i) == i.decl.inputs \cup i.decl.composites
InstanceEdges(i, extra) ==
  UNION {RefEdges(i, a) : a \in Refs(Reads(i))}
    \cup {AfterTarget(i, n) : n \in {m \in i.decl.after : ~AfterIsCall(i, m)}}
    \cup (IF i.address \in DOMAIN extra THEN extra[i.address] ELSE {})

InstanceRefused(i, declared) ==
  \/ \E a \in Refs(Reads(i)) : RefRefused(i, a, declared)
  \/ \E n \in i.decl.after : AfterRefused(i, n, declared)

\* Edges to addresses that are no resource are passed over.
RECURSIVE Reach(_, _)
Reach(es, as) ==
  LET more == as \cup UNION {es[a] : a \in as \cap DOMAIN es}
  IN IF more = as THEN as ELSE Reach(es, more)
Waits(es, a) == IF a \in DOMAIN es THEN Reach(es, es[a]) ELSE {}

-----------------------------------------------------------------------------

ExpandInit ==
  /\ project \in Projects
  /\ phase = "written" /\ valid = TRUE
  /\ expansion = << >> /\ edges = << >>

\* Stage five: an expansion with an error in it is not looked at again.
Expand ==
  /\ phase = "written"
  /\ phase' = "expanded"
  /\ expansion' = ExpandLevel(project, <<>>, << >>, <<>>)
  /\ valid' = expansion'.ok
  /\ UNCHANGED <<project, edges>>

\* Stages six and eight: the edges of every resource that survives, and the
\* cycle that refuses them.
BindReferences ==
  /\ phase = "expanded" /\ valid
  /\ phase' = "bound"
  /\ LET all == expansion.instances
         declared == Declared(all)
         es == [a \in declared |->
                  UNION {InstanceEdges(i, expansion.extra) : i \in {j \in Surviving(all) : j.address = a}}]
     IN /\ edges' = es
        /\ valid' = /\ \A i \in all : ~InstanceRefused(i, declared)
                    /\ \A a \in declared : a \notin Waits(es, a)
  /\ UNCHANGED <<project, expansion>>

ExpandNext == Expand \/ BindReferences
ExpandSpec == ExpandInit /\ [][ExpandNext]_expandVars

-----------------------------------------------------------------------------
(* Properties. *)

Accepted == phase = "bound" /\ valid

\* What the attributes of a resource cannot be known without.
Awaited(i) == AwaitedIn(Reads(i), i.names, i.vars)

\* A reader that has nothing unknown when its turn comes.
Ordered(i) == Awaited(i) \subseteq Declared(expansion.instances) \cap Waits(edges, i.address)

\* The shapes whose edges are lost: a call that reads through a composite
\* attribute, or reads its own output, or a resource made per key, or a call
\* made per key without saying which, or a name that is not there; and one
\* whose module passes a value through and makes nothing.
ReadsPastEdges(decls) ==
  \E n \in DOMAIN decls :
    LET d == decls[n]
    IN /\ IsCall(d)
       /\ \/ Refs(d.composites) # {}
          \/ \E a \in Refs(d.inputs) :
               \/ a.name = n
               \/ a.name \in DOMAIN decls =>
                    LET t == decls[a.name]
                    IN t.skipped \/ (t.each # {} /\ (IsCall(t) => a.key \notin t.each))
          \/ d.of \in DOMAIN Library /\ DOMAIN Library[d.of].decls = {}

\* What is written: the project's declarations, and those of the modules.
Written == {project.decls} \cup {Library[m].decls : m \in DOMAIN Library}

\* Whatever a resource of an accepted project reads, however many modules the
\* value came through, is declared and made before it: the executor never comes
\* to a resource whose attributes are still unknown.  (Stage five's edges of a
\* call's attributes, stage six's of a reference to a call, both lost if they
\* were taken after the names were replaced.)
ReadsAreOrdered ==
  Accepted /\ ~(\E decls \in Written : ReadsPastEdges(decls)) =>
    \A i \in Surviving(expansion.instances) : Ordered(i)

\* The same of every project: what the comments in expand.go and bind.go say
\* the edges are for.
EveryReadIsOrdered ==
  Accepted => \A i \in Surviving(expansion.instances) : Ordered(i)

\* What a depends_on names: all a call made, all the instances of a resource.
Named(names, n) ==
  LET b == BindingOf(names, n)
  IN CASE b.bound = "call" -> b.addresses
       [] b.bound = "resource" /\ b.instances = {} -> {b.address}
       [] b.bound = "resource" /\ b.instances # {} -> b.instances
       [] OTHER -> {}

\* The levels resources were made at, with what the names meant there.
Levels ==
  {[decls |-> i.level.decls, names |-> i.names, path |-> Front(i.address)] :
     i \in expansion.instances}

\* A depends_on is honoured by everything its declaration turned into, and
\* against everything its target did, unless it is a resource made per key that
\* names a call, or a call that names a resource not made exactly once.
DependsOnHonoured ==
  Accepted =>
    \A l \in Levels : \A n \in DOMAIN l.names : \A m \in l.decls[n].after :
      LET writer == l.decls[n]
          lost == \/ ~IsCall(writer) /\ writer.each # {} /\ BindingOf(l.names, m).bound = "call"
                  \/ IsCall(writer) /\ BindingOf(l.names, m).bound # "call"
                     /\ (m \in DOMAIN l.decls => l.decls[m].each # {} \/ l.decls[m].skipped)
      IN ~lost => \A a \in Named(l.names, n) :
                    Named(l.names, m) \subseteq Waits(edges, a)

=============================================================================
