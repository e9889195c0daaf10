----------------------------- MODULE Expressions -----------------------------
(***************************************************************************)
(* One attribute of a resource, from the text a person wrote to the value  *)
(* its provider is given.                                                  *)
(*                                                                         *)
(* An expression is evaluated three times by one evaluator: when the       *)
(* project is compiled, with every variable and secret but no resource;    *)
(* when the plan is made, with the attributes the plan knows; and when the *)
(* operation runs, with what its dependencies turned out to be.  A part    *)
(* that cannot be had yet leaves an unknown that carries the expression    *)
(* still to be evaluated, the rest folded into it.                         *)
(*                                                                         *)
(* Text is a sequence of atoms, and a reference names an attribute of some *)
(* resource by one name: which address it stands for is decided elsewhere. *)
(***************************************************************************)
EXTENDS Naturals, Sequences, FiniteSets
LOCAL INSTANCE SequencesExt
LOCAL INSTANCE TLC

CONSTANTS
  Sources,           \* the expressions a person may write
  Scopes,            \* the variables in scope and their values: a project's, a module's
  Secrets,           \* the secrets that are set and their text
  Templates,         \* the files under templates/, as expressions with holes
  Attributes,        \* the attributes other resources have
  Answers,           \* what those attributes may turn out to be
  SecretAtoms,       \* the atoms that only classified text may hold
  MaxTemplateDepth   \* how far templates nest

VARIABLES
  source,     \* the expression written
  variables,  \* the scope it is written in
  answers,    \* what the attributes turn out to be
  stage,      \* "written", "compiled", "planned" or "applied"
  attribute,  \* the value so far
  accepted,   \* FALSE once a diagnostic stopped the command
  finished,   \* FALSE when the operation found its attribute still unknown
  awaited     \* the attributes the resource is known to depend on

exprVars == <<source, variables, answers, stage, attribute, accepted, finished, awaited>>

-----------------------------------------------------------------------------
(* Values. *)

Nothing == [op |-> "nothing"]
Value(kind, raw, sensitive) ==
  [known |-> TRUE, kind |-> kind, raw |-> raw, sensitive |-> sensitive, expr |-> Nothing]
Text(atoms, sensitive) == Value("text", atoms, sensitive)
Unknown(e, sensitive) ==
  [known |-> FALSE, kind |-> "text", raw |-> <<>>, sensitive |-> sensitive, expr |-> e]

Composite(v) == v.kind \in {"map", "list"}
Literal(v) == [op |-> "literal", value |-> v]

RECURSIVE HasSensitive(_)
HasSensitive(v) ==
  v.sensitive \/ (Composite(v) /\ \E k \in DOMAIN v.raw : HasSensitive(v.raw[k]))

RECURSIVE HasUnknownLeaf(_)
HasUnknownLeaf(v) ==
  IF Composite(v) THEN \E k \in DOMAIN v.raw : HasUnknownLeaf(v.raw[k]) ELSE ~v.known

\* The attributes an expression names, as far as its tree shows: a file is
\* one opaque name.
RECURSIVE References(_)
References(e) ==
  CASE e.op = "ref" -> {e.name}
    [] e.op \in {"concat", "call", "template"} ->
         UNION {References(e.args[i]) : i \in DOMAIN e.args}
    [] e.op = "composite" -> UNION {References(e.leaves[k]) : k \in DOMAIN e.leaves}
    [] OTHER -> {}

-----------------------------------------------------------------------------
(* The evaluator.  A result is a value, and whether no error was reported. *)

Ok(v) == [value |-> v, ok |-> TRUE]
Failed(e, sensitive) == [value |-> Unknown(e, sensitive), ok |-> FALSE]

\* A mutant: the entry is classified as it is found.
RECURSIVE ApplyPathAsFound(_, _, _, _)
ApplyPathAsFound(e, v, path, sensitive) ==
  CASE path = <<>> -> Ok(v)
    [] path # <<>> /\ ~v.known -> Ok(Unknown(e, FALSE))
    [] path # <<>> /\ v.known /\ Composite(v) /\ Head(path) \in DOMAIN v.raw ->
         ApplyPathAsFound(e, v.raw[Head(path)], Tail(path), FALSE)
    [] OTHER -> Failed(e, FALSE)

\* A step into a value nobody has seen leaves the whole reference for later;
\* classification adds up along the way.
RECURSIVE ApplyPath(_, _, _, _)
ApplyPath(e, v, path, sensitive) ==
  LET classified == sensitive \/ v.sensitive
  IN CASE path = <<>> -> Ok([v EXCEPT !.sensitive = classified])
       [] path # <<>> /\ ~v.known -> Ok(Unknown(e, FALSE))
       [] path # <<>> /\ v.known /\ Composite(v) /\ Head(path) \in DOMAIN v.raw ->
            ApplyPath(e, v.raw[Head(path)], Tail(path), classified)
       [] OTHER -> Failed(e, FALSE)

\* A mutant: an unknown part is kept as it was written.
ResidualOfSource(e, parts) ==
  [e EXCEPT !.args = [i \in DOMAIN e.args |->
     IF parts[i].known THEN Literal(parts[i]) ELSE e.args[i]]]

\* What is left of an expression once every part that can be had is: a known
\* part becomes a literal, an unknown one its own remainder.
Residual(e, parts) ==
  [e EXCEPT !.args = [i \in DOMAIN e.args |->
     IF parts[i].known THEN Literal(parts[i])
     ELSE IF parts[i].expr # Nothing THEN parts[i].expr
     ELSE e.args[i]]]

AnySensitive(vs) == \E i \in DOMAIN vs : HasSensitive(vs[i])
AllKnown(vs) == \A i \in DOMAIN vs : vs[i].known

Concat(e, results) ==
  LET refused(v) == v.known /\ Composite(v)
      parts == [i \in DOMAIN results |->
                  IF refused(results[i].value) THEN Unknown(Nothing, FALSE)
                  ELSE results[i].value]
      classified == \E i \in DOMAIN results : results[i].value.sensitive
  IN [ok |-> \A i \in DOMAIN results : results[i].ok /\ ~refused(results[i].value),
      value |-> IF AllKnown(parts)
                THEN Text(FlattenSeq([i \in DOMAIN parts |-> parts[i].raw]), classified)
                ELSE Unknown(Residual(e, parts), classified)]

LowerAtom == "S" :> "s" @@ "A" :> "a"
Lower(atoms) ==
  [i \in DOMAIN atoms |->
     IF atoms[i] \in DOMAIN LowerAtom THEN LowerAtom[atoms[i]] ELSE atoms[i]]
KnownText(v) == v.known /\ v.kind = "text"
Blank(v) == KnownText(v) /\ v.raw = <<>>

\* merge() classifies each entry it takes, and not the map.
Merged(vs) ==
  LET given(v) == [k \in DOMAIN v.raw |->
                     IF v.sensitive THEN [v.raw[k] EXCEPT !.sensitive = TRUE] ELSE v.raw[k]]
  IN FoldLeft(LAMBDA all, v : given(v) @@ all, << >>, vs)

\* The built-in functions; no answer is an error.  default() is the one that
\* looks at whether its value is known.
Builtin(function, vs) ==
  CASE function = "lower" /\ KnownText(vs[1]) ->
         {Text(Lower(vs[1].raw), AnySensitive(vs))}
    [] function = "join" /\ KnownText(vs[1]) /\ vs[2].kind = "list"
                         /\ (\A k \in DOMAIN vs[2].raw : KnownText(vs[2].raw[k])) ->
         {Text(vs[2].raw["0"].raw \o vs[1].raw \o vs[2].raw["1"].raw, AnySensitive(vs))}
    [] function = "default" ->
         {IF ~vs[1].known \/ Blank(vs[1]) THEN vs[2] ELSE vs[1]}
    [] function = "merge" /\ (\A i \in DOMAIN vs : vs[i].kind = "map") ->
         {Value("map", Merged(vs), FALSE)}
    [] OTHER -> {}

Call(e, results) ==
  LET args == [i \in DOMAIN results |-> results[i].value]
      classified == \E i \in DOMAIN args : args[i].sensitive
      argsOk == \A i \in DOMAIN results : results[i].ok
      answer == Builtin(e.function, args)
  IN IF ~AllKnown(args) /\ e.function # "default"
     THEN [ok |-> argsOk, value |-> Unknown(Residual(e, args), classified)]
     ELSE IF answer = {} THEN Failed(e, classified)
     ELSE LET out == CHOOSE v \in answer : TRUE
          IN [ok |-> argsOk,
              value |-> IF out.known
                        THEN [out EXCEPT !.sensitive = @ \/ classified]
                        ELSE Unknown(e, out.sensitive \/ classified)]

\* The {{ }} pass: a hole takes the text of one entry of the argument, and
\* becomes plain text of the file.
RECURSIVE Render(_, _)
Render(e, data) ==
  CASE e.op = "hole" -> Literal(Text(data[e.name].raw, FALSE))
    [] e.op \in {"concat", "call"} ->
         [e EXCEPT !.args = [i \in DOMAIN e.args |-> Render(e.args[i], data)]]
    [] OTHER -> e
RECURSIVE Holes(_)
Holes(e) ==
  CASE e.op = "hole" -> {e.name}
    [] e.op \in {"concat", "call"} -> UNION {Holes(e.args[i]) : i \in DOMAIN e.args}
    [] OTHER -> {}

RECURSIVE Evaluate(_, _)

\* The argument first, then the file in the caller's own scope, one level
\* deeper.
Template(e, scope) ==
  LET content == scope.templates[e.name]
      arg == Evaluate(e.args[1], scope)
      given == e.args # <<>>
      usable == arg.value.kind = "map"
      whole == \A k \in DOMAIN arg.value.raw : arg.value.raw[k].known
      classified == given /\ HasSensitive(arg.value)
      out == Evaluate(IF given THEN Render(content, arg.value.raw) ELSE content,
                      [scope EXCEPT !.depth = @ + 1])
  IN CASE e.name \notin DOMAIN scope.templates -> Failed(e, FALSE)
       [] e.name \in DOMAIN scope.templates /\ scope.depth >= MaxTemplateDepth -> Failed(e, FALSE)
       [] OTHER ->
            IF given /\ arg.value.known /\ ~usable THEN Failed(e, FALSE)
            ELSE IF given /\ (~arg.value.known \/ ~whole)
            THEN [ok |-> arg.ok, value |-> Unknown(e, classified)]
            ELSE IF given /\ ~(Holes(content) \subseteq DOMAIN arg.value.raw)
            THEN Failed(e, classified)
            ELSE [ok |-> (given => arg.ok) /\ out.ok,
                  value |-> [out.value EXCEPT !.sensitive = @ \/ classified]]

Evaluate(e, scope) ==
  CASE e.op = "literal" -> Ok(e.value)
    [] e.op = "var" ->
         IF e.name \in DOMAIN scope.variables
         THEN ApplyPath(e, scope.variables[e.name], e.path, FALSE)
         ELSE Failed(e, FALSE)
    [] e.op = "ref" ->
         IF e.name \in DOMAIN scope.attributes /\ scope.attributes[e.name].known
         THEN ApplyPath(e, scope.attributes[e.name], e.path, FALSE)
         ELSE Ok(Unknown(e, FALSE))
    [] e.op = "secret" ->
         IF e.name \in DOMAIN scope.secrets THEN Ok(Text(scope.secrets[e.name], TRUE))
         ELSE Failed(e, TRUE)
    [] e.op = "template" -> Template(e, scope)
    [] e.op = "concat" -> Concat(e, [i \in DOMAIN e.args |-> Evaluate(e.args[i], scope)])
    [] e.op = "call" -> Call(e, [i \in DOMAIN e.args |-> Evaluate(e.args[i], scope)])

\* The first pass has everything but resources; the later two have nothing
\* but resources.
CompileScope ==
  [variables |-> variables, secrets |-> Secrets, templates |-> Templates,
   attributes |-> << >>, depth |-> 0]
ResourceScope(known) ==
  [variables |-> << >>, secrets |-> << >>, templates |-> << >>,
   attributes |-> [a \in known |-> answers[a]], depth |-> 0]

-----------------------------------------------------------------------------
(* A value taken up again. *)

\* A map is walked: every leaf still unknown is evaluated, and kept when it
\* stays unknown.
RECURSIVE WalkDeferred(_, _)
WalkDeferred(v, scope) ==
  IF Composite(v)
  THEN LET items == [k \in DOMAIN v.raw |-> WalkDeferred(v.raw[k], scope)]
       IN [ok |-> \A k \in DOMAIN items : items[k].ok,
           value |-> [v EXCEPT !.raw = [k \in DOMAIN items |-> items[k].value]]]
  ELSE IF v.known \/ v.expr = Nothing THEN Ok(v)
  ELSE LET out == Evaluate(v.expr, scope)
       IN [out EXCEPT !.value = IF @.known THEN @ ELSE v]

\* All of it or nothing: a map with a leaf missing stays as it was.
\* "open": the attribute is still unknown though nothing failed.
ResolveDeferred(v, scope) ==
  LET out == WalkDeferred(v, scope)
      whole == IF Composite(v) THEN ~HasUnknownLeaf(out.value) ELSE out.value.known
  IN [ok |-> out.ok,
      open |-> out.ok /\ ~whole,
      value |-> CASE ~whole -> v
                  [] whole /\ Composite(v) -> [out.value EXCEPT !.known = TRUE]
                  [] OTHER -> out.value]

\* A map written with expressions in it is unknown while a leaf is.
Bind(e) ==
  IF e.op # "composite" THEN Evaluate(e, CompileScope)
  ELSE LET items == [k \in DOMAIN e.leaves |-> Evaluate(e.leaves[k], CompileScope)]
           all == Value("map", [k \in DOMAIN items |-> items[k].value], FALSE)
       IN [ok |-> \A k \in DOMAIN items : items[k].ok,
           value |-> [all EXCEPT !.known = ~HasUnknownLeaf(all)]]

-----------------------------------------------------------------------------
(* The three passes. *)

\* The attributes a variable of a module stands for: everything its call
\* produces waits for them.
RECURSIVE Behind(_)
Behind(v) ==
  IF Composite(v) THEN UNION {Behind(v.raw[k]) : k \in DOMAIN v.raw}
  ELSE IF v.known THEN {} ELSE References(v.expr)
\* A mutant: what a module reads through its inputs is not waited for.
CallAwaitsNothing == {}
CallAwaits == UNION {Behind(variables[n]) : n \in DOMAIN variables}

ExprInit ==
  /\ source \in Sources /\ variables \in Scopes
  /\ answers \in Answers
  /\ stage = "written" /\ attribute = Unknown(Nothing, FALSE)
  /\ accepted = TRUE /\ finished = TRUE /\ awaited = {}

Compile ==
  /\ stage = "written"
  /\ stage' = "compiled"
  /\ LET out == Bind(source)
     IN attribute' = out.value /\ accepted' = out.ok
  /\ awaited' = References(source) \cup CallAwaits
  /\ UNCHANGED <<source, variables, answers, finished>>

\* The plan knows some attributes already; a reference it cannot finish is
\* left as it is.
Plan ==
  /\ stage = "compiled" /\ accepted
  /\ stage' = "planned"
  /\ \E known \in SUBSET Attributes :
       LET out == ResolveDeferred(attribute, ResourceScope(known))
       IN attribute' = out.value /\ accepted' = out.ok
  /\ UNCHANGED <<source, variables, answers, finished, awaited>>

\* The operation runs once everything the resource depends on is there, and
\* perhaps more; an attribute still unknown is an error.
Apply ==
  /\ stage = "planned" /\ accepted
  /\ stage' = "applied"
  /\ \E known \in SUBSET Attributes :
       /\ awaited \subseteq known
       /\ LET out == ResolveDeferred(attribute, ResourceScope(known))
          IN /\ attribute' = out.value /\ accepted' = out.ok
             /\ finished' = ~out.open
  /\ UNCHANGED <<source, variables, answers, awaited>>

ExprNext == Compile \/ Plan \/ Apply
ExprSpec == ExprInit /\ [][ExprNext]_exprVars

-----------------------------------------------------------------------------
(* What deferring an expression may not change. *)

\* The same expression evaluated once, with everything there.
Settled(v) == WalkDeferred(v, ResourceScope(Attributes)).value
Direct ==
  LET scope == [CompileScope EXCEPT
                  !.variables = [n \in DOMAIN variables |-> Settled(variables[n])],
                  !.attributes = answers]
      leaf(e) == Evaluate(e, scope)
  IN IF source.op # "composite" THEN leaf(source)
     ELSE [ok |-> \A k \in DOMAIN source.leaves : leaf(source.leaves[k]).ok,
           value |-> Value("map", [k \in DOMAIN source.leaves |->
                                     leaf(source.leaves[k]).value], FALSE)]

\* default() answers even when a part of it is not known, so what it chooses,
\* and whether the part it leaves aside classifies it, depends on when it is
\* asked.
RECURSIVE AsksEarly(_)
AsksEarly(e) ==
  \/ /\ e.op = "call" /\ e.function = "default"
     /\ \E i \in 1..2 : ~Evaluate(e.args[i], CompileScope).value.known
  \/ /\ e.op \in {"concat", "call", "template"}
     /\ \E i \in DOMAIN e.args : AsksEarly(e.args[i])
  \/ e.op = "composite" /\ \E k \in DOMAIN e.leaves : AsksEarly(e.leaves[k])

\* The attributes files name, which no tree of the configuration shows.
RECURSIVE InFiles(_)
InFiles(e) ==
  CASE e.op = "template" ->
         (IF e.name \in DOMAIN Templates
          THEN References(Templates[e.name]) \cup InFiles(Templates[e.name]) ELSE {})
         \cup UNION {InFiles(e.args[i]) : i \in DOMAIN e.args}
    [] e.op \in {"concat", "call"} -> UNION {InFiles(e.args[i]) : i \in DOMAIN e.args}
    [] e.op = "composite" -> UNION {InFiles(e.leaves[k]) : k \in DOMAIN e.leaves}
    [] OTHER -> {}

\* A file given a secret as its argument holds it as plain text; only the
\* whole document is classified, and a document deferred is not.
RECURSIVE HandsOver(_)
HandsOver(e) ==
  CASE e.op = "template" -> e.args # <<>> /\ HasSensitive(Evaluate(e.args[1], CompileScope).value)
    [] e.op \in {"concat", "call"} -> \E i \in DOMAIN e.args : HandsOver(e.args[i])
    [] e.op = "composite" -> \E k \in DOMAIN e.leaves : HandsOver(e.leaves[k])
    [] OTHER -> FALSE

\* What a later pass has no answer to: a step into a variable whose value is
\* not known, and a file whose argument is not.
RECURSIVE Stranded(_)
Stranded(e) ==
  \/ e.op = "var" /\ e.path # <<>> /\ e.name \in DOMAIN variables /\ ~variables[e.name].known
  \/ /\ e.op = "template" /\ e.args # <<>>
     /\ HasUnknownLeaf(Evaluate(e.args[1], CompileScope).value)
  \/ e.op \in {"concat", "call", "template"} /\ \E i \in DOMAIN e.args : Stranded(e.args[i])
  \/ e.op = "composite" /\ \E k \in DOMAIN e.leaves : Stranded(e.leaves[k])

\* Folding what is known now and finishing the rest later comes to what one
\* evaluation with everything there comes to: the same value with the same
\* classification, at whichever pass it is finished, and an error only where
\* that has one.
DeferralIsFaithful ==
  (stage # "written" /\ ~AsksEarly(source) /\ ~HandsOver(source) /\ ~Stranded(source))
    => LET once == Direct
       IN /\ once.ok => accepted
          /\ (accepted /\ ~HasUnknownLeaf(attribute))
               => /\ once.ok /\ attribute.kind = once.value.kind
                  /\ attribute = once.value

\* Text that came from a secret is classified wherever it is: in a value, in
\* an entry of one, and in what is folded into an expression for later.
RECURSIVE Bare(_, _)
RECURSIVE BareIn(_)
Bare(v, covered) ==
  CASE Composite(v) -> \E k \in DOMAIN v.raw : Bare(v.raw[k], covered \/ v.sensitive)
    [] ~Composite(v) /\ ~v.known -> BareIn(v.expr)
    [] OTHER -> /\ ~covered /\ ~v.sensitive
                /\ \E i \in DOMAIN v.raw : v.raw[i] \in SecretAtoms
BareIn(e) ==
  CASE e.op = "literal" -> Bare(e.value, FALSE)
    [] e.op \in {"concat", "call", "template"} -> \E i \in DOMAIN e.args : BareIn(e.args[i])
    [] OTHER -> FALSE

SecretsStaySecret == ~HandsOver(source) => ~Bare(attribute, FALSE)

\* A known map with an unknown entry is folded whole into a call that is
\* deferred; evaluating the call does not look into it.
RECURSIVE FoldsOpenMap(_)
FoldsOpenMap(e) ==
  \/ /\ e.op = "call"
     /\ LET v(i) == Evaluate(e.args[i], CompileScope).value
        IN /\ \E i \in DOMAIN e.args : v(i).known /\ HasUnknownLeaf(v(i))
           /\ \E i \in DOMAIN e.args : ~v(i).known
  \/ /\ e.op \in {"concat", "call", "template"}
     /\ \E i \in DOMAIN e.args : FoldsOpenMap(e.args[i])
  \/ e.op = "composite" /\ \E k \in DOMAIN e.leaves : FoldsOpenMap(e.leaves[k])

\* An operation that waits for what its configuration names finds everything
\* it needs: nothing of its attribute is still unknown after its dependencies
\* were applied.
WaitingIsEnough ==
  (/\ stage = "applied" /\ accepted
   /\ InFiles(source) \subseteq awaited /\ ~FoldsOpenMap(source))
    => finished /\ ~HasUnknownLeaf(attribute)

\* What the documentation says of files: a reference inside one makes the
\* resource depend on what it names.
FilesWaitToo == (stage = "applied" /\ accepted) => finished

\* What the comments say of a deferred expression: the later passes can take
\* it up, so one that evaluates with everything there is never refused.
DeferredFinishes ==
  (stage \in {"planned", "applied"} /\ Direct.ok) => accepted
=============================================================================
