--------------------------- MODULE MCConfiguration ---------------------------
(***************************************************************************)
(* The four sides of the configuration language on small inputs: what an   *)
(* attribute evaluates to over the three passes, what modules expand to    *)
(* and in which order, which value a variable takes, and which provider    *)
(* instance a resource is in.  They share no state here: each behaviour is *)
(* about one of them.                                                      *)
(***************************************************************************)
EXTENDS Expressions, Expansion, Scopes, Instances
LOCAL INSTANCE TLC

VARIABLE part  \* which of the four this behaviour is about

-----------------------------------------------------------------------------
(* Attributes: every expression one operation deep over sixteen leaves, and *)
(* a selection two deep; one text is classified wherever it stands.         *)

A == Text(<<"A">>, FALSE)
S(flag) == Text(<<"S">>, flag)
Empty == Text(<<>>, FALSE)
Attr(a, p) == [op |-> "ref", name |-> a, path |-> p]
Variable(n, p) == [op |-> "var", name |-> n, path |-> p]
Secret == [op |-> "secret", name |-> "pw"]
Cat(x, y) == [op |-> "concat", args |-> <<x, y>>]
Fn(f, x, y) == [op |-> "call", function |-> f, args |-> <<x, y>>]
Lo(x) == [op |-> "call", function |-> "lower", args |-> <<x>>]
File(n, args) == [op |-> "template", name |-> n, args |-> args]
Comp(x, y) == [op |-> "composite", leaves |-> [k |-> x, j |-> y]]

OfProject ==
  [blank |-> Empty,
   obj |-> Value("map", [k |-> S(FALSE), j |-> A], TRUE),
   lst |-> Value("list", "0" :> A @@ "1" :> S(TRUE), FALSE)]
\* A module's inputs may be values not known yet, or hold one.
OfModule ==
  OfProject @@
  [later |-> Unknown(Attr("id", <<>>), FALSE),
   deep |-> Unknown(Attr("tags", <<>>), FALSE),
   box |-> Value("map", [k |-> Unknown(Attr("id", <<>>), FALSE), j |-> A], FALSE)]
MCScopes == {OfProject, OfModule}
MCSecrets == [pw |-> <<"S">>]
\* A file with a reference, one with a hole, one that uses another, one that
\* uses itself.
MCTemplates ==
  [plain |-> Cat(Literal(A), Attr("id", <<>>)),
   holed |-> Cat([op |-> "hole", name |-> "k"], Attr("id", <<>>)),
   outer |-> Cat(File("plain", <<>>), Secret),
   loop |-> Cat(Literal(A), File("loop", <<>>))]
MCAnswers ==
  {[id |-> S(TRUE), tags |-> Value("map", [k |-> A, j |-> S(FALSE)], TRUE)],
   [id |-> Empty, tags |-> Value("map", [k |-> S(TRUE), j |-> A], FALSE)]}
Leaves ==
  {Literal(A), Literal(Empty), Variable("blank", <<>>), Variable("obj", <<"k">>), Variable("obj", <<>>),
   Variable("lst", <<>>), Variable("later", <<>>), Variable("deep", <<"k">>),
   Variable("box", <<"k">>), Variable("box", <<>>), Variable("missing", <<>>),
   Attr("id", <<>>), Attr("tags", <<>>), Attr("tags", <<"k">>), Attr("tags", <<"j">>), Secret}
OneDeep ==
  {Cat(x, y) : x, y \in Leaves} \cup {Fn("default", x, y) : x, y \in Leaves}
  \cup {Fn("merge", x, y) : x, y \in Leaves} \cup {Lo(x) : x \in Leaves}
  \cup {Fn("join", x, y) : x \in {Literal(A), Secret, Attr("id", <<>>)}, y \in Leaves}
  \cup {File(n, <<>>) : n \in {"plain", "outer", "loop", "gone"}}
  \cup {File("holed", <<x>>) : x \in Leaves}
Few == {Attr("id", <<>>), Variable("obj", <<"k">>)}
TwoDeep ==
  {Cat(x, y) : x \in OneDeep, y \in Few} \cup {Fn("default", x, y) : x \in OneDeep, y \in Few}
  \cup {Fn("default", x, y) : x \in Few, y \in OneDeep} \cup {Lo(x) : x \in OneDeep}
  \cup {Fn("merge", x, y) : x \in OneDeep, y \in {Variable("obj", <<>>), Attr("tags", <<>>)}}
  \cup {File("holed", <<x>>) : x \in OneDeep}
  \cup {Comp(x, y) : x \in OneDeep, y \in Few}
MCSources == Leaves \cup OneDeep \cup TwoDeep

-----------------------------------------------------------------------------
(* Projects: three declarations, each a resource or a call, over five        *)
(* modules of which one calls another, one itself, and one nests too deep.   *)
(* The first may name any of the three, itself too.                          *)

Decl(of, each, skipped, inputs, composites, after) ==
  [of |-> of, each |-> each, skipped |-> skipped, inputs |-> inputs,
   composites |-> composites, after |-> after]
Simple(of, inputs, after) == Decl(of, {}, FALSE, inputs, {}, after)
Level(inputs, decls, outputs) == [inputs |-> inputs, decls |-> decls, outputs |-> outputs]
MCLibrary ==
  [leaf |-> Level({"x"}, 1 :> Simple("resource", {Var("x")}, {}), {Ref(1, Once)}),
   pass |-> Level({"x"}, << >>, {Var("x")}),
   nest |-> Level({"x"}, 1 :> Simple("leaf", {Var("x")}, {})
                      @@ 2 :> Simple("resource", {Ref(1, Once)}, {1}), {Ref(2, Once)}),
   loop |-> Level({"x"}, 1 :> Simple("loop", {}, {}), {}),
   deep |-> Level({"x"}, 1 :> Simple("nest", {Var("x")}, {}), {})]
TwoKeys == {"k", "l"}
ReadsOf(ns) == {{}} \cup {{Ref(n, k)} : n \in ns, k \in {Once, "k"}}
First ==
  {Decl(of, each, FALSE, r, {}, after) :
     of \in {"resource", "leaf", "nest"}, each \in {{}, TwoKeys},
     r \in ReadsOf({1, 2, 3}), after \in {{}, {1}, {2}, {3}}}
  \cup {Decl(of, {}, FALSE, {}, {Ref(3, Once)}, {}) : of \in {"resource", "leaf"}}
  \cup {Simple("loop", {}, {}), Simple("deep", {}, {})}
Second ==
  {Simple(of, r, after) :
     of \in {"resource", "leaf"}, r \in {{}, {Ref(1, Once)}, {Ref(3, Once)}}, after \in {{}, {1}}}
Third ==
  {Simple(of, {}, {}) : of \in {"resource", "leaf", "nest", "pass"}}
  \cup {Decl(of, TwoKeys, FALSE, {}, {}, {}) : of \in {"resource", "leaf"}}
  \cup {Decl(of, {}, TRUE, {}, {}, {}) : of \in {"resource", "leaf"}}
  \cup {Simple("pass", {Ref(2, Once)}, {})}
MCProjects == {Level({}, <<a, b, c>>, {}) : a \in First, b \in Second, c \in Third}

-----------------------------------------------------------------------------
(* Variables: one that is declared, one the run supplies, two directories    *)
(* and up to three environments, whose chain may break or bite its tail.     *)

Env(e, s, g) == [extends |-> e, sets |-> s, guards |-> g]
Either(n) == {<< >>, n :> TRUE, n :> FALSE}
Ordinary ==
  [environment |-> "prod", declared |-> "size" :> "default", base |-> << >>,
   directories |-> "db" :> ("size" :> TRUE), varFile |-> << >>, vars |-> << >>,
   environments |-> << >>]
Chains ==
  {[Ordinary EXCEPT !.environments =
      [prod |-> Env(a, << >>, f), shared |-> Env(b, "size" :> TRUE, g), root |-> Env(c, "size" :> TRUE, h)]] :
     a \in {"shared", "prod", Nobody}, b \in {"root", "prod", "gone", Nobody},
     c \in {Nobody, "shared", "prod"},
     f \in Either("approval"), g \in Either("approval"), h \in Either("destroy")}
Selections ==
  {[Ordinary EXCEPT !.environment = e, !.environments = "prod" :> Env(Nobody, << >>, << >>)] :
     e \in {Nobody, "gone", "prod"}}
Ladders ==
  {[environment |-> e, declared |-> d, base |-> b,
    directories |-> ("db" :> x @@ "app" :> y), varFile |-> f, vars |-> v,
    environments |-> [prod |-> Env("root", p, << >>), root |-> Env(Nobody, r, << >>)]] :
     e \in {"prod", Nobody},
     d \in {<< >>, "size" :> "default", "size" :> "bare", "name" :> "bare"},
     b \in Either("size"), x \in Either("size"), y \in {<< >>, "name" :> TRUE},
     f \in Either("size") \cup {"name" :> TRUE}, v \in Either("size") \cup {"name" :> TRUE},
     p \in Either("size"), r \in {<< >>, "size" :> TRUE}}
MCConfigs == {Ordinary} \cup Chains \cup Selections \cup Ladders

-----------------------------------------------------------------------------
(* Instances: none, one or two entries of two plugins that can be loaded,    *)
(* and two resources, at the root or in a module, one of a third plugin.     *)

Entry(p, n, c, d) == [plugin |-> p, name |-> n, config |-> c, default |-> d]
Resource(p, own, inherited, nested) == [plugin |-> p, own |-> own, inherited |-> inherited, nested |-> nested]
Entries ==
  {<< >>}
  \cup {<<Entry(p, n, c, FALSE)>> : p \in {"aws", "gcp"}, n \in {Unnamed, "main"}, c \in {Anywhere, "acct", PerEnvironment, OfResource}}
  \cup {<<Entry(p, Unnamed, "acct", d), Entry(q, n, PerEnvironment, e)>> :
          p \in {"aws", "gcp"}, q \in {"aws", "gcp"}, n \in {Unnamed, "main"}, d, e \in BOOLEAN}
Resources ==
  {Resource("aws", Unnamed, Unnamed, FALSE), Resource("aws", "main", Unnamed, FALSE),
   Resource("aws", Unnamed, Unnamed, TRUE), Resource("aws", Unnamed, "main", TRUE),
   Resource("gcp", Unnamed, Unnamed, FALSE), Resource("gcp", Unnamed, Unnamed, TRUE),
   Resource("azure", Unnamed, Unnamed, TRUE)}
MCSetups ==
  {[entries |-> e, pinned |-> {}, resources |-> {r, s}] :
     e \in Entries, r \in Resources, s \in Resources}
  \cup {[entries |-> e, pinned |-> {"aws"}, resources |-> {r}] : e \in Entries, r \in Resources}

-----------------------------------------------------------------------------

\* The parts a behaviour is not about start from one input and stay there.
ExprIdle ==
  source = Literal(A) /\ variables = OfProject /\ answers = (CHOOSE a \in MCAnswers : TRUE) /\ ExprInit
ExpandIdle == project = (CHOOSE p \in MCProjects : TRUE) /\ ExpandInit
ScopesIdle == config = Ordinary /\ ScopesInit
InstIdle == setup = (CHOOSE s \in MCSetups : TRUE) /\ InstInit
Init ==
  \/ part = "attribute" /\ ExpandIdle /\ ScopesIdle /\ InstIdle /\ ExprInit
  \/ part = "expansion" /\ ExprIdle /\ ScopesIdle /\ InstIdle /\ ExpandInit
  \/ part = "variables" /\ ExprIdle /\ ExpandIdle /\ InstIdle /\ ScopesInit
  \/ part = "instances" /\ ExprIdle /\ ExpandIdle /\ ScopesIdle /\ InstInit
Next ==
  \/ part = "attribute" /\ ExprNext /\ UNCHANGED <<part, expandVars, scopeVars, instVars>>
  \/ part = "expansion" /\ ExpandNext /\ UNCHANGED <<part, exprVars, scopeVars, instVars>>
  \/ part = "variables" /\ ScopesNext /\ UNCHANGED <<part, exprVars, expandVars, instVars>>
  \/ part = "instances" /\ InstNext /\ UNCHANGED <<part, exprVars, expandVars, scopeVars>>
Spec == Init /\ [][Next]_<<part, exprVars, expandVars, scopeVars, instVars>>
=============================================================================
