--------------------------- MODULE MCExecutorTwo ---------------------------
(***************************************************************************)
(* Two resources: every configuration against every state, with an edge    *)
(* between them kept, added or dropped.                                    *)
(***************************************************************************)
EXTENDS MCExecutor

Two == {1, 2}

Inputs2(deposeds) ==
  UNION {UNION {{Input(c, s, o) : c \in Configs(after), o \in Observations(s)}
                  : s \in States(before, deposeds, {NoGuards, Retained})}
           : before \in {None, Chain}, after \in {None, Chain}}

(* Guards of the environment, of blocks, and recorded with the second.     *)
Unreplaceable == [NoGuards EXCEPT !.prevent_replace = TRUE]
Prevented == [NoGuards EXCEPT !.prevent_destroy = TRUE]
Guarding(c, s, g, p) ==
  [Input([a \in DOMAIN c |-> [c[a] EXCEPT !.guards = g]], s, NoObs) EXCEPT !.protect = p]
GuardedInputs ==
  {Guarding(c, s, g, p) :
     c \in Configs(Chain), s \in States(Chain, {<<>>, <<LeftOver(1)>>}, {NoGuards, Retained, Prevented}),
     g \in {NoGuards, Unreplaceable}, p \in BOOLEAN}

TwoInputs ==
  {i \in Inputs2({<<>>, <<LeftOver(1)>>}) \cup GuardedInputs : DependentsKept(i) /\ CleanupAlone(i)}

\* A left-over object, and one kind of operation at the same address.
LeftOverAnd(kinds) ==
  {i \in Inputs2({<<LeftOver(1)>>}) :
     /\ DependentsKept(i) /\ i.obs = NoObs
     /\ \E op \in Compute(i) : op.addr = 1 /\ op.kind \in kinds}

LeftOverAndUpdate == LeftOverAnd({"update"})

LeftOverAndReplace ==
  {i \in LeftOverAnd({"replace"}) : 1 \in DOMAIN i.cfg /\ i.cfg[1].cbd}

\* A dependent leaves configuration and is destroyed while what it depended
\* on is replaced, the new object first.
DroppedDependentInputs ==
  {i \in Inputs2({<<>>}) : i.obs = NoObs /\
     \E p, q \in Compute(i) :
       /\ p.kind = "destroy" /\ p.addr = 2
       /\ q.kind = "replace" /\ q.cbd /\ q.addr \in i.st[2].deps}

NoFaults == {}
OnlyErrors == {"error"}
=============================================================================
