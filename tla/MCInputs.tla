------------------------------ MODULE MCInputs ------------------------------
(***************************************************************************)
(* Generators of planning inputs: what a project of a few resources can    *)
(* look like when a command starts.                                        *)
(***************************************************************************)
EXTENDS Planner

\* One resource's configurations against the recorded attributes mut=1,
\* imm=1: unchanged, updated, replaced, replaced with the flag set.
Conf(how, deps) ==
  [mut |-> IF how = "same" THEN 1 ELSE 2,
   imm |-> IF how \in {"replace", "create_first"} THEN 2 ELSE 1,
   cbd |-> how = "create_first",
   refs |-> deps, deps |-> deps, guards |-> NoGuards]

Hows == {"same", "update", "replace", "create_first"}

Rec(a, deps, deposed, guards) ==
  [obj |-> <<a, 0>>,
   attrs |-> [mut |-> 1, imm |-> 1, ref |-> [b \in deps |-> <<b, 0>>]],
   deps |-> deps, guards |-> guards, deposed |-> deposed]

Retained == [NoGuards EXCEPT !.retain = TRUE]

\* The objects earlier replacements left behind, by generation.
LeftOver(a) == <<a, 100>>

Within(deps, D) == \A a \in D : deps[a] \subseteq D

\* Every recorded resource has its dependencies recorded; 1 may have left
\* an object behind, 2 may be retained.
StateOn(D, deps, deposed, guards) ==
  [a \in D |-> Rec(a, deps[a], IF a = 1 THEN deposed ELSE <<>>,
                   IF a = 2 THEN guards ELSE NoGuards)]

States(deps, deposeds, guardss) ==
  {StateOn(D, deps, dp, g) : D \in {E \in SUBSET Addr : Within(deps, E)},
                             dp \in deposeds, g \in guardss}

Configs(deps) ==
  UNION {{[a \in D |-> Conf(how[a], deps[a])] : how \in [D -> Hows]}
           : D \in {E \in SUBSET Addr : Within(deps, E)}}

(***************************************************************************)
(* What the refresh before planning saw: what state says, nothing at all   *)
(* there, or an attribute changed behind the program's back, be it to what *)
(* the configuration has been edited to ask for.                           *)
(***************************************************************************)
NoObs == <<>>

Observations(st) ==
  {NoObs} \cup
  {[b \in {a} |-> [result |-> "gone", attrs |-> NoAttrs]] : a \in DOMAIN st} \cup
  {[b \in {a} |-> [result |-> "found", attrs |-> [st[a].attrs EXCEPT !.mut = m]]]
     : a \in DOMAIN st, m \in {2, 3}}

Input(cfg, st, obs) == [cfg |-> cfg, st |-> st, obs |-> obs, protect |-> FALSE]

(***************************************************************************)
(* Dependency shapes: who depends on whom; an edge may be added, dropped   *)
(* or kept between the recorded state and the configuration.               *)
(***************************************************************************)
None == [a \in Addr |-> {}]
Chain == [a \in Addr |-> IF a = 1 THEN {} ELSE {a - 1}]
Fork == [a \in Addr |-> IF a = 1 THEN {} ELSE {1}]
Join == [a \in Addr |-> IF a = 3 THEN {1, 2} ELSE {}]
=============================================================================
