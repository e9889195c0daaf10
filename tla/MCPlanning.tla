----------------------------- MODULE MCPlanning -----------------------------
(***************************************************************************)
(* Three resources and every edge the blocks may add, drop or turn round.  *)
(* The middle one, with dependents and dependencies of its own, is the one *)
(* a block guards and a refresh may see drifted, gone or not at all.       *)
(***************************************************************************)
EXTENDS Planning, MCInputs

Two == {1, 2}
Three == {1, 2, 3}
Middle == 2

Protected == [NoGuards EXCEPT !.prevent_destroy = TRUE]

Start(st, protect) == [Input(<<>>, st, NoObs) EXCEPT !.protect = protect]

AnyStart ==
  {Start(<<>>, TRUE),
   Start(StateOn(Addr, Chain, <<LeftOver(1)>>, Retained), FALSE),
   Start(StateOn(Addr, Fork, <<>>, Protected), FALSE),
   Start(StateOn(Addr, Join, <<>>, Retained), TRUE),
   Start(StateOn(Addr, Join, <<>>, NoGuards), FALSE)}

UnguardedStart == {Start(StateOn(Addr, Chain, <<>>, NoGuards), FALSE)}

\* A block refers to what it depends on.
AnyBlock(a) ==
  {[Conf(how, deps) EXCEPT !.guards.prevent_replace = g] :
     how \in Hows, deps \in SUBSET (Addr \ {a}), g \in {FALSE, a = Middle}}

AnySighting(rs) ==
  IF rs.obj[1] # Middle THEN {}
  ELSE {[result |-> "gone", attrs |-> NoAttrs], [result |-> "error", attrs |-> NoAttrs],
        [result |-> "found", attrs |-> [rs.attrs EXCEPT !.mut = 3]]}

NoSighting(rs) == {}
=============================================================================
