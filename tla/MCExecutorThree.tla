-------------------------- MODULE MCExecutorThree --------------------------
(***************************************************************************)
(* Three resources, all of them recorded or none: enough for a provider's  *)
(* ceiling and --parallelism to bind at different times, and for state to  *)
(* lag by more than one operation.                                         *)
(***************************************************************************)
EXTENDS MCExecutor

Three == {1, 2, 3}

ThreeInputs ==
  {i \in UNION {{Input(c, s, NoObs) : c \in Configs(after),
                   s \in {<<>>, StateOn(Addr, before, <<>>, NoGuards)}}
                  : before \in {None, Chain, Fork, Join}, after \in {Chain, Fork, Join}} :
     StartsWhole(i) /\ CleanupAlone(i)}

OnlyErrors == {"error"}
=============================================================================
