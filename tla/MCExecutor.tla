----------------------------- MODULE MCExecutor -----------------------------
(***************************************************************************)
(* The executor's instances.  TLC evaluates every constant definition, so  *)
(* the sets of inputs are in a module per size.                            *)
(***************************************************************************)
EXTENDS Executor, MCInputs

\* A cleanup of a left-over object has its address to itself.
CleanupAlone(inp) ==
  \A op \in Compute(inp) : op.addr \in DOMAIN inp.st =>
    inp.st[op.addr].deposed = <<>> \/ op.kind \in {"noop", "destroy_deposed"}

OneProvider == [a \in Addr |-> "p"]
TwoProviders == [a \in Addr |-> IF a = 3 THEN "q" ELSE "p"]
CeilingTwo == [p \in {"p"} |-> 2]
CeilingOneTwo == [p \in {"p", "q"} |-> IF p = "p" THEN 1 ELSE 2]
AnyFault == {"error", "no_state"}

AllOpNodes ==
  [addr : Addr, phase : {"destroy", "create"}, cbd : BOOLEAN,
   kind : {"create", "update", "replace", "destroy", "forget", "destroy_deposed"}]
=============================================================================
