------------------------------- MODULE Ledger -------------------------------
(***************************************************************************)
(* What an environment's state promises, whoever stores it: writes form    *)
(* one history, each made on top of the last, and only by the one run that *)
(* owns the environment at the time.                                       *)
(***************************************************************************)
EXTENDS Sequences

CONSTANTS Writers, NoWriter

VARIABLES
  owner,      \* the run that owns the environment, or NoWriter
  history     \* who made each write, in order

ledgerVars == <<owner, history>>

LedgerInit == owner = NoWriter /\ history = <<>>

Acquire(w) == owner = NoWriter /\ owner' = w /\ UNCHANGED history

Release(w) == owner = w /\ owner' = NoWriter /\ UNCHANGED history

Write(w) == owner = w /\ history' = Append(history, w) /\ UNCHANGED owner

LedgerNext == \E w \in Writers : Acquire(w) \/ Release(w) \/ Write(w)

LedgerSpec == LedgerInit /\ [][LedgerNext]_ledgerVars
=============================================================================
