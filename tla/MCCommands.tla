----------------------------- MODULE MCCommands -----------------------------
(***************************************************************************)
(* The commands of one project, and the migration of its state from one    *)
(* backend to another.  They share nothing here, so a behaviour is one of  *)
(* the two.                                                                *)
(*                                                                         *)
(* Two sessions over two environments and an account of four objects.      *)
(* Two environments to migrate, so that a migration may stop between them; *)
(* beside it a client of each checkout, the old one's for the environment  *)
(* that is copied second: it may change before, while and after the first  *)
(* is.                                                                     *)
(***************************************************************************)
EXTENDS Commands, Migration, TLC

CONSTANTS s1, s2, c1, c2, m1

VARIABLE part
projectVars == <<commandVars, migrationVars, part>>

ProjectInit ==
  \/ /\ part = "commands" /\ CommandsInit /\ MigrationInit
     /\ store = [end \in Ends |-> [e \in Kept |-> Missing]]
  \/ /\ part = "migration" /\ MigrationInit /\ CommandsInit
     /\ config = (CHOOSE h \in Histories : TRUE).config

ProjectNext ==
  \/ part = "commands" /\ CommandsNext /\ UNCHANGED <<migrationVars, part>>
  \/ part = "migration" /\ MigrationNext /\ UNCHANGED <<commandVars, part>>

ProjectSpec == ProjectInit /\ [][ProjectNext]_projectVars

Two == {s1, s2}
Both == {"dev", "prod"}
Four == 1..4
Tags == <<"db", "db", "net", "db">>
Db == <<"db">>
Net == <<"net">>

Plain(cmd, e, auto) == [cmd |-> cmd, env |-> e, auto |-> auto]
Importing(e, sels, as, generate) ==
  [cmd |-> "import", env |-> e, sels |-> sels, as |-> as, generate |-> generate]

AllRequests ==
  {Plain("apply", "dev", FALSE), Plain("apply", "prod", TRUE), Plain("destroy", "dev", FALSE),
   Plain("refresh", "dev", TRUE), [cmd |-> "rm", env |-> "dev", auto |-> FALSE, name |-> Db],
   Importing("dev", <<>>, Own, TRUE), Importing("dev", <<2>>, Net, TRUE),
   Importing("prod", <<3, 3>>, Own, FALSE), Importing("dev", <<4, 2>>, Own, TRUE),
   Importing("prod", <<>>, Net, FALSE)}

Managing(names, envs, dev, prod, w) ==
  [config |-> [names |-> names, envs |-> envs, dropped |-> {}],
   states |-> [e \in Both |-> IF e = "dev" THEN dev ELSE prod], world |-> w]

(* One object managed and one like it that is not; one managed in each of  *)
(* two environments; and one of which nothing is left but its state.       *)
SomeHistories ==
  {Managing({Db}, Both, Db :> 1, Nothing, <<"alive", "alive", "unborn", "unborn">>),
   Managing({Db, Net}, Both, Db :> 1, Net :> 3, <<"alive", "alive", "alive", "unborn">>),
   Managing({Db, Net}, {"prod"}, Db :> 1 @@ Net :> 3, Db :> 2, <<"alive", "alive", "alive", "unborn">>)}

FirstTwo == {1, 2}
BothClients == {c1, c2}
OldCheckout == {c2}
OldForTheSecond == [c \in BothClients |-> IF c = c1 THEN FirstTwo ELSE {2}]
OneMigrator == {m1}
AnyFault == {"put", "lossy", "crash", "unread"}
=============================================================================
