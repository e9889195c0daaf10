------------------------------ MODULE MCSupply ------------------------------
(***************************************************************************)
(* What a project takes from elsewhere: modules fetched into a shared      *)
(* cache, and plugins installed beside their lock file.  The two share     *)
(* nothing, so a behaviour is one of the two.                              *)
(*                                                                         *)
(* Two commands compile a configuration with a tag and a commit; the tag   *)
(* may move once and one command may be killed.  Two shells run a command  *)
(* each: three repositories publish the plugin, one of them twice, two as  *)
(* a provider and one as a backend that runs on other platforms only; the  *)
(* project names the owner of the last two as its source; a person may put *)
(* a binary in place or pull a lock file.                                  *)
(***************************************************************************)
EXTENDS ModuleCache, PluginInstall, TLC

CONSTANTS c1, c2, pinned, tagged, s1, s2, official, acme, op, ab, ap

VARIABLE part
supplyVars == <<cacheVars, installVars, part>>

SupplyInit ==
  \/ part = "modules" /\ CacheInit /\ InstallInit
  \/ /\ part = "plugins" /\ InstallInit /\ CacheInit
     /\ remote = [p \in Pins |-> CHOOSE k \in Commits : TRUE]

SupplyNext ==
  \/ part = "modules" /\ CacheNext /\ UNCHANGED <<installVars, part>>
  \/ part = "plugins" /\ InstallNext /\ UNCHANGED <<cacheVars, part>>

SupplySpec == SupplyInit /\ [][SupplyNext]_supplyVars /\ CacheFairness

TagFirst == <<tagged, pinned>>
BothCommands == {c1, c2}
TwoCommits == 1..2
TwoFiles == {"main", "vars"}

Owner == op :> official @@ ab :> acme @@ ap :> acme
Role == op :> "provider" @@ ab :> "backend" @@ ap :> "provider"
BothRoles == <<"provider", "backend">>
CanRun == op :> {1, 2} @@ ab :> {} @@ ap :> {1}
OfficialTwice == op :> 2 @@ ab :> 1 @@ ap :> 1
Ordered == <<"project", "home">>
ThreeCalls ==
  {[dest |-> "project", inProject |-> TRUE, attended |-> TRUE, kind |-> None],
   [dest |-> "project", inProject |-> TRUE, attended |-> FALSE, kind |-> "provider"],
   [dest |-> "home", inProject |-> FALSE, attended |-> TRUE, kind |-> "provider"]}
OfficialMayFail == {{}, {official}}
=============================================================================
