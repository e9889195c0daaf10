------------------------------ MODULE MCHosts ------------------------------
(***************************************************************************)
(* The two kinds of child process infrena talks to.  They share nothing,   *)
(* so a behaviour is one of either: the other stays as it began.           *)
(***************************************************************************)
EXTENDS MCPlugin, BackendClient

CONSTANTS nobody, h1, h2

VARIABLE part
hostsVars == <<pluginClientVars, backendVars, part>>

HostsInit ==
  /\ part \in {"plugin", "backend"}
  /\ IF part = "plugin" THEN PluginInit
     ELSE /\ binary = "missing" /\ verb = Asking("nothing", "nothing") /\ host = "unused"
          /\ plug = NotRunning /\ stdin = <<>> /\ stdout = <<>>
          /\ reader = "off" /\ pending = {} /\ closed = FALSE /\ nextID = 0
          /\ call = [c \in Callers |-> Idle] /\ effects = [w \in Workers |-> 0]
          /\ interrupted = FALSE /\ faults = 0
  /\ BackendInit

HostsNext ==
  \/ part = "plugin" /\ PluginNext /\ UNCHANGED <<backendVars, part>>
  \/ part = "backend" /\ BackendNext /\ UNCHANGED <<pluginClientVars, part>>

BackendPart(A) == part = "backend" /\ A

HostsSpec ==
  /\ HostsInit /\ [][HostsNext]_hostsVars
  /\ PluginFairness
  /\ \A h \in Hosts : WF_backendVars(BackendPart(CommandStep(h))) /\ WF_backendVars(BackendPart(RemoteStep(h)))

(***************************************************************************)
(* client.go:161-181, host.go:547-598.  Whatever becomes of the child, the *)
(* command it serves ends: no call, no load and no close waits for ever.   *)
(***************************************************************************)
CommandsEnd == PluginCommandEnds /\ RemoteCommandEnds

Commands == {h1, h2}
Puts == [h \in Commands |-> IF h = h1 THEN 2 ELSE 0]
=============================================================================
