------------------------------ MODULE Instances ------------------------------
(***************************************************************************)
(* Which account a resource is in.  A resource belongs to a provider       *)
(* instance; its state records the instance's name and nothing of what the *)
(* instance was configured with, so every later command has to build the   *)
(* same instance again.  There are three ways to: apply compiles (stages   *)
(* 4.5 to 6), destroy and refresh only read `providers:`, and the teardown *)
(* of an environment no longer declared does so without an environment.    *)
(* Each loads plugins by its own rule, and what is loaded decides which    *)
(* instance a project that declares none gets.                             *)
(***************************************************************************)
EXTENDS Naturals, Sequences

CONSTANTS
  Setups,     \* projects: the `providers:` entries, the constrained plugins, the resources there may be
  Installed,  \* the plugins that can be loaded
  Unnamed,    \* the empty name: no `name:`, no `provider:`, no instance
  Anywhere,   \* no configuration: the account the plugin defaults to
  PerEnvironment,  \* configuration that is a variable only an environment sets
  OfResource       \* configuration that refers to a resource

VARIABLES
  setup,    \* the project
  records,  \* state: resources with the instance recorded and the account the object is in
  command,  \* the command that runs or ran last
  files,    \* the project's files as this command finds them
  steps,    \* what is left of the command
  outcome,  \* "idle", "running", "refused", "done"
  plugins,  \* the registry: plugins loaded
  built,    \* the registry: instances constructed, with the account each reaches
  table,    \* the instance table of the compile
  calls,    \* calls made for recorded resources: which, and to which account
  stranded  \* resources whose operation found no instance to run against
instVars ==
  <<setup, records, command, files, steps, outcome, plugins, built, table, calls, stranded>>

Unsettled == "unknown"  \* a value that no environment settled

\* An entry is written with a configuration, never with the mark of a value
\* that was left unsettled.
SetupsAssumption ==
  \A s \in Setups :
    /\ s.entries \in Seq({s.entries[i] : i \in DOMAIN s.entries})
    /\ \A i \in DOMAIN s.entries : s.entries[i].config # Unsettled
ASSUME SetupsAssumption

-----------------------------------------------------------------------------
(* What the files say *)

\* An entry without a name is named after its plugin.
NameOf(e) == IF e.name = Unnamed THEN e.plugin ELSE e.name

\* Two entries of one name, or two marked as the default, do not decode.
WellNamed(entries) ==
  /\ \A i, j \in DOMAIN entries : NameOf(entries[i]) = NameOf(entries[j]) => i = j
  /\ \A i, j \in DOMAIN entries : entries[i].default /\ entries[j].default => i = j
\* The entry marked as the default, or else the first.
IsDefault(entries, i) == entries[i].default \/ (i = 1 /\ \A j \in DOMAIN entries : ~ entries[j].default)

Decodes == files.status = "sound" /\ WellNamed(setup.entries)

NeededPlugins ==
  {setup.entries[i].plugin : i \in DOMAIN setup.entries}
  \cup {r.plugin : r \in {r \in files.resources : ~ r.nested}}
DeadConstraints == setup.pinned \ NeededPlugins

ResolveOne(value, environment) ==
  IF value = PerEnvironment /\ ~ environment THEN Unsettled ELSE value
RefersToResource == \E i \in DOMAIN setup.entries : setup.entries[i].config = OfResource
Resolve(environment) ==
  [n \in {NameOf(setup.entries[i]) : i \in DOMAIN setup.entries} |->
    LET i == CHOOSE i \in DOMAIN setup.entries : NameOf(setup.entries[i]) = n
    IN [plugin |-> setup.entries[i].plugin, config |-> ResolveOne(setup.entries[i].config, environment),
        default |-> IsDefault(setup.entries, i)]]

Single(ps) == \E p \in ps : ps = {p}
\* One plugin is the instance of a project that declares none; two are none.
Implicit(ps) ==
  IF Single(ps) THEN [n \in ps |-> [plugin |-> n, config |-> Anywhere, default |-> TRUE]] ELSE << >>

-----------------------------------------------------------------------------
(* The registry *)

Loadable(names) == names \subseteq Installed

\* An instance already there keeps its object, unless the entry configures it.
Collides(t) == \E n \in DOMAIN t \cap DOMAIN built : t[n].config # Anywhere
\* A plugin takes a value that is not known for one that was not given.
New(i) == [plugin |-> i.plugin, account |-> IF i.config = Unsettled THEN Anywhere ELSE i.config]
RegisterInstances(t) ==
  built' = [n \in DOMAIN built \cup DOMAIN t |-> IF n \in DOMAIN built THEN built[n] ELSE New(t[n])]

\* Both the type's plugin and the instance must agree.
ProviderFor(plugin, instance) == instance \in DOMAIN built /\ built[instance].plugin = plugin

-----------------------------------------------------------------------------
(* A command *)

InstInit ==
  /\ setup \in Setups /\ files = [status |-> "sound", resources |-> {}]
  /\ records = {} /\ command = "none" /\ steps = << >> /\ outcome = "idle"
  /\ plugins = {} /\ built = << >> /\ table = << >> /\ calls = {} /\ stranded = {}

Steps(c) ==
  CASE c = "apply" -> <<"ensure", "prepare", "late", "bind", "read", "operate">>
    [] c = "teardown" -> <<"ensure", "instances", "read", "operate">>
    [] c = "destroy" -> <<"instances", "ensure", "read", "operate">>
    [] c = "refresh" -> <<"instances", "ensure", "read">>

\* The files may have been edited, broken or deleted since the last command.
\* An environment is torn down when the files decode and no longer declare it.
Start(c, status, resources) ==
  /\ outcome # "running"
  /\ c = "apply" => status # "gone"
  /\ c = "teardown" => status = "sound" /\ WellNamed(setup.entries) /\ records # {}
  /\ command' = c /\ files' = [status |-> status, resources |-> resources]
  /\ steps' = Steps(c) /\ outcome' = "running"
  /\ plugins' = {} /\ built' = << >> /\ table' = << >> /\ calls' = {} /\ stranded' = {}
  /\ UNCHANGED <<setup, records>>

At(step) == outcome = "running" /\ Head(steps) = step
Proceed ==
  /\ steps' = Tail(steps) /\ outcome' = IF Len(steps) = 1 THEN "done" ELSE "running"
  /\ UNCHANGED <<setup, command, files>>
Refuse == outcome' = "refused" /\ steps' = << >>
          /\ UNCHANGED <<setup, records, command, files, plugins, built, table, calls, stranded>>
Untouched == UNCHANGED <<records, calls, stranded>>

\* `registerImplicit` and the other places that register a table.
Install(t, ps) ==
  IF Collides(t) THEN Refuse
  ELSE RegisterInstances(t) /\ plugins' = ps /\ Proceed /\ Untouched

Declares == setup.entries # << >>
\* `ensureStateProviders`: apply and the teardown hand it the files, destroy
\* and refresh none, having been through `registerStateInstances`.
SeesDeclared == command \in {"apply", "teardown"} /\ Declares
EnsureState ==
  /\ At("ensure")
  /\ LET ps == plugins \cup {r.of.plugin : r \in records}
     IN Install(IF SeesDeclared \/ DOMAIN built # {} THEN << >> ELSE Implicit(ps), ps)
  /\ UNCHANGED table

Environment == command # "teardown"
StateInstancesTrusting ==
  /\ At("instances") /\ UNCHANGED table
  /\ IF ~ Decodes THEN Install(Implicit(plugins), plugins)
     ELSE LET ps == plugins \cup NeededPlugins
          IN IF ~ Loadable(NeededPlugins) THEN Refuse
             ELSE IF ~ Declares THEN Install(Implicit(ps), ps)
             ELSE IF RefersToResource THEN Refuse
             ELSE Install(Resolve(Environment), ps)
\* `registerStateInstances`: files that cannot be read or decoded are not
\* reported and leave the implicit instance; one that an environment would have
\* had to settle is refused.
StateInstances ==
  /\ At("instances") /\ UNCHANGED table
  /\ IF ~ Decodes THEN Install(Implicit(plugins), plugins)
     ELSE LET ps == plugins \cup NeededPlugins
              resolved == Resolve(Environment)
          IN IF ~ Loadable(NeededPlugins) THEN Refuse
             ELSE IF ~ Declares THEN Install(Implicit(ps), ps)
             ELSE IF RefersToResource \/ \E n \in DOMAIN resolved : resolved[n].config = Unsettled THEN Refuse
             ELSE Install(resolved, ps)

\* Stage 4.5
Prepare ==
  /\ At("prepare")
  /\ LET ps == plugins \cup NeededPlugins
         t == IF Declares THEN Resolve(TRUE) ELSE Implicit(ps)
     IN IF ~ Decodes \/ ~ Loadable(NeededPlugins) \/ DeadConstraints # {} \/ RefersToResource \/ Collides(t)
        THEN Refuse
        ELSE Install(t, ps) /\ table' = t

PrepareLateLoadsOnly ==
  /\ At("late")
  /\ LET ps == plugins \cup ({r.plugin : r \in files.resources} \cap Installed)
     IN Install(table, ps) /\ UNCHANGED table
\* Stage 5.5, once the modules' files have been read.  A plugin that does not
\* load is left for the next stage to report.
PrepareLate ==
  /\ At("late")
  /\ LET ps == plugins \cup ({r.plugin : r \in files.resources} \cap Installed)
         t == IF ps # plugins /\ table = << >> THEN Implicit(ps) ELSE table
     IN IF t = table THEN plugins' = ps /\ Proceed /\ Untouched /\ UNCHANGED <<built, table>>
        ELSE Install(t, ps) /\ table' = t

\* The resource's own `provider:`, the one its module call names, the default.
NamedBy(r) == IF r.own # Unnamed THEN r.own ELSE r.inherited
ProviderInstanceFor(r) ==
  IF NamedBy(r) # Unnamed THEN NamedBy(r)
  ELSE IF \E n \in DOMAIN table : table[n].default
       THEN CHOOSE n \in DOMAIN table : table[n].default ELSE Unnamed
\* Stages 6 and 7: a name that is not declared and a type no plugin offers.
BindInstances ==
  /\ At("bind")
  /\ IF \E r \in files.resources :
          NamedBy(r) \notin {Unnamed} \cup DOMAIN table \/ r.plugin \notin plugins
     THEN Refuse
     ELSE Proceed /\ Untouched /\ UNCHANGED <<plugins, built, table>>

\* Every recorded resource is read, in the instance its state names.
Read ==
  /\ At("read")
  /\ IF \E r \in records : ~ ProviderFor(r.of.plugin, r.instance)
     THEN Refuse
     ELSE /\ calls' = {[of |-> r, account |-> built[r.instance].account] : r \in records}
          /\ Proceed /\ UNCHANGED <<records, plugins, built, table, stranded>>

\* An operation without an instance fails; a create records its instance.
Operate ==
  /\ At("operate")
  /\ LET fresh == {r \in files.resources : \A s \in records : s.of # r}
         served == {r \in fresh : ProviderFor(r.plugin, ProviderInstanceFor(r))}
     IN IF command = "apply"
        THEN /\ stranded' = fresh \ served
             /\ records' = records \cup
                  {[of |-> r, instance |-> ProviderInstanceFor(r),
                    account |-> built[ProviderInstanceFor(r)].account] : r \in served}
        ELSE records' = {} /\ UNCHANGED stranded
  /\ Proceed /\ UNCHANGED <<plugins, built, table, calls>>

InstNext ==
  \/ \E c \in {"apply", "teardown", "destroy", "refresh"}, s \in {"sound", "broken", "gone"},
        rs \in SUBSET setup.resources : Start(c, s, rs)
  \/ EnsureState \/ StateInstances \/ Prepare \/ PrepareLate \/ BindInstances \/ Read \/ Operate
InstSpec == InstInit /\ [][InstNext]_instVars

-----------------------------------------------------------------------------

\* While the files decode, a command that does not refuse calls every recorded
\* resource in the account its object was made in, whichever of the three ways
\* built the instance; and where `providers:` is declared, destroy and refresh
\* do reach what apply recorded.
SameAccount == \A c \in calls : c.account = c.of.account
RecordsStayInReach ==
  Decodes =>
    /\ SameAccount
    /\ outcome = "refused" /\ command \in {"destroy", "refresh"} /\ records # {} /\ Declares
         => ~ Loadable(NeededPlugins)

\* A project that uses one plugin, at the root, in a module or only in state,
\* is served by it: no operation of an accepted plan finds no instance.
AcceptedIsServed ==
  Single(NeededPlugins \cup {r.plugin : r \in files.resources} \cup {r.of.plugin : r \in records})
    => stranded = {}

\* registerStateInstances: "the instance name is recorded in state, so a
\* resource still reaches the right account whenever that account's
\* configuration does not itself depend on an environment."
RightAccountFromState ==
  files.status # "gone" /\ (\A i \in DOMAIN setup.entries : setup.entries[i].config # PerEnvironment) => SameAccount

\* PrepareLate: "gives a newly loaded one an instance if the project named none."
LateIsServed == outcome = "done" /\ ~ Declares => stranded = {}
=============================================================================
