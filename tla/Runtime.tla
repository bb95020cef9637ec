------------------------------- MODULE Runtime -------------------------------
(***************************************************************************)
(* runtime/boot.py: Runtime.boot and Runtime.shutdown over the plugin      *)
(* registry, the modules' lifecycle hooks and the capabilities they        *)
(* register.  One thread calls boot, set_enabled and shutdown, in any      *)
(* order.  Manifest files, configuration files and modules are outside:    *)
(* reading them and every hook may raise.                                  *)
(***************************************************************************)
EXTENDS PluginRegistry

CONSTANTS
  ModuleConfigs, \* functions from modules to {"on", "off", "absent"}
  MaxShutdowns   \* bound: calls of shutdown()

ASSUME RuntimeAssumption ==
  /\ \A c \in ModuleConfigs : DOMAIN c = Modules
  /\ MaxShutdowns \in Nat

VARIABLES
  config,        \* the "enabled" entry of each module's configuration
  runtime,       \* _lifecycle.state
  pc,            \* "idle", or what the call under way is at
  queue,         \* the modules _start_modules or shutdown has yet to go through
  hook,          \* the hook _start_one_module is in
  records,       \* _module_records: module -> state and health
  capabilities,  \* the container: capability -> [by, specific]
  shutdowns,     \* calls of shutdown() so far
  started,       \* history: modules whose start() returned
  stops          \* history: the modules whose stop() was called, as [module, raised]

modules == <<queue, hook, records, capabilities, started, stops>>
vars == <<registry, loops, config, runtime, pc, modules, shutdowns>>

Hooks == <<"instantiate", "validate", "init", "start", "health_check">>
Deps(m) == Dependencies[m]

RuntimeInit ==
  /\ Init
  /\ config \in ModuleConfigs
  /\ runtime = "starting"
  /\ pc = "idle" /\ queue = <<>> /\ hook = 1
  /\ records = <<>> /\ capabilities = <<>>
  /\ shutdowns = 0
  /\ started = {} /\ stops = <<>>

Fail == runtime' = "failed" /\ pc' = "idle"

Discover ==
  /\ pc = "idle" /\ runtime = "starting"
  /\ \/ /\ Register(Modules)
        /\ runtime' = "plugin_discovery" /\ pc' = "boot"
     \/ /\ \E found \in SUBSET Modules : Register(found)
        /\ Fail \* a manifest does not load, or is there twice
  /\ UNCHANGED <<config, modules, shutdowns>>

ValidateDefaults ==
  /\ pc = "boot" /\ runtime = "plugin_discovery"
  /\ BeginValidation
  /\ runtime' = "dependency_validation" /\ pc' = "validating"
  /\ UNCHANGED <<config, modules, shutdowns>>

\* _apply_module_enablement_overrides, for the first k modules.
ApplyOverrides(k) ==
  LET configured == {m \in {Names[i] : i \in 1..k} \cap plugins : config[m] # "absent"}
  IN Switch([m \in configured |-> config[m] = "on"]) /\ UNCHANGED <<changes, sort>>

ConfigLoads ==
  /\ pc = "boot" /\ runtime = "config_loading"
  /\ ApplyOverrides(Len(Names))
  /\ search' = Fresh(Dependencies')
  /\ pc' = "validating"
  /\ UNCHANGED <<config, runtime, modules, shutdowns>>

\* The configuration cannot be resolved, or that of one of the modules.
ConfigRaises ==
  /\ pc = "boot" /\ runtime = "config_loading"
  /\ \E k \in 0..(Len(Names) - 1) : ApplyOverrides(k)
  /\ Fail
  /\ UNCHANGED <<search, config, modules, shutdowns>>

Searching ==
  /\ pc = "validating"
  /\ SearchStep
  /\ UNCHANGED <<config, runtime, pc, modules, shutdowns>>

GoesOn_DefaultsOnly == validated' \/ runtime = "config_loading" \* mutant: the overrides are not validated

GoesOn == validated'

\* Validated before configuration is loaded, and again after.
Validated ==
  /\ pc = "validating"
  /\ EndValidation
  /\ IF GoesOn
     THEN /\ runtime' = IF runtime = "dependency_validation" THEN "config_loading" ELSE "health_checking"
          /\ pc' = "boot"
     ELSE Fail
  /\ UNCHANGED <<config, modules, shutdowns>>

\* dependency_order() for _start_modules; Steps 5 and 6 do nothing yet.
BeginStart ==
  /\ pc = "boot" /\ runtime = "health_checking"
  /\ BeginOrder
  /\ pc' = "ordering"
  /\ UNCHANGED <<config, runtime, modules, shutdowns>>

Ordering ==
  /\ pc = "ordering"
  /\ OrderStep
  /\ UNCHANGED <<config, runtime, pc, modules, shutdowns>>

StopOrder_Started == sort.order \* mutant: not reversed

StopOrder == Reverse(sort.order)

Ordered ==
  /\ pc = "ordering"
  /\ EndOrder
  /\ IF runtime = "health_checking"
     THEN queue' = sort.order /\ pc' = "starting"
     ELSE queue' = StopOrder /\ pc' = "stopping"
  /\ UNCHANGED <<config, runtime, hook, records, capabilities, started, stops, shutdowns>>

Current == Head(queue)

FallbackFor_None == {} \* mutant: no generic registration

FallbackFor == manifests[Current].provides \ DOMAIN capabilities

Provide(S, specific) ==
  capabilities' = [cap \in S \cup DOMAIN capabilities |->
                     IF cap \in S THEN [by |-> Current, specific |-> specific] ELSE capabilities[cap]]

\* init() registers what it likes of its own capabilities, with override=True;
\* before start() the Runtime registers the module itself for the others.
Registrations ==
  IF Hooks[hook] = "init" THEN \E S \in SUBSET manifests[Current].provides : Provide(S, TRUE)
  ELSE IF Hooks[hook] = "start" THEN Provide(FallbackFor, FALSE)
  ELSE UNCHANGED capabilities

HookReturns ==
  /\ pc = "starting" /\ queue # <<>>
  /\ hook < Len(Hooks)
  /\ hook' = hook + 1
  /\ Registrations
  /\ started' = IF Hooks[hook] = "start" THEN started \cup {Current} ELSE started
  /\ UNCHANGED <<registry, loops, config, runtime, pc, queue, records, stops, shutdowns>>

\* The module's record is kept only once all its hooks have returned; an
\* unhealthy result is kept in it and changes nothing else.
ModuleRuns ==
  /\ pc = "starting" /\ queue # <<>>
  /\ hook = Len(Hooks)
  /\ \E healthy \in BOOLEAN :
       records' = [m \in {Current} \cup DOMAIN records |->
                     IF m = Current THEN [state |-> "running", healthy |-> healthy] ELSE records[m]]
  /\ queue' = Tail(queue) /\ hook' = 1
  /\ UNCHANGED <<registry, loops, config, runtime, pc, capabilities, started, stops, shutdowns>>

\* An init() that raises may have registered some of its capabilities.
HookRaises ==
  /\ pc = "starting" /\ queue # <<>>
  /\ Fail
  /\ Registrations
  /\ UNCHANGED <<registry, loops, config, queue, hook, records, started, stops, shutdowns>>

BecomeReady ==
  /\ pc = "starting" /\ queue = <<>>
  /\ runtime' = "ready" /\ pc' = "idle"
  /\ UNCHANGED <<registry, loops, config, modules, shutdowns>>

\* The first transition of a second boot() is refused: the Runtime fails with
\* its modules running, unless it was stopped or had failed already.
BootAgain ==
  /\ pc = "idle" /\ runtime \notin {"starting", "failed", "stopped"}
  /\ Fail
  /\ UNCHANGED <<registry, loops, config, modules, shutdowns>>

SetEnabled(m, enabled) ==
  /\ pc = "idle" /\ changes < MaxChanges
  /\ changes' = changes + 1
  /\ Switch([n \in {m} |-> enabled])
  /\ UNCHANGED <<loops, config, runtime, pc, modules, shutdowns>>

BeginShutdown ==
  /\ pc = "idle" /\ shutdowns < MaxShutdowns
  /\ shutdowns' = shutdowns + 1
  /\ BeginOrder
  /\ runtime' = IF runtime \in {"ready", "running"} THEN "draining" ELSE runtime
  /\ pc' = "ordering"
  /\ UNCHANGED <<config, modules>>

StopUnrecorded ==
  /\ pc = "stopping" /\ queue # <<>> /\ Current \notin DOMAIN records
  /\ queue' = Tail(queue)
  /\ UNCHANGED <<registry, loops, config, runtime, pc, hook, records, capabilities, started, stops, shutdowns>>

AfterRaise == Tail(queue)

\* stop() is called before the state is looked at: a module that is stopped
\* already is stopped again, and the refused transition is only logged.
StopModule(raised) ==
  /\ pc = "stopping" /\ queue # <<>> /\ Current \in DOMAIN records
  /\ stops' = Append(stops, [module |-> Current, raised |-> raised])
  /\ records' = IF raised \/ records[Current].state # "running" THEN records
                ELSE [records EXCEPT ![Current].state = "stopped"]
  /\ queue' = IF raised THEN AfterRaise ELSE Tail(queue)
  /\ UNCHANGED <<registry, loops, config, runtime, pc, hook, capabilities, started, shutdowns>>

FinishShutdown ==
  /\ pc = "stopping" /\ queue = <<>>
  /\ runtime' = IF runtime = "draining" THEN "stopped" ELSE runtime
  /\ pc' = "idle"
  /\ UNCHANGED <<registry, loops, config, modules, shutdowns>>

Boot ==
  \/ Discover \/ ValidateDefaults \/ ConfigLoads \/ ConfigRaises \/ Searching \/ Validated
  \/ BeginStart \/ HookReturns \/ ModuleRuns \/ HookRaises \/ BecomeReady \/ BootAgain

Shutdown ==
  \/ BeginShutdown \/ StopUnrecorded \/ FinishShutdown
  \/ \E raised \in BOOLEAN : StopModule(raised)

Next ==
  \/ Boot \/ Shutdown \/ Ordering \/ Ordered
  \/ \E m \in Modules, enabled \in BOOLEAN : SetEnabled(m, enabled)

Spec == RuntimeInit /\ [][Next]_vars
------------------------------------------------------------------------------
(* Properties.                                                             *)

Stopped == {stops[i].module : i \in 1..Len(stops)}

\* boot.py:197-250, plugin_registry.py:199: once a module's hooks are being
\* called, every capability it requires can be resolved, from the one enabled
\* module that provides it, and that module is running.
RequirementsAreMetBeforeInit ==
  pc = "starting" /\ queue # <<>> =>
    \A cap \in manifests[Current].requires :
      /\ cap \in DOMAIN capabilities
      /\ LET provider == capabilities[cap].by IN
           /\ Providers(cap) = {provider}
           /\ provider \in DOMAIN records /\ records[provider].state = "running"

\* boot.py:120-189: READY means that every module enabled by manifest and
\* configuration has been started and runs, none other was, and every
\* capability they provide is registered by its provider.
ReadyMeansComplete ==
  runtime = "ready" /\ changes = 0 =>
    /\ DOMAIN records = Enabled /\ started = Enabled
    /\ \A m \in Enabled :
         /\ records[m].state = "running"
         /\ \A cap \in manifests[m].provides : cap \in DOMAIN capabilities /\ capabilities[cap].by = m

\* boot.py:257-266, LIFECYCLE.md, section 3: while no module is switched on or
\* off, stop() is called on a module only after it was called on every running
\* module that depends on it, and a shutdown calls it on every module that has a
\* record, whichever stop() raises.
ShutdownStopsDependentsFirst ==
  changes = 0 =>
    /\ \A i \in 1..Len(stops) : \A m \in DOMAIN records \cap Enabled :
         stops[i].module \in Deps(m) => \E j \in 1..(i - 1) : stops[j].module = m
    /\ pc = "stopping" /\ queue = <<>> => DOMAIN records \subseteq Stopped

\* plugin_registry.py:199, 303: see PluginRegistry; for every graph the enabled
\* modules span, in boot and in shutdown.
LoopsAreRight ==
  /\ pc = "validating" /\ SearchIsOver => SearchIsRight
  /\ pc = "ordering" /\ sort.ready = <<>> => OrderIsRight

\* modules/base.py:68: stop() is called on every module that was started, even
\* after an abnormal stop of the Runtime.
StartedModulesAreStopped == pc = "stopping" /\ queue = <<>> => started \subseteq Stopped

\* LIFECYCLE.md, section 3: no module is stopped while one that depends on it
\* is still running.
NoneStoppedUnderADependent ==
  \A m \in DOMAIN records \cap Enabled : records[m].state = "running" =>
    \A d \in Deps(m) \cap DOMAIN records : records[d].state # "stopped"

\* RUNTIME_BOOT_SEQUENCE.md, section 7: a module that reports itself unhealthy
\* keeps the Runtime from becoming ready.
UnhealthyModulesBlockBoot ==
  runtime = "ready" => \A m \in DOMAIN records : records[m].healthy
==============================================================================
