---------------------------- MODULE PluginRegistry ---------------------------
(***************************************************************************)
(* runtime/registry/plugin_registry.py: which modules are registered and   *)
(* enabled, the dependency graph their manifests span, its validation, and *)
(* the order in which modules start.  Manifests are                        *)
(* [provides, requires, enabledByDefault]; Names lists the module ids in   *)
(* the order sorted() gives them.  The loops of _find_cycle and of         *)
(* dependency_order run step by step.                                      *)
(***************************************************************************)
EXTENDS CycleSearch

CONSTANTS
  Names,     \* all module ids, sorted
  Manifests, \* the functions from module ids to manifests to consider
  MaxChanges \* bound: calls of set_enabled

Modules == ToSet(Names)

ASSUME RegistryAssumption ==
  /\ Names \in Seq(Modules) /\ IsInjective(Names)
  /\ \A f \in Manifests : DOMAIN f = Modules
  /\ MaxChanges \in Nat

VARIABLES
  manifests,
  plugins,   \* _plugins: the registered modules
  overrides, \* _enabled_overrides
  validated, \* _validated
  changes,   \* calls of set_enabled so far
  search,    \* of _find_cycle
  sort       \* of dependency_order: [ready, order]

registry == <<manifests, plugins, overrides, validated, changes>>
loops == <<search, sort>>

IsEnabled(m) ==
  IF m \in DOMAIN overrides THEN overrides[m]
  ELSE m \in plugins /\ manifests[m].enabledByDefault

Enabled == {m \in plugins : IsEnabled(m)}

Providers(cap) == {m \in Enabled : cap \in manifests[m].provides}

\* A capability with several providers adds no edge: it is ambiguous.
Dependencies ==
  [m \in Enabled |-> UNION {Providers(cap) : cap \in {c \in manifests[m].requires :
                                                        Cardinality(Providers(c)) = 1}}]

Unsatisfied ==
  UNION {{<<m, cap>> : cap \in {c \in manifests[m].requires : Providers(c) = {}}} : m \in Enabled}

Ambiguous == {cap \in UNION {manifests[m].provides : m \in Enabled} : Cardinality(Providers(cap)) > 1}

ReportOk == Unsatisfied = {} /\ Ambiguous = {} /\ search.cycles = {}

(* dependency_order: Kahn's algorithm with a queue.                        *)

Rank(m) == CHOOSE i \in 1..Len(Names) : Names[i] = m

Sorted(S) ==
  CHOOSE s \in [1..Cardinality(S) -> S] :
    ToSet(s) = S /\ \A i, j \in DOMAIN s : i < j => Rank(s[i]) < Rank(s[j])

Ready(deps) ==
  [ready |-> Sorted({m \in DOMAIN deps : deps[m] = {}}), order |-> <<>>]

Released_Early(deps, node, order) == {m \in DOMAIN deps : node \in deps[m]} \* mutant: any dependent

Released(deps, node, order) ==
  {m \in DOMAIN deps : node \in deps[m] /\ deps[m] \subseteq ToSet(order)}

PopReady(deps, s) ==
  LET order == Append(s.order, Head(s.ready))
  IN [ready |-> Tail(s.ready) \o Sorted(Released(deps, Head(s.ready), order)), order |-> order]

(* Operations.                                                             *)

NoSearch == Fresh(<<>>)
NoSort == [ready |-> <<>>, order |-> <<>>]

Init ==
  /\ manifests \in Manifests
  /\ plugins = {} /\ overrides = <<>> /\ validated = FALSE /\ changes = 0
  /\ search = NoSearch /\ sort = NoSort

\* The modules found, one after the other.
Register(found) ==
  /\ plugins' = plugins \cup found
  /\ validated' = FALSE
  /\ UNCHANGED <<manifests, overrides, changes, loops>>

StillValid_Kept == validated \* mutant: set_enabled does not ask for a new validation

StillValid == FALSE

\* set_enabled, for each module of the domain of switches.
Switch(switches) ==
  /\ overrides' = [m \in DOMAIN switches \cup DOMAIN overrides |->
                     IF m \in DOMAIN switches THEN switches[m] ELSE overrides[m]]
  /\ validated' = IF DOMAIN switches = {} THEN validated ELSE StillValid
  /\ UNCHANGED <<manifests, plugins>>

\* validate_dependencies: the search stops at the first cycle.  It raises when
\* the report is not ok, and remembers the outcome either way.
BeginValidation ==
  /\ search' = Fresh(Dependencies)
  /\ UNCHANGED <<registry, sort>>

SearchStep ==
  /\ search.cycles = {}
  /\ search' \in Continue(search)
  /\ UNCHANGED <<registry, sort>>

SearchIsOver == search.cycles # {} \/ Exhausted(search)

EndValidation ==
  /\ SearchIsOver
  /\ validated' = ReportOk
  /\ search' = NoSearch
  /\ UNCHANGED <<manifests, plugins, overrides, changes, sort>>

BeginOrder ==
  /\ sort' = Ready(Dependencies)
  /\ UNCHANGED <<registry, search>>

OrderStep ==
  /\ sort.ready # <<>>
  /\ sort' = PopReady(Dependencies, sort)
  /\ UNCHANGED <<registry, search>>

EndOrder ==
  /\ sort.ready = <<>>
  /\ sort' = NoSort
  /\ UNCHANGED <<registry, search>>

------------------------------------------------------------------------------
(* Properties.                                                             *)

\* plugin_registry.py:232: validated is TRUE only while the modules that are
\* enabled now would pass validation, whatever was registered, enabled or
\* disabled since: every requirement has exactly one provider and nothing
\* depends on itself, directly or through others.
ValidatedIsNeverStale ==
  validated =>
    /\ \A m \in Enabled : \A cap \in manifests[m].requires :
         Cardinality({p \in Enabled : cap \in manifests[p].provides}) = 1
    /\ ~Cyclic(Dependencies)

\* plugin_registry.py:303: where the search ends it has found a cycle exactly if
\* there is one, and what it reports is one.
SearchIsRight ==
  /\ search.cycles # {} <=> Cyclic(Dependencies)
  /\ \A c \in search.cycles : IsCycle(Dependencies, c)

\* plugin_registry.py:199: where the ordering ends every enabled module comes
\* once, after all it depends on, save those on a cycle or depending on one,
\* which are left out.
OrderIsRight ==
  LET order == sort.order
      blocked == UNION {S \in SUBSET Enabled : \A m \in S : Dependencies[m] \cap S # {}}
  IN /\ ToSet(order) = Enabled \ blocked /\ IsInjective(order)
     /\ \A i \in 1..Len(order) : Dependencies[order[i]] \subseteq {order[j] : j \in 1..(i - 1)}
==============================================================================
