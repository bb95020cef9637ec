# A verification development for ERPNext AI Architect

TLA+ modules that model the repository's core, from the Runtime to the
knowledge graph and the analysis of repositories, TLC configurations that check
them on small instances, and TLAPS proofs. Every definition is translated from
the Python source; the docs are used only for what they *promise*, and where the
code does something else the disagreement is a run of its own that TLC must find
violated.

## The system

The program is a modular *Runtime* (`runtime/`) that discovers plugins, starts
them in dependency order and offers them a dependency-injection container, an
event bus and a pipeline engine. On top of it, `planning/` turns a goal into a
plan, `execution/` runs the plan over connectors of `integration/` and
`connectors/`, and `orchestration/` joins the two. `knowledge/` is a factory
whose stages run on the pipeline engine. `discovery/`, `synthesis/`,
`evaluation/` and `recommendation/` analyse one repository, each from what the one
before it made; `evidence/` and `aggregation/` are offline commands that meet
only in files.

| Component | State it keeps | Operations | Interacts through |
|---|---|---|---|
| Event Bus `runtime/events/bus.py` | routing table, one bounded queue, stop flag, consumer thread and counters per subscription | subscribe, unsubscribe, publish, shutdown; the consumer loop | called by every engine; calls handlers on its own threads, which may call it back |
| Container `runtime/container/di.py` | registrations, cache of singletons, cache of scoped instances | register (override), resolve, close_scope | providers it calls; shared by pipeline runs |
| Pipeline Engine `runtime/pipeline/engine.py` | one run per call: state machine, stage records | run | resolves stages and compensations in the Container, publishes |
| Plugin Registry `runtime/registry/plugin_registry.py` | plugins, enablement overrides, the validated flag | register, set_enabled, validate_dependencies, dependency_order | read by boot and shutdown |
| Boot and shutdown `runtime/boot.py` | state machine, module records, capabilities | boot, set_enabled, shutdown | Registry, Container, five hooks of every module |
| Planning `planning/` | none | create_plan, validate_plan, two strategies | returns a plan or a failure to the orchestrator |
| Execution Engine `execution/` | run and step state machines, step records | execute; cancel from another thread | scheduler, retry policy, confirmation provider, connectors, rollback strategy, event bus |
| Goal Orchestrator `orchestration/` | none | run_goal | Planning, then the Execution Engine |
| Connector registry and invoker `integration/registry.py`, `execution/connector_invoker.py` | registered connectors; connected instances | register, validate, invoke | instantiates and calls connectors, for any thread |
| File system connector `connectors/filesystem/` | none; the disk | read, write, exists, list | the connector invoker, discovery, synthesis, evidence |
| Knowledge factory `knowledge/extraction`, `conflict`, `validation`, `graph` | id counters, remembered artifacts, pending approvals, nodes and edges | extract, promote, resolve conflicts, eight gates, approve or reject, project | stages of pipeline runs that share store, approvals and graph |
| Knowledge views and analysis `knowledge/builder`, `projection`, `query`, `analysis/` | none | mentions, comparison and gaps, collections, projections, queries | plain functions |
| Discovery `discovery/` | one walk | walk, classify, inventory | file system connector |
| Synthesis `synthesis/` | one synthesis: facts, budget | modules, hooks, entities, APIs, configuration | the inventory, file system connector |
| Evaluation, Recommendation | none | twelve rules; grouping, score, priority | the facts, the findings |
| Evidence `evidence/` | one extraction; two files per repository | extract, write, read | file system connector, then files |
| Aggregation `aggregation/` | two files per repository | admit, aggregate, write, report | evidence files, pattern files |

What is hard in it: the bus's publishers, controllers and consumer threads
interleave freely outside its lock and handlers re-enter it; the container has no
lock at all although pipeline runs may be concurrent; cancellation arrives from
another thread at any point of a run; connectors, providers, hooks, compensations
and the bus may raise at every call, and what was done before stays done; retries
repeat calls that may have taken effect; the registry's validated flag and the
boot order are computed from state that may change later; runs of the validation
pipeline share one store without a lock while a human may answer at any time; a
projection into the graph ends wherever a link raises; walks and extractions read
a disk that changes under them, and stop at ceilings and timeouts; an artifact is
two files, written one after the other by a process that may be killed.
`PROJECT.json` lists each hazard at its line, with the property that watches it or
the reason none does yet.

What makes each component correct, in a line:

* Event Bus: no event lost, doubled or reordered without the counters or the
  publisher knowing it; nothing routed to a dead consumer; no call blocks for ever.
* Container: one instance per singleton registration; scoped instances never
  shared between scopes; evicted instances never come back.
* Pipeline Engine: forwards in order, then only backwards over what completed,
  each compensation once; the result and the events say what happened.
* Registry, boot: requirements are running before a module's `init`; READY means
  everything enabled runs and everything declared resolves; dependents stop first.
* Planning: a validated plan can be ordered and executed, and needs no less
  consent than the capabilities it uses.
* Execution: a step starts only when all it depends on has succeeded, effects
  are not repeated unless idempotent, cancellation begins nothing, and records,
  result and events agree.
* Connectors: every call is answered, and one connector's trouble stays its own.
* Knowledge factory: nothing doubtful becomes validated without a human, what is held
  waits for its decision, no source is lost, and the graph is acyclic in
  `depends_on` and tells links of validated artifacts only.
* Analysis of a repository: an inventory that is not truncated is complete, facts
  come from files that were read, recommendations cover the findings.
* Evidence and patterns: what is read is what one write wrote, and published
  numbers are the true ones of complete evidence.

## Modules

| Module | Models | Shape |
|---|---|---|
| `EventBus` | bus.py | one action per lock section and queue operation, per thread; timeouts are steps |
| `Mailbox` | (abstract) | what one subscription promises: a bounded FIFO mailbox |
| `EventBusProofs` | | theorems about `EventBus`: types and accounting; what `publish` finds in the table is live; it implements `Mailbox` |
| `Container` | di.py | per thread: `resolve` as lookup, cache check, provider call and cache read, `register` as write and invalidation, `close_scope` key by key |
| `ContainerProofs` | | theorems about `Container`: scopes, evictions, singletons |
| `PipelineEngine` | pipeline/engine.py | one action per publish, resolve, stage or compensation call; INSTANCEs `Container` |
| `CompensatedRun` | (abstract) | what pipeline runs promise |
| `PipelineEngineProofs` | | theorems about `PipelineEngine`: stage calls, results and events; it implements `CompensatedRun` |
| `CycleSearch` | the three-colour search of planning/validation.py and plugin_registry.py | the loop as initial value and iteration, and the reference |
| `CycleSearchProofs` | | lemmas about `CycleSearch`: where it ends it has found a cycle exactly if there is one |
| `PluginRegistry` | plugin_registry.py | the graph, its validation and its order, whose loops run step by step; EXTENDS `CycleSearch` |
| `Runtime` | boot.py | one action per hook, stop call or iteration of the registry's loops; EXTENDS `PluginRegistry` |
| `RuntimeProofs` | | theorems about `Runtime` and `PluginRegistry`: validation, order, requirements, READY, stops |
| `StepScheduler` | execution/scheduler.py | the loop as initial value and iteration, and the reference order |
| `ExecutionEngine` | execution/engine.py, retry, confirmation gate, cancellation, rollback pass | one action per call out of `execute` |
| `PlanRun` | (abstract) | what running a plan promises |
| `Planning` | planning validation and strategies | pure operators |
| `GoalOrchestrator` | orchestrator.py | composes `Planning`, whose search for cycles it runs step by step, and `ExecutionEngine` |
| `ExecutionEngineProofs` | | theorems about `ExecutionEngine`: it implements `PlanRun`; connector calls, order, result and events; and about goals: consent, validation and the built-in strategies |
| `KnowledgeArtifacts` | artifacts/envelope.py | types, statuses and links of artifacts |
| `KnowledgeExtraction` | extraction/ | rules, ids and promotion of recurring shapes, as operators over documents |
| `ConflictRules` | conflict/ | the four rules in their order, and the resolution of a batch |
| `ValidationGates` | validation/ | one action per gate and run, `duplicate_detection` in two (lookup, then merge or remember); approvals |
| `KnowledgeGraph` | graph/store.py | create_node and create_edge, the queries, traverse |
| `KnowledgeFactory` | graph/builder.py, pipelines/ | composes the modules above; `project` link by link |
| `KnowledgeFactoryProofs` | | theorems about `KnowledgeFactory`: consent, approvals, sources, the graph, resolution of conflicts, answers to requirements |
| `Analysis` | analysis/ | mentions, extracted elements, comparison and gaps |
| `KnowledgeViews` | knowledge/builder, projection, query | collections, snapshots, projections and their queries, of what `Analysis` makes |
| `FilesystemConnector` | connectors/filesystem | four operations over a disk others change |
| `ConnectorInvoker` | integration/registry.py, connector_invoker.py | lookup, instantiate, connect, cache and call as steps of threads |
| `RepositoryWalk` | discovery/, the walk of evidence/engine.py | the depth-first walk, one listing or question per step; the inventory |
| `RepositorySynthesis` | synthesis/ | one file per step, one budget for the four stages |
| `Evaluation` | evaluation/ | twelve rules over the facts |
| `Recommendation` | recommendation/ | union-find grouping, score and priority |
| `Evidence` | evidence/ | collectors, and the extraction file by file |
| `Aggregation` | aggregation/ | admission, descent, populations, patterns |
| `TwoFileStore` | evidence/persistence.py, aggregation/persistence.py | write and read of a pair of files, with a crash anywhere |
| `EvidencePlatform` | the commands of runtime/cli.py over them | composes the nine before |
| `EvidencePlatformProofs` | | theorems about `EvidencePlatform`: readers see one write, connector calls are answered, walks account for every file, facts come from examined files, recommendations cover the findings, published patterns are true |
| `MC_*` | | constants of the small instances |

`KnowledgeFactory` is one state machine; so is `EvidencePlatform`, whose initial
state chooses the *job* of the process (connector calls, an analysis, an
extraction, recommendations for given findings, or the commands over artifacts).

### How state and actions correspond to the code

Each variable is commented with the attribute it stands for, and `PROJECT.json`
maps each definition to its lines. The conventions are these.

* **Atomicity.** A section under the bus's lock, which never blocks, is one step,
  and so is an operation of `queue.Queue`. Everything between two of them is a
  place where another thread may run. `x += 1` on a subscription counter is one
  step of its own (the interpreter does not switch threads inside it): an eviction
  and its count are two steps, `Evict` and `CountDrop`. The container has no lock,
  so every access to one of its dicts that another thread can come between is a step:
  `register` writes and then invalidates, `resolve` looks up, checks, calls, stores and reads,
  and `close_scope` goes over the keys one by one, which raises RuntimeError when the dict's
  size has changed, and deletes them one by one, which raises KeyError for a key that is gone.
  Knowledge gates have no lock either:
  `duplicate_detection` is split between its lookup and its write, every other
  gate is one step. Every call of the file system is a step, and others may change
  the disk between any two (`Edit`); a connector writes its parents, an empty file
  and the text in turn; a write of an artifact is four steps, and the process may
  end between them.
* **Outside.** Handlers, providers, compensations, confirmation providers,
  rollback strategies, hooks, trust and precedence providers: each answers in
  every way its interface allows, raising included, by a nondeterministic choice,
  or by a constant where the interface is a function. To `ExecutionEngine` a
  connector is outside too; `ConnectorInvoker` shows what it answers.
* **Time.** No clocks. A timeout may expire whenever the wait it ends is still
  unsatisfied (`PutTimeout`, `GetTimeout`), and the join with a timeout in `Join`
  may return at any moment.
* **Data.** Events, capabilities, modules and steps are model values. Payloads,
  wording, logging and ids are left out. What a manifest provides is a set. A name
  repeated in one `depends_on` counts twice in both tables of the scheduler, so
  `depends_on` is a set. Catalogs are functions from capability to whether it must
  be confirmed. A path is a sequence of names, a name and a text are values, and
  the constant `Parsed` says of each text what it states (classes, decorators,
  assignments, requirements), so that parsers are tables and what is done with
  their answers is modelled. No name is a prefix of another, so that the order of
  a depth-first walk is that of the sorted paths. A ratio is compared in integers
  (percent, or confidence in 1/100000).
* **History variables** (marked so) record what was accepted, popped, invoked,
  published or stopped, so that properties can relate a state to earlier ones.
* **Shutdown order.** `EventBus.shutdown` stops subscriptions in the order of a
  dict; the model tries every order. Boot and shutdown of modules follow the
  registry's order exactly.

### Abstract specifications

`EventBus` implements `Mailbox`, `ExecutionEngine` implements `PlanRun`, and
every run of `PipelineEngine` implements `CompensatedRun`; each is a refinement
mapping given with `INSTANCE ... WITH` and checked as a property. The variables
of `CompensatedRun` are functions of the run, so that all runs of the engine are
refined at once and each step of it moves one of them or none.

## Runs

Expected to pass:

| Run | Question | Bounds |
|---|---|---|
| `bus_publishers` | with a publisher, a controller and a handler that publishes: are all events accounted for, in order, is each subscription a mailbox, and does publish report what it did? | a BLOCK and a DROP_OLDEST queue of one event, 3 events, so that evictions race with each other and with the consumer, and one full queue ends a publish half way; 2.3 million states |
| `bus_calls` | can handlers that stop their own or each other's subscriptions, shut the bus down or never return block a call for ever? Is every routed subscription live? Do queues drain? | 2 subscriptions, 2 events, a caller; handlers do not publish here, as they do in `bus_publishers`; 0.43 million states |
| `container_threads` | two threads: do scoped instances stay apart, do evicted ones stay gone? While no two calls overlap: are singletons made once and replaced by overrides? | 1 capability, 2 registrations, 2 scope ids, 3 instances; threads and scope ids are interchangeable; 4.8 million states |
| `pipeline_runs` | data flow, retries, records and events; does every run implement `CompensatedRun` and end? | two interleaved runs of 2 compensable stages; six pipelines of 3 stages with retries beside a run that raises; 4 wirings of the container |
| `runtime_boot` | registration, boot, one switch and two shutdowns with any hook or stop raising; the validated flag; the cycle search and the start order, iteration by iteration, against reference definitions | 3 modules, cyclic wirings and missing requirements among them; one change, 1.3 million states |
| `goal_runs` | is every effect consented to; are the built-in strategies' plans valid; does validation find exactly the cycles, and can what it passes be ordered? Order, calls, records, result, events, cancellation, refinement of `PlanRun`, termination | every forward plan of 3 steps over 3 kinds of capability, every dependency graph of 3 steps, every plan of 2 steps; 4 catalogs of 2 capabilities |
| `knowledge_runs` | consent, approvals, sources, the graph; conflict rules and requirements | 5 batches (repeated, contradicting and malformed documents, artifacts that depend on each other in a cycle, conflicting claims), 3 interchangeable gate runs, 9 artifact ids; all pairs of claims; requirements of up to 2 entities and a process; 0.9 million states |
| `platform_runs` | connector calls, walk, facts, recommendations, pairs of files, published patterns | 2 threads and 3 sets of connectors; 2 applications of up to 10 paths, file ceilings of 2 and 9, 2 changes of the disk out of 10 at any moment; 1728 sets of 4 findings; 3 repositories, 1 extraction beside aggregate and report; 0.79 million states |

The bounds are the smallest at which the interesting case happens: a queue must be
filled while another thread is between its two steps on it, a cycle needs two
nodes and a node beside it, a rollback needs a stage behind it. A lost merge needs
two runs between lookup and write and a third that repeats their content; a cycle
of dependencies needs three artifacts if looking one edge ahead must not find it;
descent through another repository needs three of them, and a pair of files that
do not belong together needs a write after one that was read or killed. The
ceiling of 2 files is spent in the middle of a directory, that of 9 never. Two
changes of the disk are enough for a directory to go and come back as something
else. Real rules give at most two findings of one category, so the grouping of
recommendations is checked on given findings whose modules overlap in every way;
the analysis jobs check it on real ones. Deadlock is checked in the bus and
container runs. The other runs state `CHECK_DEADLOCK FALSE` since there one call,
boot, job or set of runs comes to its end. Every property has a mutant of the
code, in `PROJECT.json`, that TLC finds violating it under the same configuration.

Expected to be violated, each a sentence of the docs that the code does not keep:

| Run | What happens |
|---|---|
| `bus_stop_loses_events` | stopping a BLOCK subscription leaves its queued events unhandled and uncounted |
| `execution_cancelled_fails` | a cancelled run whose remaining steps are all blocked ends FAILED |
| `knowledge_decision_lost` | a decision on a held artifact leaves nothing pending and returns nothing when publishing it raises, and cannot be made again |
| `platform_whitelist_population` | a function decorated with another object's `whitelist` is an occurrence of the pattern but not in its population: support can exceed 1 |

Met while modelling, and part of the modelled behaviour without a run of their own:
a file that is not UTF-8, or a link that leaves the root, raises out of
`read_text` and ends the whole extraction, where the docstring of
`_collect_from_file` (evidence/engine.py) says that one unparseable file never
aborts the run; a file that vanishes between being listed and its `stat` ends
discovery (discovery/engine.py:287); the truncation of an inventory is not told
by the facts made of it, nor that of an evidence set by the patterns; and after
an interrupted write an artifact whose two files are of different writes can be
accepted, which is why `PairsAgreeUnlessInterrupted` has its condition.

The modules state further claims of the docs that TLC refutes when they are put
in the place of a run's properties; none of them has a run of its own:

* `EventBus!SlowSubscriberDelaysNoOther` (bus.py:95): a full BLOCK queue makes
  publish raise before the later targets are served.
* `Container!SingletonsFollowTheirRegistration` without its condition that no two
  calls overlap (di.py:26): two threads each make an instance of one singleton.
* `PipelineEngine!OnlyRequestedRetries` (docs/runtime/PIPELINE_ENGINE.md:35, and the
  comment in engine.py:202): a stage is to be called again only if it reported
  retry-requested, and a raise is to be treated as a FAILURE; but engine.py:208 calls a
  stage that raised again like one that asked for it. `StageCallsFollowTheDefinition`
  leaves that case to this claim.
* `PipelineEngine!FailedRunsAreRolledBack` (docs/runtime/PIPELINE_ENGINE.md:39): a
  stage that cannot be resolved ends the run without compensation.
* `PipelineEngine!ScopesAreTornDown` (di.py:120): nothing closes a run's scope.
* `Runtime!StartedModulesAreStopped` (modules/base.py:68): a module whose
  `health_check` raised after `start` has no record and is never stopped.
* `Runtime!NoneStoppedUnderADependent` (docs/runtime/LIFECYCLE.md:47): after a
  `stop` that raised, the modules under it are stopped while it is RUNNING.
* `Runtime!UnhealthyModulesBlockBoot` (docs/runtime/RUNTIME_BOOT_SEQUENCE.md:52):
  an unhealthy module does not keep the Runtime from READY.
* `GoalOrchestrator!ValidatedPlansAreExecutable` (execution/engine.py:56): a plan
  with a repeated step id passes validation and makes `execute` raise.

### Fairness

* `EventBus!FairSpec`: a call that has begun goes on (threads keep running, and
  put, get and join have timeouts), and consumer threads poll. No one has to
  start a call and no handler has to return. `QueuesDrain` assumes in its own
  statement that the handlers of that subscription come back, which the docs ask
  of module authors.
* `GoalOrchestrator!GoalFairSpec`: the thread in `run_goal` keeps running and what
  it calls returns or raises. Cancellation is never forced.
* `PipelineEngine!FairSpec`: the same for each run.

The knowledge factory and the platform have no fairness: their processes may be
killed or never called, so only safety is stated of them. Their loops end by
their shape, each consuming a list it does not add to.

## Proofs

Induction over numbers, where a proof needs it, is by the least counterexample
(`LeastNumber`, from the library's well-founded relation on the naturals). What a
recursive *function* over a list computes can be typed that way (`Unfolds`,
`Recursion` of `KnowledgeFactoryProofs`): a recursion that starts in a set and is
never led out of it has all its values there. Nothing is known to the provers of
the folds of the community modules and of `SelectSeq`, so properties that count or
choose are stated with sets of indices (`EventsAbout`, `Calls`, `Done`), and what
documents and conflicts become is computed by recursive functions.

`EventBusProofs` proves, for any threads, subscriptions, events, queue sizes and overflow policies that satisfy the
assumptions of `EventBus` (callers and subscriptions are distinct, there are
finitely many of each, every queue has a positive bound):

* `TypeCorrect`: `Spec => []TypeOK`. `TypeOK` is inductive because it ties the
  variables of one thread together: a call in progress has targets left (or
  `Head(todo[t])` would be meaningless), it has an event exactly while it
  publishes, and a consumer thread is in a call only from inside its handler.
  `CallStep` and `CallerStep` say this once for every step of a call, so that
  each action only has to show the types it changes.
* `StatsAccount`: `Spec => []StatsAccountForEveryEvent`, whatever publishers
  evict and handlers do. The equation counts the publishers that are between an
  eviction and its count (`Dropping`), without which it would not be inductive;
  with them it is, relative to `TypeOK`. `Untouched` and `QuietStep` settle every
  action that leaves a subscription's queue, counters, handler and evictions
  alone; six actions remain (`Put`, `Evict`, `CountDrop`, `Get`, `HandlerReturns`,
  `HandlerRaises`), each of which moves one unit from one side or one summand to
  another.
* `OnlyLiveSubscriptionsAreRouted`: `Spec => []RoutedSubscriptionsAreLive`. The property itself is not inductive:
  a stop in progress could hit a subscription that another call is just putting
  into the table, and a second copy in a bucket would survive `list.remove`. The
  invariant `Routing` adds what rules these out: a subscription is in the table
  under its own topic and once (`TableOK`), one that nobody has made is nowhere
  (`CreatedOK`), one that `subscribe` has made and not yet registered is known to
  no other call (`RegisteringOK`), what a call is about to stop has left the
  table (`StoppingOK`), and so has what was stopped (`StoppedOK`).
  `WithoutElements` says what `list.remove` leaves of a bucket; `QuietCall` and
  `QuietConsumer` settle the actions that touch neither table nor flags;
  `StartRouting` is the common part of `Unsubscribe`, `Shutdown` and `Publish`.

* `EverySubscriptionIsAMailbox`: `Spec => Mailboxes!Spec`. Two invariants join `TypeOK` and `Routing`. `QueueOK`:
  a queue is what was put into it less what was removed, in order, so the removal
  of its head is the removal a mailbox promises. `PublishingOK`: an event is
  published by one thread, to targets that are all different and have not had it
  (hence no mailbox takes an event twice), and an eviction is under way only for
  DROP_OLDEST. `MailboxCloses`, `NothingMailed` and their like say which mailbox
  step a change of one queue or phase is; each action then is one of them or a
  stutter. A publish that finds no subscription and a second stop of a thread stutter.
* `PublishTellsTheTruth`: `Spec => []PublishReportsWhatItDid`. `HalfWay` says how far a
  publish has come: what the thread has left is the end of the snapshot, and exactly the
  targets before have the event. Counting is left to the end: neither a snapshot nor a
  queue's history holds anything twice, so each count is one or none (`OnceOrNever`).
* `FlowsInOrder`: `Spec => []FlowsArriveInOrder`. An event is issued once, a thread
  puts only the last it issued (`LastIssued`), so it follows all of its flow that any
  queue ever took (`FlowsAccepted`), and what leaves a queue is a beginning of what
  entered it (`RemovedOK`). With the above, `BusImplementsMailbox`: `Spec => ImplementsMailbox`.

`KnowledgeFactoryProofs` proves, for any batches, documents, artifacts, links,
providers' answers, and any number of runs, humans and projections, of the whole
`KnowledgeFactory`, assuming that a batch consists of well-formed artifacts and that
one given as held has references, as the schema gate demands before it
(`BatchesAssumption`), that scores are 0..100 and tiers 1..9 (`ProviderAssumption`),
that a version number is part of its name (`VersionsAssumption`), that texts have
finitely many words, no id or kind is None and collections have ids of their own
(`RequirementsAssumption`), and that None is no number (`NoneAssumption`):

* `NeverCycles`: `Spec => []DependenciesNeverCycle`. `CanReach` is stated with sets
  closed under dependency, the reading of a breadth-first search a proof can use: b
  is not reached from a iff a closed set holds a and not b. `DependencyAdded` is the
  heart: a set that witnessed the acyclicity of an old edge is joined or met with
  the one that witnessed the new edge's check, and is closed again with the new
  edge. `GraphInvariant` adds only that the nodes are a list (`NodesAreListed`), so
  that a new node leaves the old ones where they are.
* `ConsentComesBeforeValidation`: `Spec => []ConsentBeforeValidation`, and
  `HoldsAwaitADecision`: `Spec => []HeldArtifactsAwaitDecision`. The inductive
  invariant is `FactoryInvariant`, three invariants of one part each. `BuildInvariant`:
  whatever documents yield, shapes promote and conflicts demote is an artifact a gate
  can take (`Ready`; `Extracts`, `Promoted` and `Resolves` say it of the recursions).
  `GatesInvariant` says of each run what its artifact has passed by the gate it is at
  (`RunOK`: references after the first gate; the source check, the review and the
  human gate, each after its own), or that it stops. The first is not inductive without what
  `ContentsOK` says of the shared store: duplicate detection swaps a run's artifact
  for a stored one that another run brought there, so what is stored has references
  and was not stopped, which is all the later gates rely on.
  The second follows from `HeldInvariant`: once a batch is settled an id tells contents apart (`OneContentEach`), and whatever runs carry, the store remembers or
  the table has says what a draft with its id says (`Drafted`); so an entry that another run's hold
  overwrites still says what the first was told, and a held run that nobody decided on has one (`Awaited`).
* `SourcesAreKept`: `Spec => []SourcesAreNotLost`. `SourcesInvariant` counts, for every
  content and reference, where the store has it and where submissions brought it
  (`CountsOK`), which is inductive only with what makes the store's read and write one
  step for a run that is alone between them: nobody else is there, so what it found is
  still what is stored (`Alone`, `FoundOK`). Later gates set status, tags and confidence,
  none of which the store looks contents up by (`KeyKept`). `PlacesConcatenated` is the
  counting: a list appended to another has a reference as often as both together.
* `EdgesTellValidatedLinks`: `Spec => []GraphTellsValidatedLinks`. `ProjectionInvariant`
  says what a projection half way has told: an edge for each link before the next
  (`Told`), all of an artifact some run or human returned as validated.
* `ResolutionHasNoOrder`: `Spec => []ResolutionIgnoresOrder`, rule by rule. Only the
  comparison of versions could tell the two orders apart; it does not, since names that
  tell versions apart have ranks that do.
* `RequirementsAreMet`: `Spec => []RequirementsAreAnswered`, for any requirements,
  candidates and collections; no state plays a part, so the content is in the lemmas.
  `Flattening` follows the recursion of `FlattenSeq`, which all lists are built with,
  once; what is needed of it (elements, lengths, what is there exactly once) are lemmas
  about concatenation carried along it. `ScoredSubjects` follows the best scores: a
  subject has one exactly if some result of it is positive, so that `GapsAreUnmatched`
  says which facts are gaps. Ids of one kind never meet those of another, since a fact's
  id names its kind (`MentionedFacts`).

`ContainerProofs` proves, for any capabilities, threads and scopes and any number
of registrations and instances (assumption: `NoScopeId` is no scope's id):

* `ScopesStayApart`: `Spec => []ScopedInstancesAreNotShared`, and `EvictedStayGone`:
  `Spec => EvictedInstancesStayGone`. The invariant `Caches` gives each instance,
  cached or handed out, one place (`PlacesOK`), and keeps it in the cache under
  the capability it was made for (`KeysOK`) and out of both caches once evicted
  (`EvictedOK`). A provider's instance is new because numbers only grow.
* `SingletonsFollow`: `Spec => []SingletonsFollowTheirRegistration`. It holds while
  no two calls have overlapped, so the invariant is `overlap \/ Apart`: the one call
  there is serves the latest registration and makes only what is not cached
  (`CallsOK`), between the write of a registration and the invalidation nobody has been
  handed an instance of it (`RegistersOK`), what is cached is of the latest registration or
  about to be invalidated (`CachedOK`), and what was handed out is cached while its
  registration stands (`HandedOK`).

`ExecutionEngineProofs` proves, for any plans (repeated ids and unknown
dependencies included), capabilities, attempts and answers, a cancellation at any
moment, and assuming that a step depends on finitely many steps
(`DependenciesAssumption`) and that what is desired is a list (`DesiresAssumption`):

* `ImplementsThePlanRun`: `Spec => ImplementsPlanRun`. The scheduler never orders a
  step twice (`SchedOK`), so an order as long as the plan has all its steps, by
  counting (`OrderHasAllSteps`). The loop keeps the steps before `index` settled
  and on record and those after it pending (`LoopOK`), and the rollback pass has
  not touched what it has not reached (`RollbackOK`). Each action is then one step
  of `PlanRun` or a stutter (`...Implements`).
* `CallsAreJustified`: `Spec => []ConnectorCallsAreJustified`. The invariant counts
  the calls of each step, those that raise included, and ties `attempt` to the count (`AttemptOK`), so that only
  an idempotent capability is ever called again and never more than its attempts
  (`CallsOK`). That dependencies stay succeeded is taken from the refinement:
  `StatesGoOn` reads it off the step of `PlanRun` which the engine's step implements.
* `OrderIsTheFirst`: `Spec => []RunsInFirstTopologicalOrder`. `KahnOK` says what Kahn's
  algorithm has reached: an in-degree counts the dependencies not placed yet, what is
  ready is what has none left (`DegreesOK`), and each placed step came before every
  other that was possible then (`FirstOK`). A complete order is then topological
  (`OrderIsTopological`) and, by the first place where two orders differ, the first
  (`OrderIsBefore`); an incomplete one leaves steps that no order can place first.
* `ResultAndEventsAgree`: `Spec => []ResultTellsWhatHappened`. `ToldOK`: the last event
  about a step is that of its state, and `step_failed` has been published iff a record
  says so; `ResultOK`: a record's attempts are the calls counted, through the rollback
  pass, whose copies are compared with the records they replace.
* `GoalsRunTheEngine`: `GoalSpec => Spec`, so all of the above holds of goals.
* `ConsentComesFirst`: `GoalSpec => []ConsentBeforeEffect`. Two facts meet: what the loop
  let through and needs confirmation was published as awaiting it (`GateOK`), and what
  validation accepted needs no less confirmation than the catalog demands
  (`PlanIsValid`); before that nothing has been called (`GoalOK`).
* `ValidatedPlansCanBeOrdered`: `GoalSpec => []ValidatedPlansAreOrdered`. By `SearchDecides`
  an accepted plan has no set of steps each depending on another of the set; where the
  scheduler stops short, the steps not placed are such a set.
* `BuiltInStrategiesAreRight`: `GoalSpec => []BuiltInStrategiesPlanWhatIsDesired`, for
  lists of any length. Each loop is a function of how far it has come (`RuleBasedLoop`,
  `IntelligenceAwareLoop`); `Built` is its invariant, kept by one more capability
  (`BuiltFurther`): numbers only grow, the first `n` are planned as far as the catalog
  has them, in order. That it holds to the end goes by the least place where it would not.

`CycleSearchProofs` has the lemmas about the search itself, for any graph, dependencies
outside it included. `SearchOK` is inductive over `Continue`: the path is that of the
gray nodes (`PathOK`), what a node has still to follow shrinks with its colour
(`TodoOK`), and as long as no cycle was found a followed dependency is black or the
next on the path (`FollowedOK`) and no set of black nodes depends on itself
(`LeftOK`). `SearchDecides` reads the outcome off it.

`RuntimeProofs` proves, for any modules, manifests, configurations, hooks and stops,
switches and shutdowns (`RegistryAssumption`, `RuntimeAssumption`: no name is listed
twice, and manifests and configurations speak of the modules named):

* `ValidationIsNeverStale`, `LoopsFindWhatIsThere`, `HooksFindTheirRequirements`,
  `ReadyIsComplete`, `DependentsAreStoppedFirst`: the five invariants of `runtime_boot`,
  all from one inductive invariant, `RuntimeOK`. `PhaseOK` ties the place of a call to
  the Runtime's state; `LoopsOK` carries `SearchOK` and `OrderOK` of the loops under way;
  `ValidOK` says that from the start of the modules on what is enabled is valid, until
  somebody switches a module; `EarlyOK`, that before it nothing was started; `StartOK`,
  that records and queue together are all that is enabled, in an order in which
  dependencies come first (`QueueIn`), and what was started is registered; `StopOK`,
  that the dependents of what is next to stop have been stopped or come before it.
  `OrderOK` is Kahn's algorithm with a queue and sorted releases; that a set of names
  can be sorted at all is `ModulesCanBeSorted`.

`PipelineEngineProofs` proves, for any pipelines, attempts, capabilities and
interleaved runs on one container, whatever stages, compensations, `resolve` and
`publish` answer:

* `ResultAlwaysTells`: `Spec => []ResultTellsWhatHappened`, and
  `StagesAlwaysFollowTheDefinition`: `Spec => []StageCallsFollowTheDefinition`. The
  invariant `RunOK` is one run's: its state fits its place (`StateOK`), the completed
  stages are a beginning of the definition (`CompletedOK`), each call had the output
  before it and a reason (`ForwardOK`), records and compensations are those of calls
  that were made (`RecordsOK`, `CompensationsOK`), and a compensation goes backward
  (`BackwardOK`, `EndedOK`). A step of one run leaves the others at rest (`Own`).
* `EveryRunIsCompensated`: `Spec => ImplementsCompensatedRun`, action by action. The proof
  found that two branches of the mapping overlapped in states no run reaches; the
  mapping (`Phase`) now has one branch for each place.

`EvidencePlatformProofs` proves, for any jobs: artifacts, repositories, artifacts stored
at the start and runs of the commands, writers killed at any moment; trees, budgets and
walks; connectors, requests and threads; texts and budgets of a synthesis; and any changes
others make to the disk. The assumptions are `ArtifactsAssumption` (every repository named has artifacts, none is
stored twice), `TreesAssumption` (a disk that is walked is a tree, budgets are numbers),
`NameAssumption` (names have an order and `..` is none of those a directory lists),
`RequestsAssumption` (a text to write is not one of the marks for a directory or a link),
`NoneAssumption` (no error is the value for "nothing"), `ParsedAssumption` (what a text
states is a list), `ContentsAssumption` (what is on a disk that is read for facts is a
text `Parsed` tells of, a mark, or not UTF-8) and `EvaluationsAssumption` (an evaluation a
job begins with has one finding of a rule at most):

* `ReadersSeeOneWrite`: `Spec => []PairsAgreeUnlessInterrupted`. The files are two
  and written in turn, so the invariant of the store relates them: records are
  never older than metadata, are whole once there is metadata of the same write,
  and are newer only during a write or after it was killed (`PairOK`); how far a
  write has come shows in the files (`WriteShows`); an artifact has one writer at a
  time (`OneWriter`). A read keeps its metadata while writes go on, and `ReadOK`
  says what it may still find; `StoreGoesOn` is all it needs to know of a write.
* `CallsAlwaysAnswered`: `Spec => []CallsAreAnswered`. The invariant `InvokerOK` says that
  a registry that is ready names one provider for a capability at most (`RegistryOK`), that
  the connectors in the cache are connected and nothing is connected that was never cached
  (`InstancesOK`), and what a call at each of its places has and may still run into (`CallsOK`). A call is *steady*
  while the root is there and its path does not lead out of it; `DiskKept` and
  `SteadyKept` show that what other calls write, between the creation of a directory and
  the last byte of a file, ends no steady call.
* `EveryFileAccounted`: `Spec => []WalksAccountForEveryFile`. The invariant `WalkOK` relates
  the stack of visits to the tree and its history: the frames are a way down and the
  names they have still to go through were there (`FramesOK`); no file is both listed and
  still to come, so none is listed twice (`ListedOK`, `PassedBy`); and every path the walk can
  reach has been told of, is to come in some frame, or lies in the directory about to be
  visited (`Complete`). TLC checked `WalkOK`
  on the instance of `platform_runs` before it was proved. The walk keeps its names as
  sets and takes the least, so the proof needs no theory of sorting.
* `FactsAreStated`: `Spec => []FactsComeFromExaminedFiles`. The invariant `SynthesisOK`,
  checked by TLC on the same instance first, says that the inventory lists files once
  (`InventoryOK`), that a place of it is either still to examine or examined once or was
  left out with the truncation told (`ExaminedOK`), that what was spent is what was read
  (`BudgetOK`), and that what is said of a file that stayed as it was is what it states
  (`SaidOK`). What `FlattenSeq` yields, which the extraction of a file is written with, is
  `FlattenedFrom`; its recursion is followed by the least counterexample, since the
  induction theorems cannot be used.
* `FindingsAreCovered`: `Spec => []RecommendationsCoverTheFindings`. Each rule makes one
  finding of its own at most (`RulesFind`). `RootOf` is a recursive function over a forest
  whose parents only decrease; `UnionJoins` says what one union does to all roots,
  `LoopsJoin` what the loops come to: one root for all that are linked, and no set that
  links do not leave separates an element from its root. So the groups are the classes of
  `Reached`, which speaks of sets closed under links and knows nothing of roots
  (`GroupsAreReached`).

* `PublishedIsTrue`: `Spec => []PublishedPatternsAreTrue`, for repositories whose
  sources are a finite list of files that the parser can tell of (`SourcesAssumption`,
  `CodeAssumption`) and errors that differ from no error (`RaisedAssumption`). The
  property compares what a report shows with the classes themselves: `Controllers` is
  the least set of classes closed under subclasses of Document, which knows nothing of
  records, depths or frontiers. It has a premise, that no qualified name stands for two
  classes: a qualified name does not tell its repository, so two that are spelt alike are
  one symbol for the code, and a population would count them once. The premise holds of
  the trees of `platform_runs`. The argument has two halves. About the operators:
  the evidence of a tree lists a record exactly once for everything it states
  (`EvidenceListed`, `EvidenceIsStated`, `ClassesTold`); the walk reaches whoever has what
  it went down from as a base, nothing that is not in every closed set, and one declaration
  more at each depth, so that it is over after as many as there are (`WalkGoesDown`,
  `WalkEnds`, `DescendantsAre`); hence what `Aggregate` makes of complete evidence is
  true (`PatternsTell`). About the commands: `PatternsOK` says that the evidence sets
  are read in the order they were asked for (`ReadInOrder`), that a set of patterns that
  somebody wrote is the one that was made (`PatternsAreMade`), that it was made of
  the sets read (`MadeOfClean`) and that a report reads the patterns of its own repository
  (`ReportIs`). A read that is clean is of what was asked (`EachReadIs`), even though its
  two files are read in two steps between which writes go on.

Every safety invariant and action property of the passing runs is thus stated by a
theorem. Left to TLC is liveness (`EveryCallEnds`, `QueuesDrain`, `RunsEnd`, `RunEnds`),
which is out of the prover's reach, with ENABLED.

## Not modelled

* Where the models are wider than the code: the extraction stage of one run of
  `knowledge.graph_build` takes one document (extraction/stage.py:31), where the model
  gives one pattern extraction those of several. A repeated id keeps its places in
  the list after conflict resolution, all with the same artifact, where the code keeps one.
* Where they are narrower: conflicts nobody could settle stay in the code's list as
  Knowledge Conflicts and are not followed further; discovery looks at the size and time of
  its files one by one (discovery/engine.py:286), which `ClassifyEntries` does in one
  step; a `package.json` or `pyproject.toml` that is well-formed but of another shape than
  expected ends a synthesis with an AttributeError (synthesis/engine.py:409, 429), and the model
  has no such text. `HeldArtifactsAwaitDecision` compares contents: of two holds of
  one id the later entry stands, whose references may be fewer. A run whose request for
  approval could not be published leaves an entry too.
* YAML manifests and their schemas, dynamic import, factories of modules, the
  layered merge of configuration, secrets: lookups and parsing around calls of
  modelled components; they return or raise there.
* Argument parsing, rendering and logging of the command line, and its read-only
  commands; `composition_root/root.py`, which calls boot, one goal and shutdown
  in a straight line.
* Wording: titles, summaries, explanations, ids made by hashing, the texts
  parsers read. What is decided by them is kept as a value or a tag.
* `info()`, `stats()`, `all_healthy()` and other queries only read. Delays between
  retries are not modelled, their number is.
* Two processes that write one artifact at once; links on disk other than one
  that leaves the root, and the moment between resolving a path and writing to it in which
  such a link could be put there; permissions other than a directory that cannot be listed.
* The intelligence adapter's external service: `IntelligenceAware` of `Planning`
  takes its assessment as an input.

`PROJECT.json` gives the reason for each component.

## Plan

What would add most next, in this order:

1. `ConnectorInvoker` under `ExecutionEngine`, in place of its nondeterministic
   answers; the eight gates as stages of `PipelineEngine` proper, with its
   compensation.
2. The layered configuration merge, and the exit codes of the command line.
