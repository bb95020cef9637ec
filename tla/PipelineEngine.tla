---------------------------- MODULE PipelineEngine ---------------------------
(***************************************************************************)
(* runtime/pipeline/engine.py: PipelineEngine.run, called by several       *)
(* threads whose runs share one Container (see Container.tla).  Stages,    *)
(* compensations, providers and the event bus are outside: each answers in *)
(* any way its interface allows, raising included.                         *)
(***************************************************************************)
EXTENDS Naturals, Sequences, SequencesExt, FiniteSets, TLC

CONSTANTS
  Runs,         \* calls of run(); the run id is the scope id
  Definitions,  \* the pipelines the runs may be given: functions from run to a
                \* sequence of [capability, maxAttempts, rollback]
  Capabilities,
  NoCapability, \* rollback_capability=None
  Wirings       \* the registrations the container may hold

ASSUME PipelineAssumption ==
  /\ NoCapability \notin Capabilities
  /\ \A d \in Definitions : \A r \in Runs :
       /\ d[r] \in Seq([capability : Capabilities, maxAttempts : Nat,
                         rollback : Capabilities \cup {NoCapability}])
       /\ d[r] # <<>>

VARIABLES
  registrations, singletons, scoped, request, made, handed, dropped,
  pipeline,      \* the definition of each run
  pc,            \* where run() stands
  state,         \* run_lifecycle.state
  position,      \* the stage at hand, forwards or backwards
  attempt,       \* attempts at it
  data,          \* the value passed from stage to stage
  completed,     \* the outputs of the completed stages
  records,       \* the StageExecutionRecords
  calls,         \* history: every call of a stage as [stage, input, outcome]
  compensations, \* history: the compensations started, as [stage, output, returned]
  published      \* history: the states published

container == <<registrations, singletons, scoped, request, made, handed, dropped>>
run == <<pipeline, pc, state, position, attempt, data, completed, records>>
history == <<calls, compensations, published>>

Box == INSTANCE Container WITH
  Callers <- Runs, ScopeIds <- Runs, NoScopeId <- NoCapability,
  overlap <- TRUE, \* nothing is asked about it here
  MaxGeneration <- 1, MaxMade <- 1000 \* never reached

vars == <<container, run, history>>

Initial == [stage |-> 0, attempt |-> 0] \* initial_input
Output(r) == [stage |-> position[r], attempt |-> attempt'[r]]
Stage(r) == pipeline[r][position[r]]

Init ==
  /\ registrations \in Wirings
  /\ Box!ContainerInit
  /\ pipeline \in Definitions
  /\ pc = [r \in Runs |-> "queued"] /\ state = [r \in Runs |-> "queued"]
  /\ position = [r \in Runs |-> 1] /\ attempt = [r \in Runs |-> 0]
  /\ data = [r \in Runs |-> Initial]
  /\ completed = [r \in Runs |-> <<>>] /\ records = [r \in Runs |-> <<>>]
  /\ calls = [r \in Runs |-> <<>>] /\ compensations = [r \in Runs |-> <<>>]
  /\ published = [r \in Runs |-> <<>>]

Go(r, place) == pc' = [pc EXCEPT ![r] = place]
MoveTo(r, k) == position' = [position EXCEPT ![r] = k]
Log(f, r, x) == [f EXCEPT ![r] = Append(@, x)]

\* publish() may raise when a queue stays full; nothing in run() catches that.
Enter(r, st, place) ==
  /\ state' = [state EXCEPT ![r] = st]
  /\ \/ Go(r, place) /\ published' = Log(published, r, st)
     \/ Go(r, "raised") /\ UNCHANGED published

StartRun(r) ==
  /\ pc[r] = "queued"
  /\ Enter(r, "running", "stage")
  /\ UNCHANGED <<container, pipeline, position, attempt, data, completed, records, calls,
                 compensations>>

ResolveStage(r) ==
  /\ pc[r] = "stage" /\ position[r] <= Len(pipeline[r])
  /\ Box!Lookup(r, Stage(r).capability, r)
  /\ attempt' = [attempt EXCEPT ![r] = 0]
  /\ Go(r, "resolving")
  /\ UNCHANGED <<pipeline, state, position, data, completed, records, history>>

Unresolved(r) == "raised"

\* No attempt at all is made when max_attempts is 0: that raises as well.
StageResolved(r) ==
  /\ pc[r] = "resolving"
  /\ Box!Leave(r)
  /\ Go(r, IF request[r].state = "answered" /\ Stage(r).maxAttempts > 0
           THEN "calling" ELSE Unresolved(r))
  /\ UNCHANGED <<pipeline, state, position, attempt, data, completed, records, history>>

Called(r, outcome) ==
  /\ pc[r] = "calling"
  /\ attempt' = [attempt EXCEPT ![r] = @ + 1]
  /\ calls' = Log(calls, r, [stage |-> position[r], input |-> data[r], outcome |-> outcome])

StageSucceeds(r) ==
  /\ Called(r, "success")
  /\ data' = [data EXCEPT ![r] = Output(r)]
  /\ completed' = Log(completed, r, Output(r))
  /\ records' = Log(records, r, [outcome |-> "success", attempts |-> attempt'[r], rolledBack |-> FALSE])
  /\ MoveTo(r, position[r] + 1)
  /\ Go(r, "stage")
  /\ UNCHANGED <<container, pipeline, state, compensations, published>>

Retried(r, outcome) ==
  outcome \in {"raise", "retry_requested"} /\ attempt'[r] < Stage(r).maxAttempts

Carried_Output(r) == Output(r) \* mutant: an attempt's output is passed on although it failed

Carried(r) == data[r]

StageDoesNotSucceed(r, outcome) ==
  /\ Called(r, outcome)
  /\ data' = [data EXCEPT ![r] = Carried(r)]
  /\ IF Retried(r, outcome)
     THEN UNCHANGED <<pc, position, records>>
     ELSE /\ records' = Log(records, r,
                [outcome |-> IF outcome = "raise" THEN "failure" ELSE outcome,
                 attempts |-> attempt'[r], rolledBack |-> FALSE])
          /\ MoveTo(r, Len(completed[r]))
          /\ Go(r, "rollback")
  /\ UNCHANGED <<container, pipeline, state, completed, compensations, published>>

CompleteRun(r) ==
  /\ pc[r] = "stage" /\ position[r] > Len(pipeline[r])
  /\ Enter(r, "completed", "returned")
  /\ UNCHANGED <<container, pipeline, position, attempt, data, completed, records, calls,
                 compensations>>

Before_Stop(r) == 0 \* mutant: a compensation that raises ends the rollback

Before(r) == position[r] - 1

SkipCompensation_Stays(r) == \* mutant: a stage without compensation is passed over for ever
  /\ pc[r] = "rollback" /\ position[r] > 0
  /\ Stage(r).rollback = NoCapability
  /\ UNCHANGED vars

SkipCompensation(r) ==
  /\ pc[r] = "rollback" /\ position[r] > 0
  /\ Stage(r).rollback = NoCapability
  /\ MoveTo(r, position[r] - 1)
  /\ UNCHANGED <<container, pipeline, pc, state, attempt, data, completed, records, history>>

ResolveCompensation(r) ==
  /\ pc[r] = "rollback" /\ position[r] > 0
  /\ Stage(r).rollback # NoCapability
  /\ Box!Lookup(r, Stage(r).rollback, r)
  /\ compensations' = Log(compensations, r,
       [stage |-> position[r], output |-> completed[r][position[r]], returned |-> FALSE])
  /\ Go(r, "resolving_compensation")
  /\ UNCHANGED <<pipeline, state, position, attempt, data, completed, records, calls, published>>

CompensationResolved(r) ==
  /\ pc[r] = "resolving_compensation"
  /\ Box!Leave(r)
  /\ IF request[r].state = "answered"
     THEN Go(r, "compensating") /\ UNCHANGED position
     ELSE Go(r, "rollback") /\ MoveTo(r, Before(r)) \* logged
  /\ UNCHANGED <<pipeline, state, attempt, data, completed, records, history>>

CompensationReturns(r) ==
  /\ pc[r] = "compensating"
  /\ records' = [records EXCEPT ![r][position[r]].rolledBack = TRUE]
  /\ compensations' = [compensations EXCEPT ![r][Len(compensations[r])].returned = TRUE]
  /\ MoveTo(r, position[r] - 1)
  /\ Go(r, "rollback")
  /\ UNCHANGED <<container, pipeline, state, attempt, data, completed, calls, published>>

CompensationRaises_Marked(r) == \* mutant: rolled_back is set before the call
  /\ pc[r] = "compensating"
  /\ records' = [records EXCEPT ![r][position[r]].rolledBack = TRUE]
  /\ MoveTo(r, Before(r))
  /\ Go(r, "rollback")
  /\ UNCHANGED <<container, pipeline, state, attempt, data, completed, history>>

CompensationRaises(r) ==
  /\ pc[r] = "compensating"
  /\ MoveTo(r, Before(r))
  /\ Go(r, "rollback")
  /\ UNCHANGED <<container, pipeline, state, attempt, data, completed, records, history>>

\* FAILED, ROLLING_BACK and ROLLED_BACK follow each other with nothing between.
FinishRollback(r) ==
  /\ pc[r] = "rollback" /\ position[r] = 0
  /\ Enter(r, "rolled_back", "returned")
  /\ UNCHANGED <<container, pipeline, position, attempt, data, completed, records, calls,
                 compensations>>

Resolving(r) == Box!Resolving(r) /\ UNCHANGED <<run, history>>

Ended(r) == pc[r] \in {"returned", "raised"}

Step(r) ==
  \/ StartRun(r) \/ ResolveStage(r) \/ StageResolved(r) \/ StageSucceeds(r)
  \/ \E outcome \in {"failure", "retry_requested", "raise"} : StageDoesNotSucceed(r, outcome)
  \/ CompleteRun(r) \/ SkipCompensation(r) \/ ResolveCompensation(r) \/ CompensationResolved(r)
  \/ CompensationReturns(r) \/ CompensationRaises(r) \/ FinishRollback(r)
  \/ Resolving(r)

Next == \E r \in Runs : Step(r)

Spec == Init /\ [][Next]_vars

\* Every thread inside run() goes on: providers, stages and compensations return.
FairSpec == Spec /\ \A r \in Runs : WF_vars(Step(r))
------------------------------------------------------------------------------
(* Properties.                                                             *)

\* engine.py:166-225: a stage, retried or not, is called with the output of the
\* stage before it as that stage's successful call gave it, never more often
\* than max_attempts, and never again once it succeeded or reported FAILURE.
\* (That a call that raised is repeated, as the code does and its comment and
\* docs say it does not, is the matter of OnlyRequestedRetries.)
StageCallsFollowTheDefinition ==
  \A r \in Runs : \A i \in 1..Len(calls[r]) :
    LET c == calls[r][i]
        earlier == {j \in 1..(i - 1) : calls[r][j].stage = c.stage}
    IN /\ IF c.stage = 1 THEN c.input = Initial
          ELSE /\ c.input.stage = c.stage - 1
               /\ \E j \in 1..(i - 1) :
                    /\ calls[r][j].stage = c.stage - 1 /\ calls[r][j].outcome = "success"
                    /\ c.input.attempt = Cardinality({k \in 1..j : calls[r][k].stage = c.stage - 1})
       /\ Cardinality(earlier) < pipeline[r][c.stage].maxAttempts
       /\ \A j \in earlier : calls[r][j].outcome \notin {"success", "failure"}

CallsOf(r, k) == {i \in 1..Len(calls[r]) : calls[r][i].stage = k}
LastCall(r, k) == CHOOSE i \in CallsOf(r, k) : \A j \in CallsOf(r, k) : j <= i

\* The result run() returns and what PipelineRunStateChanged says of it.
\* COMPLETED when every stage's last call succeeded, ROLLED_BACK when the last
\* stage called did not; attempts counts the calls and rolled_back says whether
\* the compensation of that stage's output returned.  A run that returns has
\* published that it was running and then the state it returns; one that raises
\* has published no final state it did not reach.
ResultTellsWhatHappened ==
  \A r \in Runs :
    /\ published[r] \in {<<>>, <<"running">>, <<"running", state[r]>>}
    /\ pc[r] = "returned" =>
         /\ published[r] = <<"running", state[r]>>
         /\ state[r] = "completed" <=> Len(completed[r]) = Len(pipeline[r])
         /\ state[r] = "rolled_back" <=> Last(calls[r]).outcome # "success"
         /\ \A k \in 1..Len(records[r]) :
              LET attempts == Cardinality(CallsOf(r, k)) IN
              /\ CallsOf(r, k) # {} /\ records[r][k].attempts = attempts
              /\ records[r][k].outcome = "success" <=> calls[r][LastCall(r, k)].outcome = "success"
              /\ records[r][k].rolledBack <=>
                   \E i \in 1..Len(compensations[r]) :
                     compensations[r][i] =
                       [stage |-> k, output |-> [stage |-> k, attempt |-> attempts], returned |-> TRUE]

Phase(r) ==
  IF state[r] \in {"completed", "rolled_back"} THEN state[r] \* also when publish() raises then
  ELSE CASE pc[r] \in {"rollback", "resolving_compensation", "compensating"} -> "backward"
         [] pc[r] = "raised" -> "abandoned"
         [] OTHER -> "forward"

Compensable(r) == {k \in 1..Len(pipeline[r]) : pipeline[r][k].rollback # NoCapability}
UndoneStages(r) == [i \in 1..Len(compensations[r]) |-> compensations[r][i].stage]

Compensation == INSTANCE CompensatedRun WITH
  length <- [r \in Runs |-> Len(pipeline[r])],
  compensable <- [r \in Runs |-> Compensable(r)],
  done <- [r \in Runs |-> Len(completed[r])],
  undone <- [r \in Runs |-> UndoneStages(r)],
  phase <- [r \in Runs |-> Phase(r)]

\* engine.py:231-254: every run is a CompensatedRun, even when compensations
\* cannot be resolved or raise and other runs use the container meanwhile.
ImplementsCompensatedRun == Compensation!Spec

\* Every run() comes to an end once what it calls returns.
RunsEnd == \A r \in Runs : <>Ended(r)

\* PIPELINE_ENGINE.md, section 6, of a run that a stage could not be resolved
\* for: it should be rolled back like any other run that fails at that stage.
FailedRunsAreRolledBack ==
  \A r \in Runs : pc[r] = "raised" /\ state[r] = "running" =>
    \A k \in 1..Len(completed[r]) : pipeline[r][k].rollback # NoCapability =>
      \E i \in 1..Len(compensations[r]) : compensations[r][i].stage = k

\* PIPELINE_ENGINE.md:35: a stage is called again "only ... if the module reports
\* stage_result: retry-requested"; engine.py:202: one that raises "is treated as
\* StageOutcome.FAILURE", which is not retried.  engine.py:208 retries it.
OnlyRequestedRetries ==
  \A r \in Runs : \A i, j \in 1..Len(calls[r]) :
    i < j /\ calls[r][i].stage = calls[r][j].stage => calls[r][i].outcome = "retry_requested"

\* di.py:118-122: the instances of a run's scope are gone once the run is over.
ScopesAreTornDown ==
  \A r \in Runs : Ended(r) => \A k \in DOMAIN scoped : k[3] # r
==============================================================================
