-------------------------- MODULE PipelineEngineProofs -------------------------
(***************************************************************************)
(* Proofs about the pipeline engine, for any number of runs, any pipelines *)
(* and registrations, whatever stages, providers, compensations and the    *)
(* event bus answer.                                                       *)
(***************************************************************************)
EXTENDS PipelineEngine, FiniteSetTheorems, SequenceTheorems, TLAPS

------------------------------------------------------------------------------
(* What belongs to one run.                                                *)

Forward == {"queued", "stage", "resolving", "calling"}
Backward == {"rollback", "resolving_compensation", "compensating"}
Places == Forward \cup Backward \cup {"returned", "raised"}
RunStates == {"queued", "running", "completed", "rolled_back"}
Failures == {"failure", "retry_requested", "raise"}

OutputType == [stage : Nat, attempt : Nat]
CallType == [stage : Nat, input : OutputType, outcome : {"success"} \cup Failures]
RecordType == [outcome : {"success", "failure", "retry_requested"}, attempts : Nat, rolledBack : BOOLEAN]
CompensationType == [stage : Nat, output : OutputType, returned : BOOLEAN]
StageType == [capability : Capabilities, maxAttempts : Nat, rollback : Capabilities \cup {NoCapability}]

TypesOK ==
  /\ pipeline \in Definitions
  /\ pc \in [Runs -> Places] /\ state \in [Runs -> RunStates]
  /\ position \in [Runs -> Nat] /\ attempt \in [Runs -> Nat]
  /\ data \in [Runs -> OutputType]
  /\ completed \in [Runs -> Seq(OutputType)]
  /\ records \in [Runs -> Seq(RecordType)]
  /\ calls \in [Runs -> Seq(CallType)]
  /\ compensations \in [Runs -> Seq(CompensationType)]
  /\ published \in [Runs -> Seq(RunStates)]

Size(r) == Len(pipeline[r])
Done(r) == Len(completed[r])
Begun(r) == CallsOf(r, Done(r) + 1)
Undone(r, k) == \E i \in 1..Len(compensations[r]) : compensations[r][i].stage = k

\* What the run has published and where it stands agree.
StateOK(r) ==
  /\ pc[r] = "queued" => state[r] = "queued" /\ published[r] = <<>>
  /\ pc[r] \in (Forward \ {"queued"}) \cup Backward => state[r] = "running" /\ published[r] = <<"running">>
  /\ pc[r] = "returned" => state[r] \in {"completed", "rolled_back"} /\ published[r] = <<"running", state[r]>>
  /\ pc[r] = "raised" => state[r] # "queued" /\ published[r] \in {<<>>, <<"running">>}

\* Every completed stage ended with the call that gave its output; its calls
\* come after those of the stages before it.
CompletedOK(r) ==
  /\ Done(r) <= Size(r)
  /\ \A i, j \in 1..Len(calls[r]) : i < j => calls[r][i].stage <= calls[r][j].stage
  /\ \A i \in 1..Len(calls[r]) : calls[r][i].stage \in 1..(Done(r) + 1)
  /\ \A k \in 1..Done(r) :
       /\ completed[r][k] = [stage |-> k, attempt |-> Cardinality(CallsOf(r, k))]
       /\ \E i \in CallsOf(r, k) :
            calls[r][i].outcome = "success" /\ \A j \in CallsOf(r, k) : j <= i

\* On its way forward the run is at the stage after the completed ones.
ForwardOK(r) ==
  pc[r] \in Forward =>
    /\ position[r] = Done(r) + 1
    /\ pc[r] \in {"resolving", "calling"} => position[r] <= Size(r)
    /\ data[r] = IF Done(r) = 0 THEN Initial ELSE completed[r][Done(r)]
    /\ compensations[r] = <<>>
    /\ Len(records[r]) = Done(r)
    /\ pc[r] # "calling" => Begun(r) = {}
    /\ pc[r] = "resolving" => attempt[r] = 0
    /\ pc[r] = "calling" =>
         /\ attempt[r] = Cardinality(Begun(r)) /\ attempt[r] < pipeline[r][position[r]].maxAttempts
         /\ \A i \in Begun(r) : calls[r][i].outcome \in {"raise", "retry_requested"}

\* The records tell what became of the stages, and of their compensations.
RecordsOK(r) ==
  /\ Done(r) <= Len(records[r]) /\ Len(records[r]) <= Done(r) + 1
  /\ \A k \in 1..Len(records[r]) :
       /\ CallsOf(r, k) # {} /\ records[r][k].attempts = Cardinality(CallsOf(r, k))
       /\ records[r][k].outcome = "success" <=> k <= Done(r)
       /\ records[r][k].rolledBack <=>
            \E i \in 1..Len(compensations[r]) :
              compensations[r][i].stage = k /\ compensations[r][i].returned

\* The compensations started: of completed stages that declare one, each with
\* the stage's output, in reverse order.
CompensationsOK(r) ==
  /\ \A i \in 1..Len(compensations[r]) :
       LET k == compensations[r][i].stage IN
       /\ k \in 1..Done(r) /\ pipeline[r][k].rollback # NoCapability
       /\ compensations[r][i].output = completed[r][k]
  /\ \A i, j \in 1..Len(compensations[r]) : i < j => compensations[r][j].stage < compensations[r][i].stage

\* After a failure: everything above the stage at hand has had its turn.
FailedOK(r) ==
  /\ Done(r) < Size(r) /\ Len(records[r]) = Done(r) + 1
  /\ calls[r] # <<>> /\ calls[r][Len(calls[r])].stage = Done(r) + 1
  /\ calls[r][Len(calls[r])].outcome # "success"

BackwardOK(r) ==
  pc[r] \in Backward =>
    /\ FailedOK(r)
    /\ position[r] <= Done(r)
    /\ \A k \in (position[r] + 1)..Done(r) : pipeline[r][k].rollback # NoCapability => Undone(r, k)
    /\ pc[r] = "rollback" => \A i \in 1..Len(compensations[r]) : compensations[r][i].stage > position[r]
    /\ pc[r] # "rollback" =>
         /\ position[r] > 0 /\ compensations[r] # <<>>
         /\ compensations[r][Len(compensations[r])].stage = position[r]
         /\ ~compensations[r][Len(compensations[r])].returned

\* What a run that is over came to.
EndedOK(r) ==
  /\ state[r] = "completed" =>
       /\ Done(r) = Size(r) /\ Begun(r) = {}
       /\ Len(records[r]) = Done(r) /\ compensations[r] = <<>>
  /\ state[r] = "rolled_back" =>
       /\ FailedOK(r)
       /\ \A k \in 1..Done(r) : pipeline[r][k].rollback # NoCapability => Undone(r, k)

RunOK(r) ==
  /\ StateOK(r) /\ CompletedOK(r) /\ ForwardOK(r) /\ RecordsOK(r)
  /\ CompensationsOK(r) /\ BackwardOK(r) /\ EndedOK(r)

Inv == TypesOK /\ \A r \in Runs : RunOK(r)

------------------------------------------------------------------------------
(* Calls, stage by stage.                                                  *)

LEMMA CallsAreFinite ==
  ASSUME TypesOK, NEW r \in Runs, NEW k
  PROVE  IsFiniteSet(CallsOf(r, k)) /\ Cardinality(CallsOf(r, k)) \in Nat
<1>1. Len(calls[r]) \in Nat
  BY DEF TypesOK
<1>2. IsFiniteSet(1..Len(calls[r])) /\ CallsOf(r, k) \in SUBSET (1..Len(calls[r]))
  BY <1>1, FS_Interval DEF CallsOf
<1>3. IsFiniteSet(CallsOf(r, k))
  BY <1>2, FS_Subset
<1> QED BY <1>3, FS_CardinalityType

\* One more call.
LEMMA OneMoreCall ==
  ASSUME TypesOK, NEW r \in Runs, NEW c \in CallType, calls'[r] = Append(calls[r], c)
  PROVE  /\ CallsOf(r, c.stage)' = CallsOf(r, c.stage) \cup {Len(calls[r]) + 1}
         /\ Cardinality(CallsOf(r, c.stage)') = Cardinality(CallsOf(r, c.stage)) + 1
         /\ \A k : k # c.stage => CallsOf(r, k)' = CallsOf(r, k)
         /\ Len(calls'[r]) = Len(calls[r]) + 1 /\ calls'[r][Len(calls[r]) + 1] = c
         /\ \A i \in 1..Len(calls[r]) : calls'[r][i] = calls[r][i]
<1> DEFINE n == Len(calls[r])
<1>1. calls[r] \in Seq(CallType) /\ n \in Nat
  BY DEF TypesOK
<1>2. Len(calls'[r]) = n + 1 /\ calls'[r][n + 1] = c /\ \A i \in 1..n : calls'[r][i] = calls[r][i]
  BY <1>1
<1>3. \A k : CallsOf(r, k)' = {i \in 1..(n + 1) : calls'[r][i].stage = k}
  BY <1>2 DEF CallsOf
<1>4. CallsOf(r, c.stage)' = CallsOf(r, c.stage) \cup {n + 1}
  <2>1. \A i : i \in 1..(n + 1) <=> i \in 1..n \/ i = n + 1
    BY <1>1
  <2> QED BY <1>2, <1>3, <2>1 DEF CallsOf
<1>5. \A k : k # c.stage => CallsOf(r, k)' = CallsOf(r, k)
  <2>1. \A i : i \in 1..(n + 1) <=> i \in 1..n \/ i = n + 1
    BY <1>1
  <2> QED BY <1>2, <1>3, <2>1 DEF CallsOf
<1>6. n + 1 \notin CallsOf(r, c.stage)
  BY <1>1 DEF CallsOf
<1>7. Cardinality(CallsOf(r, c.stage) \cup {n + 1}) = Cardinality(CallsOf(r, c.stage)) + 1
  <2> HIDE DEF n
  <2> QED BY <1>6, CallsAreFinite, FS_AddElement
<1> QED BY <1>2, <1>4, <1>5, <1>7

------------------------------------------------------------------------------
(* Steps that complete, call, record and compensate nothing.               *)

Story(r) == <<pipeline, completed[r], records[r], calls[r], compensations[r]>>

LEMMA StoryStays ==
  ASSUME NEW r \in Runs, UNCHANGED Story(r)
  PROVE  /\ CompletedOK(r) => CompletedOK(r)'
         /\ RecordsOK(r) => RecordsOK(r)'
         /\ CompensationsOK(r) => CompensationsOK(r)'
         /\ FailedOK(r) => FailedOK(r)'
         /\ \A k : Undone(r, k)' = Undone(r, k)
         /\ Done(r)' = Done(r) /\ Size(r)' = Size(r) /\ Begun(r)' = Begun(r)
<1>1. \A k : CallsOf(r, k)' = CallsOf(r, k)
  BY DEF Story, CallsOf
<1>2. Done(r)' = Done(r) /\ Size(r)' = Size(r)
  BY DEF Story, Done, Size
<1>3. UNCHANGED <<pipeline, completed[r], records[r], calls[r], compensations[r]>>
  BY DEF Story
<1>4. Begun(r)' = Begun(r)
  BY <1>1, <1>2 DEF Begun
<1>5. CompletedOK(r) => CompletedOK(r)'
  BY <1>1, <1>2, <1>3 DEF CompletedOK
<1>6. RecordsOK(r) => RecordsOK(r)'
  BY <1>1, <1>2, <1>3 DEF RecordsOK
<1>7. CompensationsOK(r) => CompensationsOK(r)'
  BY <1>2, <1>3 DEF CompensationsOK
<1>8. FailedOK(r) => FailedOK(r)'
  BY <1>2, <1>3 DEF FailedOK
<1> QED BY <1>2, <1>3, <1>4, <1>5, <1>6, <1>7, <1>8 DEF Undone

\* A run nothing of which changes.
Own(r) == <<Story(r), pc[r], state[r], position[r], attempt[r], data[r], published[r]>>

LEMMA RunRests ==
  ASSUME NEW r \in Runs, RunOK(r), UNCHANGED Own(r)
  PROVE  RunOK(r)'
<1>1. UNCHANGED Story(r) /\ UNCHANGED <<pipeline, completed[r], records[r], calls[r], compensations[r],
                                       pc[r], state[r], position[r], attempt[r], data[r], published[r]>>
  BY DEF Own, Story
<1>2. StateOK(r)'
  BY <1>1 DEF RunOK, StateOK
<1>3. ForwardOK(r)'
  BY <1>1, StoryStays DEF RunOK, ForwardOK
<1>4. BackwardOK(r)'
  BY <1>1, StoryStays DEF RunOK, BackwardOK
<1>5. EndedOK(r)'
  BY <1>1, StoryStays DEF RunOK, EndedOK
<1> QED BY <1>1, <1>2, <1>3, <1>4, <1>5, StoryStays DEF RunOK

\* The other runs are left alone.
OthersRest(r) == \A s \in Runs : s # r => UNCHANGED Own(s)

LEMMA Members ==
  /\ \A p \in {"stage", "resolving", "calling", "rollback", "resolving_compensation", "compensating",
               "returned", "raised"} : p \in Places
  /\ \A s \in {"running", "completed", "rolled_back"} : s \in RunStates
BY DEF Places, Forward, Backward, RunStates

LEMMA EnterTypes ==
  ASSUME TypesOK, NEW r \in Runs, NEW st \in RunStates, NEW place, Enter(r, st, place)
  PROVE  published' \in [Runs -> Seq(RunStates)]
<1>1. Append(published[r], st) \in Seq(RunStates)
  BY DEF TypesOK
<1>2. published' \in {published, [published EXCEPT ![r] = Append(published[r], st)]}
  BY DEF Enter, Log
<1> QED BY <1>1, <1>2 DEF TypesOK

LEMMA TwoElements ==
  ASSUME NEW S, NEW x \in S, NEW y \in S
  PROVE  Append(<<x>>, y) = <<x, y>>
<1> DEFINE s == Append(<<x>>, y)
           t == <<x, y>>
<1>1. s \in Seq(S) /\ t \in Seq(S) /\ Len(s) = 2 /\ Len(t) = 2 /\ s[1] = t[1] /\ s[2] = t[2]
  OBVIOUS
<1>2. \A i \in 1..Len(s) : s[i] = t[i]
  BY <1>1
<1> HIDE DEF s, t
<1>3. s = t
  BY <1>1, <1>2, SeqEqual
<1> QED BY <1>3 DEF s, t

\* What such a step of one run has to establish.
LEMMA StoryKept ==
  ASSUME NEW r \in Runs, RunOK(r), UNCHANGED Story(r),
         StateOK(r)', ForwardOK(r)', BackwardOK(r)', EndedOK(r)'
  PROVE  RunOK(r)'
BY StoryStays DEF RunOK

LEMMA StartRunStep ==
  ASSUME TypesOK, NEW r \in Runs, RunOK(r), StartRun(r)
  PROVE  TypesOK' /\ RunOK(r)' /\ OthersRest(r)
<1>1. TypesOK'
  <2>1. state' \in [Runs -> RunStates] /\ pc' \in [Runs -> Places]
    BY Members DEF TypesOK, StartRun, Enter, Go
  <2>2. published' \in [Runs -> Seq(RunStates)]
    BY Members, EnterTypes DEF TypesOK, StartRun
  <2> QED BY <2>1, <2>2 DEF TypesOK, StartRun
<1>2. UNCHANGED Story(r) /\ OthersRest(r)
  BY DEF TypesOK, StartRun, Enter, Go, Log, Story, OthersRest, Own
<1>3. /\ pc[r] = "queued" /\ state'[r] = "running" /\ published[r] = <<>>
      /\ \/ pc'[r] = "stage" /\ published'[r] = <<"running">>
         \/ pc'[r] = "raised" /\ published'[r] = <<>>
      /\ UNCHANGED <<position, attempt, data, completed, records, compensations>>
  BY DEF TypesOK, StartRun, Enter, Go, Log, RunOK, StateOK
<1>4. StateOK(r)' /\ BackwardOK(r)' /\ EndedOK(r)'
  BY <1>3 DEF StateOK, BackwardOK, EndedOK, Forward, Backward
<1>5. ForwardOK(r)'
  BY <1>2, <1>3, StoryStays DEF ForwardOK, RunOK, Forward
<1> QED BY <1>1, <1>2, <1>4, <1>5, StoryKept

LEMMA ResolveStageStep ==
  ASSUME TypesOK, NEW r \in Runs, RunOK(r), ResolveStage(r)
  PROVE  TypesOK' /\ RunOK(r)' /\ OthersRest(r)
<1>1. TypesOK'
  BY Members DEF TypesOK, ResolveStage, Go, history
<1>2. UNCHANGED Story(r) /\ OthersRest(r)
  BY DEF TypesOK, ResolveStage, Go, history, Story, OthersRest, Own
<1>3. /\ pc[r] = "stage" /\ pc'[r] = "resolving" /\ position[r] <= Size(r)
      /\ UNCHANGED <<position, state, published, data, completed, records, compensations>>
      /\ attempt'[r] = 0
  BY DEF TypesOK, ResolveStage, Go, history, Size
<1>4. StateOK(r)' /\ BackwardOK(r)' /\ EndedOK(r)'
  BY <1>3 DEF RunOK, StateOK, BackwardOK, EndedOK, Forward, Backward
<1>5. ForwardOK(r)'
  BY <1>2, <1>3, StoryStays DEF ForwardOK, RunOK, Forward
<1> QED BY <1>1, <1>2, <1>4, <1>5, StoryKept

LEMMA StageResolvedStep ==
  ASSUME TypesOK, NEW r \in Runs, RunOK(r), StageResolved(r)
  PROVE  TypesOK' /\ RunOK(r)' /\ OthersRest(r)
<1>1. TypesOK'
  BY Members DEF TypesOK, StageResolved, Go, Unresolved, history
<1>2. UNCHANGED Story(r) /\ OthersRest(r)
  BY DEF TypesOK, StageResolved, Go, history, Story, OthersRest, Own
<1>3. /\ pc[r] = "resolving"
      /\ \/ pc'[r] = "calling" /\ pipeline[r][position[r]].maxAttempts > 0
         \/ pc'[r] = "raised"
      /\ UNCHANGED <<pipeline, position, state, published, attempt, data, completed, records, compensations>>
  BY DEF TypesOK, StageResolved, Go, history, Unresolved, Stage
<1>4. StateOK(r)' /\ BackwardOK(r)' /\ EndedOK(r)'
  BY <1>3 DEF RunOK, StateOK, BackwardOK, EndedOK, Forward, Backward
<1>5. ForwardOK(r)'
  <2>1. attempt[r] = 0 /\ UNCHANGED attempt /\ Begun(r) = {}
    BY <1>3 DEF RunOK, ForwardOK, Forward
  <2>2. Cardinality(Begun(r)') = 0 /\ Begun(r)' = {}
    BY <1>2, <2>1, StoryStays, FS_EmptySet
  <2> QED BY <1>2, <1>3, <2>1, <2>2, StoryStays DEF ForwardOK, RunOK, Forward
<1> QED BY <1>1, <1>2, <1>4, <1>5, StoryKept

LEMMA CompleteRunStep ==
  ASSUME TypesOK, NEW r \in Runs, RunOK(r), CompleteRun(r)
  PROVE  TypesOK' /\ RunOK(r)' /\ OthersRest(r)
<1>1. TypesOK'
  <2>1. state' \in [Runs -> RunStates] /\ pc' \in [Runs -> Places]
    BY Members DEF TypesOK, CompleteRun, Enter, Go
  <2>2. published' \in [Runs -> Seq(RunStates)]
    BY Members, EnterTypes DEF TypesOK, CompleteRun
  <2> QED BY <2>1, <2>2 DEF TypesOK, CompleteRun
<1>2. UNCHANGED Story(r) /\ OthersRest(r)
  BY DEF TypesOK, CompleteRun, Enter, Go, Log, Story, OthersRest, Own
<1>3. /\ pc[r] = "stage" /\ position[r] > Size(r) /\ state'[r] = "completed"
      /\ \/ pc'[r] = "returned" /\ published'[r] = <<"running", "completed">>
         \/ pc'[r] = "raised" /\ published'[r] = <<"running">>
      /\ UNCHANGED <<position, data, completed, records, compensations>>
  <2>1. pc[r] = "stage" /\ published[r] \in Seq(RunStates)
    BY DEF TypesOK, CompleteRun
  <2>2. published[r] = <<"running">>
    BY <2>1 DEF RunOK, StateOK, Forward
  <2>3. Append(published[r], "completed") = <<"running", "completed">>
    BY <2>2, TwoElements, Members
  <2> QED BY <2>1, <2>2, <2>3 DEF TypesOK, CompleteRun, Enter, Go, Log, Size
<1>4. StateOK(r)' /\ BackwardOK(r)' /\ ForwardOK(r)'
  BY <1>3 DEF StateOK, BackwardOK, ForwardOK, Forward, Backward
<1>5. EndedOK(r)'
  <2>1. Done(r) \in Nat /\ Size(r) \in Nat
    BY PipelineAssumption DEF TypesOK, Done, Size
  <2>2. position[r] = Done(r) + 1 /\ Done(r) <= Size(r) /\ Len(records[r]) = Done(r) /\ compensations[r] = <<>>
         /\ Begun(r) = {}
    BY <1>3 DEF RunOK, ForwardOK, CompletedOK, Forward
  <2> QED BY <1>2, <1>3, <2>1, <2>2, StoryStays DEF EndedOK
<1> QED BY <1>1, <1>2, <1>4, <1>5, StoryKept

------------------------------------------------------------------------------
(* On the way back.                                                        *)

\* Leaving the stage at hand once it has had its turn.
LEMMA OneStageBack ==
  ASSUME TypesOK, NEW r \in Runs, RunOK(r), pc[r] \in Backward, pc'[r] = "rollback",
         UNCHANGED <<pipeline, completed[r], state[r], published[r]>>, FailedOK(r)',
         Len(compensations'[r]) = Len(compensations[r]),
         \A i \in 1..Len(compensations[r]) : compensations'[r][i].stage = compensations[r][i].stage,
         position[r] > 0, position'[r] = position[r] - 1,
         pipeline[r][position[r]].rollback = NoCapability \/ pc[r] # "rollback"
  PROVE  StateOK(r)' /\ ForwardOK(r)' /\ BackwardOK(r)' /\ EndedOK(r)'
<1>1. Done(r)' = Done(r) /\ \A k : Undone(r, k)' <=> Undone(r, k)
  BY DEF Done, Undone
<1>2. StateOK(r)' /\ ForwardOK(r)' /\ EndedOK(r)'
  BY DEF RunOK, StateOK, ForwardOK, EndedOK, Forward, Backward
<1>3. position[r] \in Nat /\ Done(r) \in Nat /\ compensations[r] \in Seq(CompensationType)
  BY DEF TypesOK, Done
<1>4. BackwardOK(r) /\ CompensationsOK(r)
  BY DEF RunOK
<1>5. \A k \in position[r]..Done(r) : pipeline[r][k].rollback # NoCapability => Undone(r, k)
  <2>1. pc[r] # "rollback" => Undone(r, position[r])
    BY <1>3, <1>4 DEF BackwardOK, Undone
  <2>2. pipeline[r][position[r]].rollback # NoCapability => Undone(r, position[r])
    BY <2>1
  <2>3. \A k \in position[r]..Done(r) : k = position[r] \/ k \in (position[r] + 1)..Done(r)
    BY <1>3
  <2> QED BY <1>4, <2>2, <2>3 DEF BackwardOK
<1>6. \A i \in 1..Len(compensations[r]) : compensations[r][i].stage > position[r] - 1
  <2> DEFINE n == Len(compensations[r])
  <2>0. \A i \in 1..n : compensations[r][i].stage \in Nat
    BY <1>3, <1>4 DEF CompensationsOK
  <2>1. CASE pc[r] = "rollback"
    BY <1>3, <1>4, <2>0, <2>1 DEF BackwardOK, Backward
  <2>2. CASE pc[r] # "rollback"
    <3> SUFFICES ASSUME NEW i \in 1..n PROVE compensations[r][i].stage > position[r] - 1
      OBVIOUS
    <3>1. n \in Nat /\ n \in 1..n /\ compensations[r][n].stage = position[r]
      BY <1>3, <1>4, <2>2 DEF BackwardOK
    <3>2. compensations[r][i].stage \in Nat
      BY <2>0
    <3>3. i = n \/ i < n
      BY <3>1
    <3>4. i < n => compensations[r][n].stage < compensations[r][i].stage
      BY <1>4, <3>1 DEF CompensationsOK
    <3> QED BY <1>3, <3>1, <3>2, <3>3, <3>4
  <2> QED BY <2>1, <2>2
<1>7. BackwardOK(r)'
  <2>1. position[r] - 1 <= Done(r) /\ (position[r] - 1) + 1 = position[r]
    BY <1>3, <1>4 DEF BackwardOK
  <2> QED BY <1>1, <1>5, <1>6, <2>1 DEF BackwardOK
<1> QED BY <1>2, <1>7

LEMMA OneStageBackKept ==
  ASSUME TypesOK, NEW r \in Runs, RunOK(r), pc[r] \in Backward, pc'[r] = "rollback",
         UNCHANGED Story(r), UNCHANGED <<state[r], published[r]>>,
         position[r] > 0, position'[r] = position[r] - 1,
         pipeline[r][position[r]].rollback = NoCapability \/ pc[r] # "rollback"
  PROVE  RunOK(r)'
<1>1. FailedOK(r)'
  BY StoryStays DEF RunOK, BackwardOK
<1>2. UNCHANGED <<pipeline, completed[r], compensations[r]>>
  BY DEF Story
<1>3. StateOK(r)' /\ ForwardOK(r)' /\ BackwardOK(r)' /\ EndedOK(r)'
  BY <1>1, <1>2, OneStageBack
<1> QED BY <1>3, StoryKept

LEMMA SkipCompensationStep ==
  ASSUME TypesOK, NEW r \in Runs, RunOK(r), SkipCompensation(r)
  PROVE  TypesOK' /\ RunOK(r)' /\ OthersRest(r)
<1>1. TypesOK'
  BY DEF TypesOK, SkipCompensation, MoveTo, history
<1>2. UNCHANGED Story(r) /\ OthersRest(r)
  BY DEF TypesOK, SkipCompensation, MoveTo, history, Story, OthersRest, Own
<1>3. /\ pc[r] \in Backward /\ pc'[r] = "rollback" /\ position[r] > 0 /\ position'[r] = position[r] - 1
      /\ pipeline[r][position[r]].rollback = NoCapability /\ UNCHANGED <<state[r], published[r]>>
  BY DEF TypesOK, SkipCompensation, MoveTo, history, Stage, Backward
<1> QED BY <1>1, <1>2, <1>3, OneStageBackKept

LEMMA CompensationRaisesStep ==
  ASSUME TypesOK, NEW r \in Runs, RunOK(r), CompensationRaises(r)
  PROVE  TypesOK' /\ RunOK(r)' /\ OthersRest(r)
<1>1. pc[r] = "compensating" /\ position[r] > 0
  BY DEF CompensationRaises, RunOK, BackwardOK, Backward
<1>2. TypesOK'
  BY <1>1, Members DEF TypesOK, CompensationRaises, MoveTo, Go, Before, history
<1>3. UNCHANGED Story(r) /\ OthersRest(r)
  BY DEF TypesOK, CompensationRaises, MoveTo, Go, history, Story, OthersRest, Own
<1>4. /\ pc'[r] = "rollback" /\ position'[r] = position[r] - 1
      /\ UNCHANGED <<state[r], published[r]>>
  BY DEF TypesOK, CompensationRaises, MoveTo, Go, Before, history
<1> QED BY <1>1, <1>2, <1>3, <1>4, OneStageBackKept DEF Backward

LEMMA CompensationResolvedStep ==
  ASSUME TypesOK, NEW r \in Runs, RunOK(r), CompensationResolved(r)
  PROVE  TypesOK' /\ RunOK(r)' /\ OthersRest(r)
<1>1. pc[r] = "resolving_compensation" /\ position[r] > 0
  BY DEF CompensationResolved, RunOK, BackwardOK, Backward
<1>2. TypesOK'
  <2>1. pc' \in [Runs -> Places]
    BY Members DEF TypesOK, CompensationResolved, Go
  <2>2. position' \in [Runs -> Nat]
    <3>1. position[r] - 1 \in Nat
      BY <1>1 DEF TypesOK
    <3>2. position' \in {position, [position EXCEPT ![r] = position[r] - 1]}
      BY DEF CompensationResolved, MoveTo, Before
    <3> QED BY <3>1, <3>2 DEF TypesOK
  <2> QED BY <2>1, <2>2 DEF TypesOK, CompensationResolved, history
<1>3. UNCHANGED Story(r) /\ OthersRest(r)
  BY DEF TypesOK, CompensationResolved, MoveTo, Go, history, Story, OthersRest, Own
<1>4. CASE request[r].state = "answered"
  <2>1. pc'[r] = "compensating" /\ UNCHANGED <<pipeline, state, published, position, compensations>>
    BY <1>4 DEF TypesOK, CompensationResolved, Go, history
  <2>2. StateOK(r)' /\ ForwardOK(r)' /\ EndedOK(r)'
    BY <1>1, <2>1 DEF RunOK, StateOK, ForwardOK, EndedOK, Forward, Backward
  <2>3. BackwardOK(r)'
    BY <1>1, <1>3, <2>1, StoryStays DEF RunOK, BackwardOK, Backward
  <2> QED BY <1>2, <1>3, <2>2, <2>3, StoryKept
<1>5. CASE request[r].state # "answered"
  <2>1. pc'[r] = "rollback" /\ position'[r] = position[r] - 1 /\ UNCHANGED <<state[r], published[r]>>
    BY <1>5 DEF TypesOK, CompensationResolved, MoveTo, Go, Before, history
  <2> QED BY <1>1, <1>2, <1>3, <2>1, OneStageBackKept DEF Backward
<1> QED BY <1>4, <1>5

LEMMA FinishRollbackStep ==
  ASSUME TypesOK, NEW r \in Runs, RunOK(r), FinishRollback(r)
  PROVE  TypesOK' /\ RunOK(r)' /\ OthersRest(r)
<1>1. TypesOK'
  <2>1. state' \in [Runs -> RunStates] /\ pc' \in [Runs -> Places]
    BY Members DEF TypesOK, FinishRollback, Enter, Go
  <2>2. published' \in [Runs -> Seq(RunStates)]
    BY Members, EnterTypes DEF TypesOK, FinishRollback
  <2> QED BY <2>1, <2>2 DEF TypesOK, FinishRollback
<1>2. UNCHANGED Story(r) /\ OthersRest(r)
  BY DEF TypesOK, FinishRollback, Enter, Go, Log, Story, OthersRest, Own
<1>3. /\ pc[r] = "rollback" /\ position[r] = 0 /\ state'[r] = "rolled_back"
      /\ \/ pc'[r] = "returned" /\ published'[r] = <<"running", "rolled_back">>
         \/ pc'[r] = "raised" /\ published'[r] = <<"running">>
      /\ UNCHANGED <<pipeline, position, data, completed, records, compensations>>
  <2>1. pc[r] = "rollback" /\ published[r] \in Seq(RunStates)
    BY DEF TypesOK, FinishRollback
  <2>2. published[r] = <<"running">>
    BY <2>1 DEF RunOK, StateOK, Backward
  <2>3. Append(published[r], "rolled_back") = <<"running", "rolled_back">>
    BY <2>2, TwoElements, Members
  <2> QED BY <2>1, <2>2, <2>3 DEF TypesOK, FinishRollback, Enter, Go, Log
<1>4. StateOK(r)' /\ BackwardOK(r)' /\ ForwardOK(r)'
  BY <1>3 DEF StateOK, BackwardOK, ForwardOK, Forward, Backward
<1>5. EndedOK(r)'
  <2>1. FailedOK(r) /\ \A k \in 1..Done(r) : pipeline[r][k].rollback # NoCapability => Undone(r, k)
    BY <1>3 DEF RunOK, BackwardOK, Backward
  <2> QED BY <1>2, <1>3, <2>1, StoryStays DEF EndedOK
<1> QED BY <1>1, <1>2, <1>4, <1>5, StoryKept

LEMMA ResolveCompensationStep ==
  ASSUME TypesOK, NEW r \in Runs, RunOK(r), ResolveCompensation(r)
  PROVE  TypesOK' /\ RunOK(r)' /\ OthersRest(r)
<1> DEFINE c == [stage |-> position[r], output |-> completed[r][position[r]], returned |-> FALSE]
           n == Len(compensations[r])
<1>1. /\ pc[r] = "rollback" /\ pc'[r] = "resolving_compensation" /\ position[r] > 0
      /\ pipeline[r][position[r]].rollback # NoCapability
      /\ compensations'[r] = Append(compensations[r], c)
      /\ UNCHANGED <<pipeline, completed, records, calls, state, published, position>>
  BY DEF TypesOK, ResolveCompensation, Log, Go, Stage
<1>2. /\ compensations[r] \in Seq(CompensationType) /\ n \in Nat
      /\ position[r] \in Nat /\ Done(r) \in Nat /\ completed[r] \in Seq(OutputType)
  BY DEF TypesOK, Done
<1>3. BackwardOK(r) /\ position[r] \in 1..Done(r) /\ FailedOK(r)
  <2>1. BackwardOK(r) /\ pc[r] \in Backward
    BY <1>1 DEF RunOK, Backward
  <2>2. FailedOK(r) /\ position[r] <= Done(r)
    BY <2>1 DEF BackwardOK
  <2> QED BY <1>1, <1>2, <2>1, <2>2
<1>4. c \in CompensationType
  BY <1>2, <1>3 DEF CompensationType, Done
<1>5. TypesOK'
  <2>1. Append(compensations[r], c) \in Seq(CompensationType)
    BY <1>2, <1>4
  <2> QED BY <2>1, Members DEF TypesOK, ResolveCompensation, Log, Go
<1>6. OthersRest(r)
  BY DEF TypesOK, ResolveCompensation, Log, Go, Story, OthersRest, Own
<1>7. /\ Len(compensations'[r]) = n + 1 /\ compensations'[r][n + 1] = c
      /\ \A i \in 1..n : compensations'[r][i] = compensations[r][i]
      /\ \A i : i \in 1..(n + 1) <=> i \in 1..n \/ i = n + 1
  BY <1>1, <1>2, <1>4, AppendProperties
<1> HIDE DEF n
<1>8. Done(r)' = Done(r) /\ Size(r)' = Size(r) /\ \A k : CallsOf(r, k)' = CallsOf(r, k)
  BY <1>1 DEF Done, Size, CallsOf
<1>9. StateOK(r)' /\ ForwardOK(r)' /\ EndedOK(r)'
  BY <1>1 DEF RunOK, StateOK, ForwardOK, EndedOK, Forward, Backward
<1>10. CompletedOK(r)' /\ FailedOK(r)'
  BY <1>1, <1>3, <1>8 DEF RunOK, CompletedOK, FailedOK
<1>11. RecordsOK(r)'
  <2>1. \A k : (\E i \in 1..n : compensations[r][i].stage = k /\ compensations[r][i].returned)
               <=> (\E i \in 1..(n + 1) : compensations'[r][i].stage = k /\ compensations'[r][i].returned)
    BY <1>7
  <2> QED BY <1>1, <1>7, <1>8, <2>1 DEF RunOK, RecordsOK, n
<1>12. CompensationsOK(r)'
  <2>1. CompensationsOK(r) /\ \A i \in 1..n : compensations[r][i].stage > position[r]
    <3>1. CompensationsOK(r) /\ pc[r] \in Backward /\ pc[r] = "rollback"
      BY <1>1 DEF RunOK, Backward
    <3> QED BY <1>3, <3>1 DEF BackwardOK, n
  <2>2. \A i \in 1..(n + 1) :
          /\ compensations'[r][i].stage \in 1..Done(r)
          /\ pipeline[r][compensations'[r][i].stage].rollback # NoCapability
          /\ compensations'[r][i].output = completed[r][compensations'[r][i].stage]
    BY <1>1, <1>3, <1>7, <2>1 DEF CompensationsOK, n
  <2>3. ASSUME NEW i \in 1..(n + 1), NEW j \in 1..(n + 1), i < j
        PROVE  compensations'[r][j].stage < compensations'[r][i].stage
    <3>1. i \in 1..n
      BY <1>2, <2>3 DEF n
    <3>2. CASE j \in 1..n
      BY <1>7, <2>1, <2>3, <3>1, <3>2 DEF CompensationsOK, n
    <3>3. CASE j = n + 1
      <4>1. compensations'[r][j].stage = position[r]
        BY <1>7, <3>3
      <4>2. compensations'[r][i].stage = compensations[r][i].stage /\ compensations[r][i].stage > position[r]
        BY <1>7, <2>1, <3>1
      <4>3. compensations'[r][i].stage \in Nat
        <5>1. compensations[r][i] \in CompensationType
          BY <1>2, <3>1 DEF n
        <5> QED BY <4>2, <5>1 DEF CompensationType
      <4> QED BY <1>2, <4>1, <4>2, <4>3
    <3> QED BY <1>7, <3>2, <3>3
  <2> QED BY <1>1, <1>7, <1>8, <2>2, <2>3 DEF CompensationsOK
<1>13. BackwardOK(r)'
  <2>1. \A k : Undone(r, k) => Undone(r, k)'
    BY <1>7 DEF Undone, n
  <2>2. compensations'[r] # <<>> /\ compensations'[r][Len(compensations'[r])] = c
    BY <1>1, <1>2, <1>4, <1>7, AppendProperties
  <2> QED BY <1>1, <1>3, <1>8, <1>10, <2>1, <2>2 DEF BackwardOK, Backward
<1> QED BY <1>5, <1>6, <1>9, <1>10, <1>11, <1>12, <1>13 DEF RunOK

LEMMA CompensationReturnsStep ==
  ASSUME TypesOK, NEW r \in Runs, RunOK(r), CompensationReturns(r)
  PROVE  TypesOK' /\ RunOK(r)' /\ OthersRest(r)
<1> DEFINE n == Len(compensations[r])
           p == position[r]
<1>1. pc[r] = "compensating" /\ pc[r] \in Backward
  BY DEF CompensationReturns, Backward
<1>2. /\ compensations[r] \in Seq(CompensationType) /\ n \in Nat
      /\ records[r] \in Seq(RecordType) /\ Len(records[r]) \in Nat
      /\ position[r] \in Nat /\ Done(r) \in Nat
  BY DEF TypesOK, Done
<1>3. /\ BackwardOK(r) /\ FailedOK(r) /\ p > 0 /\ p <= Done(r)
      /\ compensations[r] # <<>> /\ compensations[r][n].stage = p
  BY <1>1 DEF RunOK, BackwardOK
<1>4. n \in 1..n /\ p \in 1..Len(records[r])
  BY <1>2, <1>3 DEF FailedOK
<1>5. /\ records'[r] = [records[r] EXCEPT ![p] = [@ EXCEPT !.rolledBack = TRUE]]
      /\ compensations'[r] = [compensations[r] EXCEPT ![n] = [@ EXCEPT !.returned = TRUE]]
      /\ position'[r] = p - 1 /\ pc'[r] = "rollback"
      /\ UNCHANGED <<pipeline, state, published, completed, calls>>
  BY DEF TypesOK, CompensationReturns, MoveTo, Go
<1>6. OthersRest(r)
  BY DEF TypesOK, CompensationReturns, MoveTo, Go, Story, OthersRest, Own
<1>7. /\ records'[r] \in Seq(RecordType) /\ Len(records'[r]) = Len(records[r])
      /\ \A k \in 1..Len(records[r]) :
           /\ records'[r][k].attempts = records[r][k].attempts
           /\ records'[r][k].outcome = records[r][k].outcome
           /\ records'[r][k].rolledBack <=> (k = p \/ records[r][k].rolledBack)
  <2>1. records[r][p] \in RecordType
    BY <1>2, <1>4
  <2>2. [records[r][p] EXCEPT !.rolledBack = TRUE] \in RecordType
    BY <2>1 DEF RecordType
  <2>3. records'[r] \in Seq(RecordType) /\ Len(records'[r]) = Len(records[r])
    BY <1>2, <1>4, <1>5, <2>2
  <2>4. \A k \in 1..Len(records[r]) :
          records'[r][k] = IF k = p THEN [records[r][p] EXCEPT !.rolledBack = TRUE] ELSE records[r][k]
    BY <1>2, <1>4, <1>5
  <2>5. /\ [records[r][p] EXCEPT !.rolledBack = TRUE].attempts = records[r][p].attempts
        /\ [records[r][p] EXCEPT !.rolledBack = TRUE].outcome = records[r][p].outcome
        /\ [records[r][p] EXCEPT !.rolledBack = TRUE].rolledBack = TRUE
    BY <2>1 DEF RecordType
  <2> QED BY <2>3, <2>4, <2>5
<1>8. /\ compensations'[r] \in Seq(CompensationType) /\ Len(compensations'[r]) = n
      /\ \A i \in 1..n :
           /\ compensations'[r][i].stage = compensations[r][i].stage
           /\ compensations'[r][i].output = compensations[r][i].output
           /\ compensations'[r][i].returned <=> (i = n \/ compensations[r][i].returned)
  <2> DEFINE d == compensations[r][n]
  <2>1. d \in CompensationType
    BY <1>2, <1>4
  <2>2. [d EXCEPT !.returned = TRUE] \in CompensationType
    BY <2>1 DEF CompensationType
  <2>3. compensations'[r] \in Seq(CompensationType) /\ Len(compensations'[r]) = n
    BY <1>2, <1>4, <1>5, <2>2
  <2>4. \A i \in 1..n :
          compensations'[r][i] = IF i = n THEN [d EXCEPT !.returned = TRUE] ELSE compensations[r][i]
    BY <1>2, <1>4, <1>5
  <2>5. /\ [d EXCEPT !.returned = TRUE].stage = d.stage
        /\ [d EXCEPT !.returned = TRUE].output = d.output
        /\ [d EXCEPT !.returned = TRUE].returned = TRUE
    BY <2>1 DEF CompensationType
  <2> QED BY <2>3, <2>4, <2>5
<1>9. TypesOK'
  BY <1>3, <1>7, <1>8, Members DEF TypesOK, CompensationReturns, MoveTo, Go
<1> HIDE DEF n
<1>10. Done(r)' = Done(r) /\ Size(r)' = Size(r) /\ \A k : CallsOf(r, k)' = CallsOf(r, k)
  BY <1>5 DEF Done, Size, CallsOf
<1>11. CompletedOK(r)' /\ FailedOK(r)'
  BY <1>3, <1>5, <1>7, <1>10 DEF RunOK, CompletedOK, FailedOK
<1>12. StateOK(r)' /\ ForwardOK(r)' /\ BackwardOK(r)' /\ EndedOK(r)'
  BY <1>1, <1>3, <1>5, <1>8, <1>11, OneStageBack DEF n
<1>13. CompensationsOK(r)'
  BY <1>5, <1>8, <1>10, SMTT(30) DEF RunOK, CompensationsOK, n
<1>14. RecordsOK(r)'
  <2>1. \A k : (\E i \in 1..n : compensations'[r][i].stage = k /\ compensations'[r][i].returned)
               <=> (k = p \/ \E i \in 1..n : compensations[r][i].stage = k /\ compensations[r][i].returned)
    BY <1>3, <1>4, <1>8 DEF n
  <2>2. RecordsOK(r)
    BY DEF RunOK
  <2>3. \A k \in 1..Len(records[r]) :
          /\ records'[r][k].attempts = Cardinality(CallsOf(r, k)) /\ CallsOf(r, k) # {}
          /\ records'[r][k].outcome = "success" <=> k <= Done(r)
    BY <1>7, <2>2 DEF RecordsOK
  <2>4. \A k \in 1..Len(records[r]) :
          records'[r][k].rolledBack <=>
            \E i \in 1..n : compensations'[r][i].stage = k /\ compensations'[r][i].returned
    <3> SUFFICES ASSUME NEW k \in 1..Len(records[r])
                 PROVE  records'[r][k].rolledBack <=>
                          \E i \in 1..n : compensations'[r][i].stage = k /\ compensations'[r][i].returned
      OBVIOUS
    <3>1. records'[r][k].rolledBack <=> (k = p \/ records[r][k].rolledBack)
      BY <1>7
    <3>2. records[r][k].rolledBack <=>
            \E i \in 1..n : compensations[r][i].stage = k /\ compensations[r][i].returned
      BY <2>2 DEF RecordsOK, n
    <3> DEFINE Before0 == \E i \in 1..n : compensations[r][i].stage = k /\ compensations[r][i].returned
               After0 == \E i \in 1..n : compensations'[r][i].stage = k /\ compensations'[r][i].returned
               Rolled == records[r][k].rolledBack
               Rolled1 == records'[r][k].rolledBack
    <3>3. After0 <=> (k = p \/ Before0)
      BY <2>1
    <3> HIDE DEF Before0, After0
    <3>4. Rolled <=> Before0
      BY <3>2 DEF Before0
    <3>5. Rolled1 <=> (k = p \/ Rolled)
      BY <3>1
    <3> HIDE DEF Rolled, Rolled1
    <3>6. Rolled1 <=> After0
      BY <3>3, <3>4, <3>5
    <3> QED BY <3>6 DEF After0, Rolled1
  <2>5. Done(r) <= Len(records[r]) /\ Len(records[r]) <= Done(r) + 1
    BY <2>2 DEF RecordsOK
  <2> QED BY <1>7, <1>8, <1>10, <2>3, <2>4, <2>5 DEF RecordsOK
<1> QED BY <1>6, <1>9, <1>11, <1>12, <1>13, <1>14 DEF RunOK

------------------------------------------------------------------------------
(* Calls of a stage.                                                       *)

Outcomes == {"success"} \cup Failures

\* What a call c of stage p adds to the story of a run.
LEMMA OneCall ==
  ASSUME TypesOK, NEW r \in Runs, RunOK(r), NEW outcome \in Outcomes, Called(r, outcome),
         NEW p, p = position[r], NEW c, c = [stage |-> p, input |-> data[r], outcome |-> outcome]
  PROVE  /\ pc[r] = "calling" /\ p = Done(r) + 1 /\ p <= Size(r)
         /\ Done(r) \in Nat /\ Size(r) \in Nat
         /\ ForwardOK(r) /\ compensations[r] = <<>> /\ Len(records[r]) = Done(r)
         /\ Begun(r) = CallsOf(r, p) /\ Cardinality(CallsOf(r, p)) \in Nat
         /\ attempt[r] \in Nat /\ attempt[r] < pipeline[r][p].maxAttempts
         /\ c \in CallType /\ Len(calls[r]) \in Nat
         /\ calls' = [calls EXCEPT ![r] = Append(calls[r], c)]
         /\ calls' \in [Runs -> Seq(CallType)] /\ attempt' \in [Runs -> Nat]
         /\ attempt' = [attempt EXCEPT ![r] = attempt[r] + 1]
         /\ attempt'[r] = attempt[r] + 1 /\ attempt'[r] = Cardinality(CallsOf(r, p)')
         /\ CallsOf(r, p)' = CallsOf(r, p) \cup {Len(calls[r]) + 1}
         /\ \A k : k # p => CallsOf(r, k)' = CallsOf(r, k)
         /\ Len(calls'[r]) = Len(calls[r]) + 1 /\ calls'[r][Len(calls[r]) + 1] = c
         /\ \A i \in 1..Len(calls[r]) : calls'[r][i] = calls[r][i]
<1>1. /\ pc[r] = "calling" /\ calls' = [calls EXCEPT ![r] = Append(calls[r], c)]
      /\ attempt' = [attempt EXCEPT ![r] = attempt[r] + 1]
  BY DEF Called, Log
<1>2. ForwardOK(r) /\ pc[r] \in Forward
  BY <1>1 DEF RunOK, Forward
<1>3. /\ p = Done(r) + 1 /\ p <= Size(r)
      /\ compensations[r] = <<>> /\ Len(records[r]) = Done(r)
      /\ Begun(r) = CallsOf(r, p) /\ attempt[r] = Cardinality(CallsOf(r, p))
      /\ attempt[r] < pipeline[r][p].maxAttempts
  BY <1>1, <1>2 DEF ForwardOK, Begun
<1>4. Done(r) \in Nat /\ Size(r) \in Nat /\ Len(calls[r]) \in Nat /\ attempt[r] \in Nat
  BY PipelineAssumption DEF TypesOK, Done, Size
<1>5. c \in CallType
  BY DEF TypesOK, CallType, Outcomes
<1>6. calls'[r] = Append(calls[r], c) /\ calls' \in [Runs -> Seq(CallType)]
  <2>1. Append(calls[r], c) \in Seq(CallType)
    BY <1>5 DEF TypesOK
  <2> QED BY <1>1, <2>1 DEF TypesOK
<1>7. attempt'[r] = attempt[r] + 1 /\ attempt' \in [Runs -> Nat]
  BY <1>1 DEF TypesOK
<1>8. c.stage = p
  OBVIOUS
<1>9. /\ CallsOf(r, c.stage)' = CallsOf(r, c.stage) \cup {Len(calls[r]) + 1}
      /\ Cardinality(CallsOf(r, c.stage)') = Cardinality(CallsOf(r, c.stage)) + 1
      /\ \A k : k # c.stage => CallsOf(r, k)' = CallsOf(r, k)
      /\ Len(calls'[r]) = Len(calls[r]) + 1 /\ calls'[r][Len(calls[r]) + 1] = c
      /\ \A i \in 1..Len(calls[r]) : calls'[r][i] = calls[r][i]
  BY <1>5, <1>6, OneMoreCall
<1>10. attempt'[r] = Cardinality(CallsOf(r, p)')
  BY <1>3, <1>7, <1>8, <1>9
<1> QED BY <1>1, <1>2, <1>3, <1>4, <1>5, <1>6, <1>7, <1>8, <1>9, <1>10

\* The calls stay in the order of the stages.
LEMMA CallsInOrder ==
  ASSUME TypesOK, NEW r \in Runs, RunOK(r), NEW outcome \in Outcomes, Called(r, outcome)
  PROVE  /\ \A i, j \in 1..Len(calls'[r]) : i < j => calls'[r][i].stage <= calls'[r][j].stage
         /\ \A i \in 1..Len(calls'[r]) : calls'[r][i].stage \in 1..(Done(r) + 1)
<1>1. PICK p : p = position[r]
  OBVIOUS
<1>2. PICK c : c = [stage |-> p, input |-> data[r], outcome |-> outcome]
  OBVIOUS
<1> DEFINE n == Len(calls[r])
<1>3. /\ n \in Nat /\ Done(r) \in Nat /\ p = Done(r) + 1 /\ c.stage = p
      /\ Len(calls'[r]) = n + 1 /\ calls'[r][n + 1] = c
      /\ \A i \in 1..n : calls'[r][i] = calls[r][i]
  BY <1>1, <1>2, OneCall
<1>4. /\ \A i, j \in 1..n : i < j => calls[r][i].stage <= calls[r][j].stage
      /\ \A i \in 1..n : calls[r][i].stage \in 1..(Done(r) + 1)
  BY DEF RunOK, CompletedOK
<1> HIDE DEF n
<1>5. \A i : i \in 1..(n + 1) <=> i \in 1..n \/ i = n + 1
  BY <1>3
<1>6. \A i \in 1..(n + 1) : calls'[r][i].stage \in 1..(Done(r) + 1)
  BY <1>3, <1>4, <1>5
<1>7. ASSUME NEW i \in 1..(n + 1), NEW j \in 1..(n + 1), i < j
      PROVE  calls'[r][i].stage <= calls'[r][j].stage
  <2>1. i \in 1..n
    BY <1>3, <1>7
  <2>2. CASE j \in 1..n
    BY <1>3, <1>4, <1>7, <2>1, <2>2
  <2>3. CASE j = n + 1
    BY <1>3, <1>4, <2>1, <2>3, SMTT(30)
  <2> QED BY <1>5, <2>2, <2>3
<1> QED BY <1>3, <1>6, <1>7

\* One more record, of the stage at hand.
LEMMA OneMoreRecord ==
  ASSUME TypesOK, NEW r \in Runs, RunOK(r), Len(records[r]) = Done(r), compensations[r] = <<>>,
         UNCHANGED compensations[r], NEW p, p = Done(r) + 1,
         \A k : k # p => CallsOf(r, k)' = CallsOf(r, k), CallsOf(r, p)' # {},
         NEW rec \in RecordType, records'[r] = Append(records[r], rec),
         rec.attempts = Cardinality(CallsOf(r, p)'), rec.rolledBack = FALSE,
         \/ rec.outcome = "success" /\ Done(r)' = p
         \/ rec.outcome # "success" /\ Done(r)' = Done(r)
  PROVE  RecordsOK(r)'
<1> DEFINE d == Done(r)
<1>1. records[r] \in Seq(RecordType) /\ d \in Nat /\ Done(r)' \in Nat
  BY DEF TypesOK, Done
<1>2. /\ Len(records'[r]) = d + 1 /\ records'[r][d + 1] = rec
      /\ \A k \in 1..d : records'[r][k] = records[r][k]
      /\ \A k : k \in 1..(d + 1) <=> k \in 1..d \/ k = p
  BY <1>1
<1> HIDE DEF d
<1>3. \A k \in 1..d : k # p /\ CallsOf(r, k)' = CallsOf(r, k)
  BY <1>1 DEF d
<1>4. \A i \in 1..Len(compensations'[r]) : FALSE
  OBVIOUS
<1>5. RecordsOK(r) /\ Len(records[r]) = d
  BY DEF RunOK, d
<1>6. ASSUME NEW k \in 1..d
      PROVE  /\ CallsOf(r, k)' # {} /\ records'[r][k].attempts = Cardinality(CallsOf(r, k)')
             /\ records'[r][k].outcome = "success" /\ k <= Done(r)'
             /\ ~records'[r][k].rolledBack
  <2>1. /\ CallsOf(r, k) # {} /\ records[r][k].attempts = Cardinality(CallsOf(r, k))
        /\ records[r][k].outcome = "success"
    BY <1>1, <1>5 DEF RecordsOK, d
  <2>2. records[r][k].rolledBack <=> \E i \in 1..Len(compensations[r]) :
              compensations[r][i].stage = k /\ compensations[r][i].returned
    BY <1>5 DEF RecordsOK
  <2>3. ~records[r][k].rolledBack
    BY <2>2
  <2>4. k <= Done(r)'
    BY <1>1 DEF d
  <2> QED BY <1>2, <1>3, <2>1, <2>3, <2>4
<1>7. /\ CallsOf(r, p)' # {} /\ records'[r][p].attempts = Cardinality(CallsOf(r, p)')
      /\ records'[r][p].outcome = "success" <=> p <= Done(r)'
      /\ ~records'[r][p].rolledBack
  BY <1>1, <1>2 DEF d
<1>8. Done(r)' <= d + 1 /\ d + 1 <= Done(r)' + 1
  BY <1>1 DEF d
<1> QED BY <1>2, <1>4, <1>6, <1>7, <1>8 DEF RecordsOK

LEMMA StageSucceedsStep ==
  ASSUME TypesOK, NEW r \in Runs, RunOK(r), StageSucceeds(r)
  PROVE  TypesOK' /\ RunOK(r)' /\ OthersRest(r)
<1>1. PICK p : p = position[r]
  OBVIOUS
<1>2. PICK c : c = [stage |-> p, input |-> data[r], outcome |-> "success"]
  OBVIOUS
<1>3. PICK a : a = attempt[r] + 1
  OBVIOUS
<1> DEFINE out == [stage |-> p, attempt |-> a]
           rec == [outcome |-> "success", attempts |-> a, rolledBack |-> FALSE]
           n == Len(calls[r])
<1>4. Called(r, "success") /\ "success" \in Outcomes
  BY DEF StageSucceeds, Outcomes
<1>5. /\ pc[r] = "calling" /\ p = Done(r) + 1 /\ p <= Size(r)
      /\ Done(r) \in Nat /\ Size(r) \in Nat /\ n \in Nat
      /\ ForwardOK(r) /\ compensations[r] = <<>> /\ Len(records[r]) = Done(r)
      /\ c \in CallType
      /\ calls' = [calls EXCEPT ![r] = Append(calls[r], c)]
      /\ calls' \in [Runs -> Seq(CallType)] /\ attempt' \in [Runs -> Nat]
      /\ attempt' = [attempt EXCEPT ![r] = a]
      /\ attempt'[r] = a /\ a = Cardinality(CallsOf(r, p)')
      /\ CallsOf(r, p)' = CallsOf(r, p) \cup {n + 1}
      /\ \A k : k # p => CallsOf(r, k)' = CallsOf(r, k)
      /\ Len(calls'[r]) = n + 1 /\ calls'[r][n + 1] = c
      /\ \A i \in 1..n : calls'[r][i] = calls[r][i]
  <2> HIDE DEF out, rec
  <2>1. /\ attempt' = [attempt EXCEPT ![r] = attempt[r] + 1] /\ attempt'[r] = attempt[r] + 1
        /\ attempt'[r] = Cardinality(CallsOf(r, p)')
    BY <1>1, <1>2, <1>4, OneCall
  <2>2. /\ pc[r] = "calling" /\ p = Done(r) + 1 /\ p <= Size(r)
        /\ Done(r) \in Nat /\ Size(r) \in Nat /\ n \in Nat
        /\ ForwardOK(r) /\ compensations[r] = <<>> /\ Len(records[r]) = Done(r)
    BY <1>1, <1>2, <1>4, OneCall
  <2>3. /\ c \in CallType
        /\ calls' = [calls EXCEPT ![r] = Append(calls[r], c)]
        /\ calls' \in [Runs -> Seq(CallType)] /\ attempt' \in [Runs -> Nat]
    BY <1>1, <1>2, <1>4, OneCall
  <2>4. CallsOf(r, p)' = CallsOf(r, p) \cup {n + 1}
    BY <1>1, <1>2, <1>4, OneCall
  <2>5. \A k : k # p => CallsOf(r, k)' = CallsOf(r, k)
    BY <1>1, <1>2, <1>4, OneCall
  <2>6. /\ Len(calls'[r]) = n + 1 /\ calls'[r][n + 1] = c
        /\ \A i \in 1..n : calls'[r][i] = calls[r][i]
    BY <1>1, <1>2, <1>4, OneCall
  <2> QED BY <1>3, <2>1, <2>2, <2>3, <2>4, <2>5, <2>6
<1>6. p \in Nat /\ a \in Nat /\ out \in OutputType /\ rec \in RecordType
  <2>1. p \in Nat /\ a \in Nat
    BY <1>1, <1>3 DEF TypesOK
  <2> QED BY <2>1 DEF OutputType, RecordType
<1>7. /\ data' = [data EXCEPT ![r] = out]
      /\ completed' = [completed EXCEPT ![r] = Append(completed[r], out)]
      /\ records' = [records EXCEPT ![r] = Append(records[r], rec)]
      /\ position' = [position EXCEPT ![r] = p + 1]
      /\ pc' = [pc EXCEPT ![r] = "stage"]
      /\ UNCHANGED <<pipeline, state, compensations, published>>
  BY <1>1, <1>5 DEF StageSucceeds, Output, Log, MoveTo, Go
<1> HIDE DEF out, rec, n
<1>8. TypesOK'
  <2>1. Append(completed[r], out) \in Seq(OutputType) /\ Append(records[r], rec) \in Seq(RecordType)
    BY <1>6 DEF TypesOK
  <2>2. completed' \in [Runs -> Seq(OutputType)] /\ records' \in [Runs -> Seq(RecordType)]
    BY <1>7, <2>1 DEF TypesOK
  <2>3. data' \in [Runs -> OutputType] /\ position' \in [Runs -> Nat] /\ pc' \in [Runs -> Places]
    BY <1>6, <1>7, Members DEF TypesOK
  <2> QED BY <1>5, <1>7, <2>2, <2>3 DEF TypesOK
<1>9. OthersRest(r)
  BY <1>5, <1>7 DEF TypesOK, Story, OthersRest, Own
<1>10. /\ Len(completed'[r]) = Done(r) + 1 /\ completed'[r][p] = out
       /\ \A k \in 1..Done(r) : completed'[r][k] = completed[r][k]
       /\ Done(r)' = p /\ Size(r)' = Size(r)
       /\ Len(records'[r]) = Done(r) + 1
  <2>1. completed[r] \in Seq(OutputType) /\ records[r] \in Seq(RecordType)
    BY DEF TypesOK
  <2>2. completed'[r] = Append(completed[r], out) /\ records'[r] = Append(records[r], rec)
    BY <1>7 DEF TypesOK
  <2> QED BY <1>5, <1>6, <1>7, <2>1, <2>2, AppendProperties DEF Done, Size
<1>11. StateOK(r)' /\ BackwardOK(r)' /\ EndedOK(r)'
  <2>1. state[r] = "running" /\ published[r] = <<"running">> /\ pc'[r] = "stage"
    BY <1>5, <1>7 DEF RunOK, StateOK, Forward, TypesOK
  <2> QED BY <1>7, <2>1 DEF StateOK, BackwardOK, EndedOK, Forward, Backward
<1>12. CompletedOK(r)'
  <2>1. /\ \A i, j \in 1..Len(calls'[r]) : i < j => calls'[r][i].stage <= calls'[r][j].stage
        /\ \A i \in 1..Len(calls'[r]) : calls'[r][i].stage \in 1..(Done(r) + 1)
    BY <1>4, CallsInOrder
  <2>2. 1..(Done(r) + 1) \subseteq 1..(p + 1)
    BY <1>5
  <2>3. ASSUME NEW k \in 1..Done(r)
        PROVE  /\ completed'[r][k] = [stage |-> k, attempt |-> Cardinality(CallsOf(r, k)')]
               /\ \E i \in CallsOf(r, k)' :
                    calls'[r][i].outcome = "success" /\ \A j \in CallsOf(r, k)' : j <= i
    <3>1. CallsOf(r, k)' = CallsOf(r, k)
      BY <1>5
    <3>2. /\ completed[r][k] = [stage |-> k, attempt |-> Cardinality(CallsOf(r, k))]
          /\ \E i \in CallsOf(r, k) :
               calls[r][i].outcome = "success" /\ \A j \in CallsOf(r, k) : j <= i
      BY DEF RunOK, CompletedOK
    <3>3. \A i \in CallsOf(r, k) : calls'[r][i] = calls[r][i]
      BY <1>5 DEF CallsOf, n
    <3> QED BY <1>10, <3>1, <3>2, <3>3
  <2>4. /\ completed'[r][p] = [stage |-> p, attempt |-> Cardinality(CallsOf(r, p)')]
        /\ \E i \in CallsOf(r, p)' :
             calls'[r][i].outcome = "success" /\ \A j \in CallsOf(r, p)' : j <= i
    <3>1. \A j \in CallsOf(r, p) : j <= n + 1
      BY <1>5 DEF CallsOf, n
    <3>2. n + 1 \in CallsOf(r, p)' /\ calls'[r][n + 1].outcome = "success"
      BY <1>2, <1>5
    <3>3. \A j \in CallsOf(r, p)' : j <= n + 1
      BY <1>5, <3>1
    <3> QED BY <1>5, <1>10, <3>2, <3>3 DEF out
  <2>5. \A k \in 1..p : k \in 1..Done(r) \/ k = p
    BY <1>5
  <2> QED BY <1>5, <1>10, <2>1, <2>2, <2>3, <2>4, <2>5 DEF CompletedOK
<1>13. RecordsOK(r)'
  <2>1. rec.outcome = "success" /\ rec.attempts = Cardinality(CallsOf(r, p)') /\ rec.rolledBack = FALSE
    BY <1>5 DEF rec
  <2>2. records'[r] = Append(records[r], rec) /\ CallsOf(r, p)' # {} /\ UNCHANGED compensations[r]
    BY <1>5, <1>7 DEF TypesOK
  <2> QED BY <1>5, <1>6, <1>10, <2>1, <2>2, OneMoreRecord
<1>14. CompensationsOK(r)'
  BY <1>5, <1>7 DEF CompensationsOK
<1>15. ForwardOK(r)'
  <2>1. position'[r] = p + 1 /\ data'[r] = out /\ pc'[r] = "stage" /\ compensations'[r] = <<>>
    BY <1>5, <1>7 DEF TypesOK
  <2>2. Begun(r)' = {}
    <3>1. Begun(r)' = CallsOf(r, p + 1)'
      BY <1>10 DEF Begun
    <3>2. CallsOf(r, p + 1)' = CallsOf(r, p + 1)
      BY <1>5
    <3>3. \A i \in 1..Len(calls[r]) : calls[r][i].stage \in 1..(Done(r) + 1)
      BY DEF RunOK, CompletedOK
    <3>4. \A i \in 1..Len(calls[r]) : calls[r][i].stage # p + 1
      BY <1>5, <3>3
    <3> QED BY <3>1, <3>2, <3>4 DEF CallsOf
  <2>3. p # 0
    BY <1>5
  <2> QED BY <1>5, <1>10, <2>1, <2>2, <2>3 DEF ForwardOK
<1> QED BY <1>8, <1>9, <1>11, <1>12, <1>13, <1>14, <1>15 DEF RunOK

LEMMA StageDoesNotSucceedStep ==
  ASSUME TypesOK, NEW r \in Runs, RunOK(r), NEW outcome \in Failures, StageDoesNotSucceed(r, outcome)
  PROVE  TypesOK' /\ RunOK(r)' /\ OthersRest(r)
<1>1. PICK p : p = position[r]
  OBVIOUS
<1>2. PICK c : c = [stage |-> p, input |-> data[r], outcome |-> outcome]
  OBVIOUS
<1>3. PICK a : a = attempt[r] + 1
  OBVIOUS
<1> DEFINE n == Len(calls[r])
<1>4. Called(r, outcome) /\ outcome \in Outcomes /\ outcome # "success"
  BY DEF StageDoesNotSucceed, Outcomes, Failures
<1>5. /\ pc[r] = "calling" /\ p = Done(r) + 1 /\ p <= Size(r)
      /\ Done(r) \in Nat /\ Size(r) \in Nat /\ n \in Nat
      /\ ForwardOK(r) /\ compensations[r] = <<>> /\ Len(records[r]) = Done(r)
      /\ Begun(r) = CallsOf(r, p)
  BY <1>1, <1>2, <1>4, OneCall
<1>6. /\ c \in CallType
      /\ calls' = [calls EXCEPT ![r] = Append(calls[r], c)]
      /\ calls' \in [Runs -> Seq(CallType)] /\ attempt' \in [Runs -> Nat]
  BY <1>1, <1>2, <1>4, OneCall
<1>7. attempt' = [attempt EXCEPT ![r] = a] /\ attempt'[r] = a /\ attempt'[r] = Cardinality(CallsOf(r, p)')
  <2>1. /\ attempt' = [attempt EXCEPT ![r] = attempt[r] + 1] /\ attempt'[r] = attempt[r] + 1
        /\ attempt'[r] = Cardinality(CallsOf(r, p)')
    BY <1>1, <1>2, <1>4, OneCall
  <2> QED BY <1>3, <2>1
<1>8. CallsOf(r, p)' = CallsOf(r, p) \cup {n + 1}
  BY <1>1, <1>2, <1>4, OneCall
<1>9. \A k : k # p => CallsOf(r, k)' = CallsOf(r, k)
  BY <1>1, <1>2, <1>4, OneCall
<1>10. /\ Len(calls'[r]) = n + 1 /\ calls'[r][n + 1] = c
       /\ \A i \in 1..n : calls'[r][i] = calls[r][i]
  BY <1>1, <1>2, <1>4, OneCall
<1>11. data' = data /\ UNCHANGED <<pipeline, state, completed, compensations, published>>
  BY DEF TypesOK, StageDoesNotSucceed, Carried
<1> HIDE DEF n
<1>12. Done(r)' = Done(r) /\ Size(r)' = Size(r)
  BY <1>11 DEF Done, Size
<1>13. CompletedOK(r)' /\ CompensationsOK(r)'
  <2>1. /\ \A i, j \in 1..Len(calls'[r]) : i < j => calls'[r][i].stage <= calls'[r][j].stage
        /\ \A i \in 1..Len(calls'[r]) : calls'[r][i].stage \in 1..(Done(r) + 1)
    BY <1>4, CallsInOrder
  <2>2. ASSUME NEW k \in 1..Done(r)
        PROVE  /\ completed'[r][k] = [stage |-> k, attempt |-> Cardinality(CallsOf(r, k)')]
               /\ \E i \in CallsOf(r, k)' :
                    calls'[r][i].outcome = "success" /\ \A j \in CallsOf(r, k)' : j <= i
    <3>1. CallsOf(r, k)' = CallsOf(r, k)
      BY <1>5, <1>9
    <3>2. /\ completed[r][k] = [stage |-> k, attempt |-> Cardinality(CallsOf(r, k))]
          /\ \E i \in CallsOf(r, k) :
               calls[r][i].outcome = "success" /\ \A j \in CallsOf(r, k) : j <= i
      BY DEF RunOK, CompletedOK
    <3>3. \A i \in CallsOf(r, k) : calls'[r][i] = calls[r][i]
      BY <1>10 DEF CallsOf, n
    <3> QED BY <1>11, <3>1, <3>2, <3>3
  <2>3. Done(r) <= Size(r)
    BY DEF RunOK, CompletedOK
  <2>4. CompletedOK(r)'
    BY <1>12, <2>1, <2>2, <2>3 DEF CompletedOK
  <2>5. CompensationsOK(r)'
    BY <1>5, <1>11 DEF CompensationsOK
  <2> QED BY <2>4, <2>5
<1>14. state[r] = "running" /\ published[r] = <<"running">>
  BY <1>5 DEF RunOK, StateOK, Forward
<1>15. EndedOK(r)'
  BY <1>11, <1>14 DEF EndedOK
<1>16. CASE Retried(r, outcome)
  <2>1. UNCHANGED <<pc, position, records>>
    BY <1>16 DEF StageDoesNotSucceed
  <2>2. TypesOK' /\ OthersRest(r)
    BY <1>6, <1>7, <1>11, <2>1 DEF TypesOK, OthersRest, Own, Story
  <2>3. StateOK(r)' /\ BackwardOK(r)'
    BY <1>5, <1>11, <1>14, <2>1 DEF StateOK, BackwardOK, Forward, Backward
  <2>4. RecordsOK(r)'
    <3>1. RecordsOK(r) /\ \A k \in 1..Len(records[r]) : CallsOf(r, k)' = CallsOf(r, k)
      BY <1>5, <1>9 DEF RunOK
    <3> QED BY <1>5, <1>11, <1>12, <2>1, <3>1 DEF RecordsOK
  <2>5. ForwardOK(r)'
    <3>1. outcome \in {"raise", "retry_requested"} /\ a < pipeline[r][p].maxAttempts
      BY <1>1, <1>7, <1>16 DEF Retried, Stage
    <3>2. \A i \in Begun(r) : calls[r][i].outcome \in {"raise", "retry_requested"}
      BY <1>5 DEF ForwardOK, Forward
    <3>3. Begun(r)' = CallsOf(r, p)'
      BY <1>5, <1>12 DEF Begun
    <3>4. \A i \in CallsOf(r, p)' : calls'[r][i].outcome \in {"raise", "retry_requested"}
      <4>1. \A i \in CallsOf(r, p) : calls'[r][i] = calls[r][i]
        BY <1>10 DEF CallsOf, n
      <4>2. c.outcome \in {"raise", "retry_requested"}
        BY <1>2, <3>1
      <4>3. \A i \in CallsOf(r, p) : calls'[r][i].outcome \in {"raise", "retry_requested"}
        BY <1>5, <3>2, <4>1
      <4>4. calls'[r][n + 1].outcome \in {"raise", "retry_requested"}
        BY <1>10, <4>2
      <4> QED BY <1>8, <4>3, <4>4
    <3>5. /\ position[r] = Done(r) + 1 /\ position[r] <= Size(r)
          /\ data[r] = IF Done(r) = 0 THEN Initial ELSE completed[r][Done(r)]
      BY <1>1, <1>5 DEF ForwardOK, Forward
    <3> QED BY <1>1, <1>5, <1>7, <1>11, <1>12, <2>1, <3>1, <3>3, <3>4, <3>5 DEF ForwardOK
  <2> QED BY <1>13, <1>15, <2>2, <2>3, <2>4, <2>5 DEF RunOK
<1>17. CASE ~Retried(r, outcome)
  <2>1. PICK rec : rec = [outcome |-> IF outcome = "raise" THEN "failure" ELSE outcome,
                          attempts |-> a, rolledBack |-> FALSE]
    OBVIOUS
  <2>2. /\ records' = [records EXCEPT ![r] = Append(records[r], rec)]
        /\ position' = [position EXCEPT ![r] = Done(r)]
        /\ pc' = [pc EXCEPT ![r] = "rollback"]
    BY <1>7, <1>17, <2>1 DEF StageDoesNotSucceed, Log, MoveTo, Go, Done
  <2>3. a \in Nat
    BY <1>3 DEF TypesOK
  <2>4. rec \in RecordType /\ rec.outcome # "success" /\ rec.attempts = a /\ rec.rolledBack = FALSE
    BY <1>4, <2>1, <2>3 DEF RecordType, Failures
  <2>5. Append(records[r], rec) \in Seq(RecordType) /\ Len(Append(records[r], rec)) = Done(r) + 1
    BY <1>5, <2>4 DEF TypesOK
  <2>6. TypesOK'
    <3>1. records' \in [Runs -> Seq(RecordType)]
      BY <2>2, <2>5 DEF TypesOK
    <3>2. position' \in [Runs -> Nat] /\ pc' \in [Runs -> Places]
      BY <1>5, <2>2, Members DEF TypesOK
    <3> QED BY <1>6, <1>11, <3>1, <3>2 DEF TypesOK
  <2>7. OthersRest(r)
    BY <1>6, <1>7, <1>11, <2>2 DEF TypesOK, OthersRest, Own, Story
  <2>8. /\ pc'[r] = "rollback" /\ position'[r] = Done(r)
        /\ records'[r] = Append(records[r], rec) /\ Len(records'[r]) = Done(r) + 1
    BY <2>2, <2>5 DEF TypesOK
  <2>9. StateOK(r)' /\ ForwardOK(r)'
    BY <1>11, <1>14, <2>8 DEF StateOK, ForwardOK, Forward, Backward
  <2>10. RecordsOK(r)'
    <3>1. CallsOf(r, p)' # {} /\ UNCHANGED compensations[r] /\ rec.attempts = Cardinality(CallsOf(r, p)')
      BY <1>7, <1>8, <1>11, <2>4
    <3>2. p = Done(r) + 1 /\ Len(records[r]) = Done(r) /\ compensations[r] = <<>>
      BY <1>5
    <3> QED BY <1>9, <1>12, <2>4, <2>8, <3>1, <3>2, OneMoreRecord
  <2>11. FailedOK(r)'
    <3>1. Done(r) < Size(r) /\ Len(calls'[r]) = n + 1 /\ calls'[r][n + 1] = c
      BY <1>5, <1>10
    <3>2. calls'[r] # <<>> /\ c.stage = Done(r) + 1 /\ c.outcome # "success"
      BY <1>2, <1>4, <1>5, <3>1
    <3> QED BY <1>12, <2>8, <3>1, <3>2 DEF FailedOK
  <2>12. BackwardOK(r)'
    <3>1. \A k \in (position'[r] + 1)..Done(r) : FALSE
      BY <1>5, <2>8
    <3>2. \A i \in 1..Len(compensations'[r]) : FALSE
      BY <1>5, <1>11
    <3> QED BY <1>5, <1>12, <2>8, <2>11, <3>1, <3>2 DEF BackwardOK
  <2> QED BY <1>13, <1>15, <2>6, <2>7, <2>9, <2>10, <2>12 DEF RunOK
<1> QED BY <1>16, <1>17

LEMMA ResolvingStep ==
  ASSUME TypesOK, NEW r \in Runs, RunOK(r), Resolving(r)
  PROVE  TypesOK' /\ RunOK(r)' /\ OthersRest(r)
<1>1. UNCHANGED <<pipeline, pc, state, position, attempt, data, completed, records,
                  calls, compensations, published>>
  BY DEF Resolving, run, history
<1>2. TypesOK' /\ OthersRest(r) /\ UNCHANGED Own(r)
  BY <1>1 DEF TypesOK, OthersRest, Own, Story
<1> QED BY <1>2, RunRests

------------------------------------------------------------------------------
(* The invariant.                                                          *)

LEMMA InitInv == Init => Inv
<1> SUFFICES ASSUME Init PROVE Inv
  OBVIOUS
<1>1. TypesOK
  <2>1. "queued" \in Places /\ "queued" \in RunStates /\ Initial \in OutputType
    BY DEF Places, Forward, RunStates, Initial, OutputType
  <2> QED BY <2>1 DEF Init, TypesOK
<1>2. ASSUME NEW r \in Runs PROVE RunOK(r)
  <2>1. /\ pc[r] = "queued" /\ state[r] = "queued" /\ position[r] = 1 /\ data[r] = Initial
        /\ completed[r] = <<>> /\ records[r] = <<>> /\ calls[r] = <<>>
        /\ compensations[r] = <<>> /\ published[r] = <<>>
    BY DEF Init
  <2>2. Done(r) = 0 /\ Size(r) \in Nat /\ Begun(r) = {}
    BY <1>1, <2>1, PipelineAssumption DEF TypesOK, Done, Size, Begun, CallsOf
  <2>3. StateOK(r) /\ BackwardOK(r) /\ EndedOK(r)
    BY <2>1 DEF StateOK, BackwardOK, EndedOK, Forward, Backward
  <2>4. CompletedOK(r) /\ RecordsOK(r) /\ CompensationsOK(r)
    BY <2>1, <2>2 DEF CompletedOK, RecordsOK, CompensationsOK
  <2>5. ForwardOK(r)
    BY <2>1, <2>2 DEF ForwardOK
  <2> QED BY <2>3, <2>4, <2>5 DEF RunOK
<1> QED BY <1>1, <1>2 DEF Inv

LEMMA StepKeeps ==
  ASSUME TypesOK, NEW r \in Runs, RunOK(r), Step(r)
  PROVE  TypesOK' /\ RunOK(r)' /\ OthersRest(r)
<1>1. CASE StartRun(r) BY <1>1, StartRunStep
<1>2. CASE ResolveStage(r) BY <1>2, ResolveStageStep
<1>3. CASE StageResolved(r) BY <1>3, StageResolvedStep
<1>4. CASE StageSucceeds(r) BY <1>4, StageSucceedsStep
<1>5. CASE \E outcome \in Failures : StageDoesNotSucceed(r, outcome) BY <1>5, StageDoesNotSucceedStep
<1>6. CASE CompleteRun(r) BY <1>6, CompleteRunStep
<1>7. CASE SkipCompensation(r) BY <1>7, SkipCompensationStep
<1>8. CASE ResolveCompensation(r) BY <1>8, ResolveCompensationStep
<1>9. CASE CompensationResolved(r) BY <1>9, CompensationResolvedStep
<1>10. CASE CompensationReturns(r) BY <1>10, CompensationReturnsStep
<1>11. CASE CompensationRaises(r) BY <1>11, CompensationRaisesStep
<1>12. CASE FinishRollback(r) BY <1>12, FinishRollbackStep
<1>13. CASE Resolving(r) BY <1>13, ResolvingStep
<1> QED BY <1>1, <1>2, <1>3, <1>4, <1>5, <1>6, <1>7, <1>8, <1>9, <1>10, <1>11, <1>12, <1>13
        DEF Step, Failures

LEMMA NextInv == Inv /\ [Next]_vars => Inv'
<1> SUFFICES ASSUME Inv, [Next]_vars PROVE Inv'
  OBVIOUS
<1>1. CASE Next
  <2>1. PICK r \in Runs : Step(r)
    BY <1>1 DEF Next
  <2>2. TypesOK' /\ RunOK(r)' /\ OthersRest(r)
    BY <2>1, StepKeeps DEF Inv
  <2>3. ASSUME NEW s \in Runs, s # r PROVE RunOK(s)'
    <3>1. RunOK(s) /\ UNCHANGED Own(s)
      BY <2>2, <2>3 DEF Inv, OthersRest
    <3> QED BY <3>1, RunRests
  <2> QED BY <2>2, <2>3 DEF Inv
<1>2. CASE UNCHANGED vars
  <2>1. UNCHANGED <<pipeline, pc, state, position, attempt, data, completed, records,
                    calls, compensations, published>>
    BY <1>2 DEF vars, run, history
  <2>2. TypesOK' /\ \A s \in Runs : UNCHANGED Own(s)
    BY <2>1 DEF Inv, TypesOK, Own, Story
  <2> QED BY <2>2, RunRests DEF Inv
<1> QED BY <1>1, <1>2

\* The bookkeeping of every run is sound in every reachable state: what it
\* completed, called, recorded, compensated and published agrees with where it
\* stands (engine.py:166-254).
THEOREM PipelineInvariant == Spec => []Inv
BY InitInv, NextInv, PTL DEF Spec

------------------------------------------------------------------------------
(* What the result says.                                                   *)

\* The last call of a stage.
LEMMA LastCallIs ==
  ASSUME TypesOK, NEW r \in Runs, NEW k, NEW i \in CallsOf(r, k), \A j \in CallsOf(r, k) : j <= i
  PROVE  LastCall(r, k) = i
<1>1. \A j \in CallsOf(r, k) : j \in Nat
  BY DEF CallsOf, TypesOK
<1>2. \A x \in CallsOf(r, k) : (\A j \in CallsOf(r, k) : j <= x) => x = i
  BY <1>1
<1> QED BY <1>2 DEF LastCall

LEMMA ResultFromInv == Inv => ResultTellsWhatHappened
<1> SUFFICES ASSUME Inv, NEW r \in Runs
             PROVE  /\ published[r] \in {<<>>, <<"running">>, <<"running", state[r]>>}
                    /\ pc[r] = "returned" =>
                         /\ published[r] = <<"running", state[r]>>
                         /\ state[r] = "completed" <=> Len(completed[r]) = Len(pipeline[r])
                         /\ state[r] = "rolled_back" <=> Last(calls[r]).outcome # "success"
                         /\ \A k \in 1..Len(records[r]) :
                              LET attempts == Cardinality(CallsOf(r, k)) IN
                              /\ CallsOf(r, k) # {} /\ records[r][k].attempts = attempts
                              /\ records[r][k].outcome = "success"
                                   <=> calls[r][LastCall(r, k)].outcome = "success"
                              /\ records[r][k].rolledBack <=>
                                   \E i \in 1..Len(compensations[r]) :
                                     compensations[r][i] =
                                       [stage |-> k, output |-> [stage |-> k, attempt |-> attempts],
                                        returned |-> TRUE]
  BY DEF ResultTellsWhatHappened
<1>1. TypesOK /\ StateOK(r) /\ CompletedOK(r) /\ RecordsOK(r) /\ CompensationsOK(r) /\ EndedOK(r)
  BY DEF Inv, RunOK
<1>2. published[r] \in {<<>>, <<"running">>, <<"running", state[r]>>}
  <2>1. pc[r] \in Places
    BY <1>1 DEF TypesOK
  <2> QED BY <1>1, <2>1 DEF StateOK, Places
<1>3. ASSUME pc[r] = "returned"
      PROVE  /\ published[r] = <<"running", state[r]>>
             /\ state[r] \in {"completed", "rolled_back"}
  BY <1>1, <1>3 DEF StateOK
<1> DEFINE n == Len(calls[r])
           d == Done(r)
<1>4. /\ n \in Nat /\ d \in Nat /\ Size(r) \in Nat \ {0}
      /\ compensations[r] \in Seq(CompensationType) /\ Last(calls[r]) = calls[r][n]
      /\ calls[r] = <<>> \/ n \in 1..n
  BY <1>1, PipelineAssumption DEF TypesOK, Done, Size, Last
<1>5. /\ \A i, j \in 1..n : i < j => calls[r][i].stage <= calls[r][j].stage
      /\ \A i \in 1..n : calls[r][i].stage \in 1..(d + 1)
      /\ \A k \in 1..d : /\ completed[r][k] = [stage |-> k, attempt |-> Cardinality(CallsOf(r, k))]
                         /\ \E i \in CallsOf(r, k) :
                              calls[r][i].outcome = "success" /\ \A j \in CallsOf(r, k) : j <= i
  BY <1>1 DEF CompletedOK
<1>6. ASSUME state[r] = "rolled_back"
      PROVE  /\ d < Size(r) /\ Last(calls[r]).outcome # "success"
             /\ n \in CallsOf(r, d + 1)
             /\ calls[r][LastCall(r, d + 1)].outcome # "success"
  <2>1. FailedOK(r)
    BY <1>1, <1>6 DEF EndedOK
  <2>2. n \in CallsOf(r, d + 1) /\ \A j \in CallsOf(r, d + 1) : j <= n
    BY <1>4, <2>1 DEF FailedOK, CallsOf
  <2>3. LastCall(r, d + 1) = n
    BY <1>1, <2>2, LastCallIs
  <2> QED BY <1>4, <2>1, <2>2, <2>3 DEF FailedOK
<1>7. ASSUME state[r] = "completed"
      PROVE  d = Size(r) /\ Last(calls[r]).outcome = "success"
  <2>1. d = Size(r) /\ CallsOf(r, d + 1) = {}
    BY <1>1, <1>7 DEF EndedOK, Begun
  <2>2. PICK i \in CallsOf(r, d) : calls[r][i].outcome = "success" /\ \A j \in CallsOf(r, d) : j <= i
    <3>1. d \in 1..d
      BY <1>4, <2>1
    <3> HIDE DEF d, n
    <3> QED BY <1>5, <3>1
  <2>3. i \in 1..n /\ n \in 1..n /\ calls[r][i].stage = d
    BY <1>4, <2>2 DEF CallsOf
  <2>4. calls[r][n].stage \in 1..(d + 1) /\ calls[r][n].stage # d + 1
    BY <1>5, <2>1, <2>3 DEF CallsOf
  <2>5. i < n => calls[r][n].stage >= d
    BY <1>5, <2>3
  <2>6. i = n
    <3>1. i < n => calls[r][n].stage = d
      BY <1>4, <2>4, <2>5
    <3>2. i < n => n \in CallsOf(r, d)
      BY <2>3, <3>1 DEF CallsOf
    <3> QED BY <1>4, <2>2, <2>3, <3>2
  <2> QED BY <1>4, <2>1, <2>2, <2>6
<1>8. ASSUME pc[r] = "returned", NEW k \in 1..Len(records[r])
      PROVE  /\ CallsOf(r, k) # {} /\ records[r][k].attempts = Cardinality(CallsOf(r, k))
             /\ records[r][k].outcome = "success" <=> calls[r][LastCall(r, k)].outcome = "success"
             /\ records[r][k].rolledBack <=>
                  \E i \in 1..Len(compensations[r]) :
                    compensations[r][i] =
                      [stage |-> k, output |-> [stage |-> k, attempt |-> Cardinality(CallsOf(r, k))],
                       returned |-> TRUE]
  <2>1. /\ CallsOf(r, k) # {} /\ records[r][k].attempts = Cardinality(CallsOf(r, k))
        /\ records[r][k].outcome = "success" <=> k <= d
        /\ d <= Len(records[r]) /\ Len(records[r]) <= d + 1
    BY <1>1 DEF RecordsOK
  <2>2. records[r][k].rolledBack <=>
          \E i \in 1..Len(compensations[r]) :
            compensations[r][i].stage = k /\ compensations[r][i].returned
    BY <1>1 DEF RecordsOK
  <2>3. records[r][k].outcome = "success" <=> calls[r][LastCall(r, k)].outcome = "success"
    <3>1. CASE k \in 1..d
      <4>1. PICK i \in CallsOf(r, k) : calls[r][i].outcome = "success" /\ \A j \in CallsOf(r, k) : j <= i
        BY <1>5, <3>1
      <4>2. LastCall(r, k) = i
        BY <1>1, <4>1, LastCallIs
      <4> QED BY <2>1, <3>1, <4>1, <4>2
    <3>2. CASE k \notin 1..d
      <4>1. Len(records[r]) \in Nat
        BY <1>1 DEF TypesOK
      <4>2. k = d + 1 /\ Len(records[r]) = d + 1
        BY <1>4, <2>1, <3>2, <4>1
      <4>3. state[r] # "completed"
        BY <1>1, <1>4, <4>2 DEF EndedOK
      <4>4. state[r] = "rolled_back"
        BY <1>3, <1>8, <4>3
      <4> QED BY <1>4, <1>6, <2>1, <4>2, <4>4
    <3> QED BY <3>1, <3>2
  <2>4. ASSUME NEW i \in 1..Len(compensations[r])
        PROVE  (compensations[r][i].stage = k /\ compensations[r][i].returned)
               <=> compensations[r][i] =
                     [stage |-> k, output |-> [stage |-> k, attempt |-> Cardinality(CallsOf(r, k))],
                      returned |-> TRUE]
    <3> DEFINE c == compensations[r][i]
    <3>1. c \in CompensationType
      BY <1>4
    <3>2. c.stage \in 1..d /\ c.output = completed[r][c.stage]
      BY <1>1 DEF CompensationsOK
    <3>3. c.stage = k => c.output = [stage |-> k, attempt |-> Cardinality(CallsOf(r, k))]
      BY <1>5, <3>2
    <3> HIDE DEF c
    <3>4. c = [stage |-> c.stage, output |-> c.output, returned |-> c.returned] /\ c.returned \in BOOLEAN
      BY <3>1 DEF CompensationType
    <3>5. (c.stage = k /\ c.returned = TRUE) <=>
             c = [stage |-> k, output |-> [stage |-> k, attempt |-> Cardinality(CallsOf(r, k))],
                  returned |-> TRUE]
      BY <3>3, <3>4
    <3>6. c.returned <=> c.returned = TRUE
      BY <3>4
    <3> QED BY <3>5, <3>6 DEF c
  <2> QED BY <2>1, <2>2, <2>3, <2>4
<1>9. pc[r] = "returned" => /\ state[r] = "completed" <=> Len(completed[r]) = Len(pipeline[r])
                            /\ state[r] = "rolled_back" <=> Last(calls[r]).outcome # "success"
  BY <1>3, <1>4, <1>6, <1>7 DEF Done, Size
<1> HIDE DEF n, d
<1> QED BY <1>2, <1>3, <1>8, <1>9

\* What run() returns, the records in it and the events published for it agree
\* with the calls made, whatever raised or could not be resolved meanwhile
\* (engine.py:157-198, 231-254).
THEOREM ResultAlwaysTells == Spec => []ResultTellsWhatHappened
BY PipelineInvariant, ResultFromInv, PTL

------------------------------------------------------------------------------
(* The calls of the stages.                                                *)

\* What StageCallsFollowTheDefinition says of call i.
EarlierCalls(r, i) == {j \in 1..(i - 1) : calls[r][j].stage = calls[r][i].stage}
InputFrom(r, i, j) ==
  /\ calls[r][j].stage = calls[r][i].stage - 1 /\ calls[r][j].outcome = "success"
  /\ calls[r][i].input.attempt = Cardinality({k \in 1..j : calls[r][k].stage = calls[r][i].stage - 1})
CallOK(r, i) ==
  /\ IF calls[r][i].stage = 1 THEN calls[r][i].input = Initial
     ELSE /\ calls[r][i].input.stage = calls[r][i].stage - 1
          /\ \E j \in 1..(i - 1) : InputFrom(r, i, j)
  /\ Cardinality(EarlierCalls(r, i)) < pipeline[r][calls[r][i].stage].maxAttempts
  /\ \A j \in EarlierCalls(r, i) : calls[r][j].outcome \notin {"success", "failure"}

LEMMA CallsOK == StageCallsFollowTheDefinition <=> \A r \in Runs : \A i \in 1..Len(calls[r]) : CallOK(r, i)
BY DEF StageCallsFollowTheDefinition, CallOK, EarlierCalls, InputFrom

\* A call once made stays as it was.
LEMMA OldCallStays ==
  ASSUME TypesOK, NEW r \in Runs, UNCHANGED pipeline,
         \A j \in 1..Len(calls[r]) : calls'[r][j] = calls[r][j],
         NEW i \in 1..Len(calls[r]), CallOK(r, i)
  PROVE  CallOK(r, i)'
<1>1. i \in Nat /\ Len(calls[r]) \in Nat
  BY DEF TypesOK
<1>2. \A j \in 1..i : calls'[r][j] = calls[r][j]
  BY <1>1
<1>3. calls'[r][i] = calls[r][i] /\ \A j \in 1..(i - 1) : j \in 1..i
  BY <1>1
<1>4. EarlierCalls(r, i)' = EarlierCalls(r, i)
  BY <1>2, <1>3 DEF EarlierCalls
<1>5. \A j \in EarlierCalls(r, i) : calls'[r][j] = calls[r][j]
  BY <1>2, <1>3 DEF EarlierCalls
<1>6. ASSUME NEW j \in 1..(i - 1) PROVE InputFrom(r, i, j)' <=> InputFrom(r, i, j)
  <2>1. \A k \in 1..j : k \in 1..i
    BY <1>1
  <2>2. {k \in 1..j : calls'[r][k].stage = calls[r][i].stage - 1}
        = {k \in 1..j : calls[r][k].stage = calls[r][i].stage - 1}
    BY <1>2, <2>1
  <2> QED BY <1>2, <1>3, <2>2 DEF InputFrom
<1> QED BY <1>3, <1>4, <1>5, <1>6 DEF CallOK

\* A new call.
LEMMA NewCallOK ==
  ASSUME TypesOK, NEW r \in Runs, RunOK(r), NEW outcome \in Outcomes, Called(r, outcome),
         UNCHANGED pipeline, NEW m, m = Len(calls[r]) + 1
  PROVE  Len(calls'[r]) = m /\ CallOK(r, m)'
<1>1. PICK p : p = position[r]
  OBVIOUS
<1>2. PICK c : c = [stage |-> p, input |-> data[r], outcome |-> outcome]
  OBVIOUS
<1> DEFINE n == Len(calls[r])
<1>3. /\ pc[r] = "calling" /\ p = Done(r) + 1 /\ Done(r) \in Nat /\ n \in Nat
      /\ ForwardOK(r) /\ Begun(r) = CallsOf(r, p)
      /\ attempt[r] < pipeline[r][p].maxAttempts
  BY <1>1, <1>2, OneCall
<1>4. /\ Len(calls'[r]) = n + 1 /\ calls'[r][n + 1] = c
      /\ \A i \in 1..n : calls'[r][i] = calls[r][i]
  BY <1>1, <1>2, OneCall
<1>5. m = n + 1 /\ m - 1 = n /\ calls'[r][m] = c
  BY <1>3, <1>4
<1>6. EarlierCalls(r, m)' = CallsOf(r, p)
  BY <1>2, <1>4, <1>5 DEF EarlierCalls, CallsOf
<1>7. /\ attempt[r] = Cardinality(CallsOf(r, p))
      /\ \A i \in CallsOf(r, p) : calls[r][i].outcome \in {"raise", "retry_requested"}
      /\ data[r] = IF Done(r) = 0 THEN Initial ELSE completed[r][Done(r)]
  BY <1>3 DEF ForwardOK, Forward
<1>8. \A j \in EarlierCalls(r, m)' : calls'[r][j].outcome \notin {"success", "failure"}
  BY <1>4, <1>6, <1>7 DEF CallsOf
<1>9. CASE Done(r) = 0
  <2>1. p = 1 /\ c.stage = 1 /\ c.input = Initial
    BY <1>2, <1>3, <1>7, <1>9
  <2> QED BY <1>3, <1>4, <1>5, <1>6, <1>7, <1>8, <2>1 DEF CallOK
<1>10. CASE Done(r) # 0
  <2>1. PICK d : d = Done(r)
    OBVIOUS
  <2>2. d \in 1..d /\ p = d + 1 /\ c.stage = p /\ p # 1 /\ p - 1 = d
    BY <1>2, <1>3, <1>10, <2>1
  <2>3. completed[r][d] = [stage |-> d, attempt |-> Cardinality(CallsOf(r, d))]
    BY <2>1, <2>2 DEF RunOK, CompletedOK
  <2>4. \E i \in CallsOf(r, d) : calls[r][i].outcome = "success" /\ \A j \in CallsOf(r, d) : j <= i
    BY <2>1, <2>2 DEF RunOK, CompletedOK
  <2>5. PICK i \in CallsOf(r, d) : calls[r][i].outcome = "success" /\ \A j \in CallsOf(r, d) : j <= i
    BY <2>4
  <2>6. c.input.stage = d /\ c.input.attempt = Cardinality(CallsOf(r, d))
    BY <1>2, <1>7, <1>10, <2>1, <2>3
  <2>7. i \in 1..n /\ calls[r][i].stage = d
    BY <2>5 DEF CallsOf
  <2>8. {k \in 1..i : calls'[r][k].stage = d} = CallsOf(r, d)
    <3>1. \A k \in 1..i : k \in 1..n
      BY <1>3, <2>7
    <3>2. \A k \in CallsOf(r, d) : k \in 1..i /\ k \in 1..n /\ calls[r][k].stage = d
      BY <1>3, <2>5, <2>7 DEF CallsOf
    <3>3. {k \in 1..i : calls'[r][k].stage = d} = {k \in 1..i : calls[r][k].stage = d}
      BY <1>4, <3>1
    <3>4. {k \in 1..i : calls[r][k].stage = d} = CallsOf(r, d)
      BY <3>1, <3>2 DEF CallsOf
    <3> QED BY <3>3, <3>4
  <2>9. InputFrom(r, m, i)'
    <3>1. calls'[r][i].stage = d /\ calls'[r][i].outcome = "success"
      BY <1>4, <2>5, <2>7
    <3>2. calls'[r][m].stage - 1 = d /\ calls'[r][m].input.attempt = Cardinality(CallsOf(r, d))
      BY <1>5, <2>2, <2>6
    <3> HIDE DEF n
    <3> QED BY <2>8, <3>1, <3>2 DEF InputFrom
  <2> QED BY <1>3, <1>4, <1>5, <1>6, <1>7, <1>8, <2>2, <2>6, <2>7, <2>9 DEF CallOK
<1> QED BY <1>4, <1>5, <1>9, <1>10

\* The steps that call a stage, and the others.
LEMMA CalledOrNot ==
  ASSUME NEW r \in Runs, Step(r)
  PROVE  UNCHANGED pipeline /\ (UNCHANGED calls \/ \E outcome \in Outcomes : Called(r, outcome))
<1>1. CASE StageSucceeds(r)
  BY <1>1 DEF StageSucceeds, Outcomes
<1>2. CASE \E outcome \in Failures : StageDoesNotSucceed(r, outcome)
  BY <1>2 DEF StageDoesNotSucceed, Outcomes
<1>3. CASE StartRun(r) \/ ResolveStage(r) \/ StageResolved(r) \/ CompleteRun(r) \/ FinishRollback(r)
  BY <1>3 DEF StartRun, ResolveStage, StageResolved, CompleteRun, FinishRollback, history
<1>4. CASE \/ SkipCompensation(r) \/ ResolveCompensation(r) \/ CompensationResolved(r)
           \/ CompensationReturns(r) \/ CompensationRaises(r) \/ Resolving(r)
  BY <1>4 DEF SkipCompensation, ResolveCompensation, CompensationResolved, CompensationReturns,
              CompensationRaises, Resolving, run, history
<1> QED BY <1>1, <1>2, <1>3, <1>4 DEF Step, Failures

LEMMA CallsNext ==
  Inv /\ StageCallsFollowTheDefinition /\ [Next]_vars => StageCallsFollowTheDefinition'
<1> SUFFICES ASSUME Inv, StageCallsFollowTheDefinition, [Next]_vars,
                    NEW s \in Runs, NEW i \in 1..Len(calls'[s])
             PROVE  CallOK(s, i)'
  <2>1. (\A s \in Runs : \A i \in 1..Len(calls[s]) : CallOK(s, i))' => StageCallsFollowTheDefinition'
    BY DEF StageCallsFollowTheDefinition, CallOK, EarlierCalls, InputFrom
  <2> QED BY <2>1
<1>1. TypesOK /\ RunOK(s) /\ \A j \in 1..Len(calls[s]) : CallOK(s, j)
  BY CallsOK DEF Inv
<1>2. CASE UNCHANGED <<pipeline, calls[s]>>
  BY <1>1, <1>2, OldCallStays
<1>3. CASE \E outcome \in Outcomes : Called(s, outcome) /\ UNCHANGED pipeline
  <2>1. PICK outcome \in Outcomes : Called(s, outcome) /\ UNCHANGED pipeline
    BY <1>3
  <2>2. PICK m : m = Len(calls[s]) + 1
    OBVIOUS
  <2>3. Len(calls'[s]) = m /\ CallOK(s, m)'
    BY <1>1, <2>1, <2>2, NewCallOK
  <2>4. \A j \in 1..Len(calls[s]) : calls'[s][j] = calls[s][j]
    <3>1. PICK p : p = position[s]
      OBVIOUS
    <3>2. PICK c : c = [stage |-> p, input |-> data[s], outcome |-> outcome]
      OBVIOUS
    <3> QED BY <1>1, <2>1, <3>1, <3>2, OneCall
  <2>5. i = m \/ i \in 1..Len(calls[s])
    BY <1>1, <2>2, <2>3 DEF TypesOK
  <2> QED BY <1>1, <2>1, <2>3, <2>4, <2>5, OldCallStays
<1>4. UNCHANGED pipeline /\ (UNCHANGED calls[s] \/ \E outcome \in Outcomes : Called(s, outcome))
  <2>1. CASE UNCHANGED vars
    BY <2>1 DEF vars, run, history
  <2>2. CASE Next
    <3>1. PICK r \in Runs : Step(r)
      BY <2>2 DEF Next
    <3>2. UNCHANGED pipeline /\ (UNCHANGED calls \/ \E outcome \in Outcomes : Called(r, outcome))
      BY <3>1, CalledOrNot
    <3>3. s # r => UNCHANGED calls[s]
      <4>1. OthersRest(r)
        BY <3>1, StepKeeps DEF Inv
      <4> QED BY <4>1 DEF OthersRest, Own, Story
    <3> QED BY <3>2, <3>3
  <2> QED BY <2>1, <2>2
<1> QED BY <1>2, <1>3, <1>4

\* Stages are called as the definition says: with what the stage before gave
\* in its successful call, again only after raising or asking for a retry, and
\* never more often than max_attempts (engine.py:166-225).
THEOREM StagesAlwaysFollowTheDefinition == Spec => []StageCallsFollowTheDefinition
<1>1. Init => StageCallsFollowTheDefinition
  BY DEF Init, StageCallsFollowTheDefinition
<1> QED BY <1>1, CallsNext, PipelineInvariant, PTL DEF Spec

------------------------------------------------------------------------------
(* Every run is a CompensatedRun.                                          *)

Lengths == [r \in Runs |-> Len(pipeline[r])]
Compensables == [r \in Runs |-> Compensable(r)]
Dones == [r \in Runs |-> Len(completed[r])]
Undones == [r \in Runs |-> UndoneStages(r)]
Phases == [r \in Runs |-> Phase(r)]

\* What a step of one run does to what CompensatedRun sees.
LEMMA SeenMoves ==
  ASSUME NEW r \in Runs, OthersRest(r), UNCHANGED pipeline
  PROVE  /\ Lengths' = Lengths /\ Compensables' = Compensables
         /\ Dones' = [Dones EXCEPT ![r] = Done(r)']
         /\ Undones' = [Undones EXCEPT ![r] = UndoneStages(r)']
         /\ Phases' = [Phases EXCEPT ![r] = Phase(r)']
<1>1. Lengths' = Lengths /\ Compensables' = Compensables
  BY DEF Lengths, Compensables, Compensable
<1>2. \A s \in Runs : s # r => UNCHANGED <<completed[s], compensations[s], state[s], pc[s]>>
  BY DEF OthersRest, Own, Story
<1>3. \A s \in Runs : s # r => UndoneStages(s)' = UndoneStages(s) /\ Phase(s)' = Phase(s)
  BY <1>2 DEF UndoneStages, Phase
<1>4. Dones' = [Dones EXCEPT ![r] = Done(r)']
  BY <1>2 DEF Dones, Done
<1>5. Undones' = [Undones EXCEPT ![r] = UndoneStages(r)'] /\ Phases' = [Phases EXCEPT ![r] = Phase(r)']
  BY <1>3 DEF Undones, Phases
<1> QED BY <1>1, <1>4, <1>5

\* A step that CompensatedRun does not see.
LEMMA Unseen ==
  ASSUME NEW r \in Runs, OthersRest(r), UNCHANGED pipeline,
         Done(r)' = Done(r), UndoneStages(r)' = UndoneStages(r), Phase(r)' = Phase(r)
  PROVE  UNCHANGED Compensation!vars
<1>1. Dones[r] = Done(r) /\ Undones[r] = UndoneStages(r) /\ Phases[r] = Phase(r)
  BY DEF Dones, Done, Undones, Phases
<1>2. Dones' = Dones /\ Undones' = Undones /\ Phases' = Phases
  BY <1>1, SeenMoves DEF Dones, Undones, Phases
<1> QED BY <1>2, SeenMoves DEF Compensation!vars, Lengths, Compensables, Dones, Undones, Phases

\* A step that only changes the phase.
LEMMA Turns ==
  ASSUME NEW r \in Runs, OthersRest(r), UNCHANGED pipeline,
         Done(r)' = Done(r), UndoneStages(r)' = UndoneStages(r), Phase(r) = "forward",
         NEW next \in {"completed", "backward", "abandoned"}, Phase(r)' = next,
         next = "completed" => Done(r) = Size(r),
         next = "backward" => Done(r) < Size(r)
  PROVE  Compensation!Next
<1>1. /\ Dones[r] = Done(r) /\ Undones[r] = UndoneStages(r) /\ Phases[r] = "forward"
      /\ Lengths[r] = Size(r)
  BY DEF Dones, Done, Undones, Phases, Lengths, Size
<1>2. Dones' = Dones /\ Undones' = Undones /\ Phases' = [Phases EXCEPT ![r] = next]
  BY <1>1, SeenMoves DEF Dones, Undones
<1>3. Compensation!Turn(r, next)
  BY <1>1, <1>2, SeenMoves DEF Compensation!Turn, Lengths, Compensables, Dones, Undones, Phases
<1> QED BY <1>3 DEF Compensation!Next

LEMMA SeenInit == Init => Compensation!Init
<1> SUFFICES ASSUME Init PROVE Compensation!Init
  OBVIOUS
<1>1. Lengths \in [Runs -> Nat]
  BY PipelineAssumption DEF Init, Lengths
<1>2. \A r \in Runs : Compensables[r] \in SUBSET (1..Lengths[r])
  BY DEF Compensables, Compensable, Lengths
<1>3. ASSUME NEW r \in Runs
      PROVE  Dones[r] = 0 /\ Undones[r] = <<>> /\ Phases[r] = "forward"
  <2>1. completed[r] = <<>> /\ compensations[r] = <<>> /\ state[r] = "queued" /\ pc[r] = "queued"
    BY DEF Init
  <2>2. UndoneStages(r) = <<>>
    <3>1. UndoneStages(r) = [i \in 1..0 |-> compensations[r][i].stage]
      BY <2>1 DEF UndoneStages
    <3>2. UndoneStages(r) \in Seq(Nat) /\ Len(UndoneStages(r)) = 0
      BY <3>1
    <3> QED BY <3>2
  <2> QED BY <2>1, <2>2 DEF Dones, Undones, Phases, Phase
<1>4. Dones = [r \in Runs |-> 0] /\ Undones = [r \in Runs |-> <<>>] /\ Phases = [r \in Runs |-> "forward"]
  BY <1>3 DEF Dones, Undones, Phases
<1> QED BY <1>1, <1>2, <1>4 DEF Compensation!Init, Lengths, Compensables, Dones, Undones, Phases

LEMMA SeenNext ==
  ASSUME Inv, NEW r \in Runs, Step(r)
  PROVE  [Compensation!Next]_(Compensation!vars)
<1>1. TypesOK /\ RunOK(r) /\ OthersRest(r) /\ UNCHANGED pipeline
  BY StepKeeps, CalledOrNot DEF Inv
<1>2. StateOK(r) /\ ForwardOK(r) /\ BackwardOK(r) /\ CompletedOK(r)
  BY <1>1 DEF RunOK
<1>3. pc \in [Runs -> Places] /\ state \in [Runs -> RunStates]
  BY <1>1 DEF TypesOK
<1>4. CASE StartRun(r) \/ ResolveStage(r) \/ StageResolved(r)
  <2>1. /\ Phase(r) = "forward" /\ state'[r] = "running"
        /\ pc'[r] \in {"stage", "resolving", "calling", "raised"}
        /\ UNCHANGED <<completed, compensations>>
    BY <1>2, <1>3, <1>4 DEF StartRun, ResolveStage, StageResolved, Enter, Go, Unresolved, StateOK,
                            Forward, Phase, history
  <2>2. Done(r)' = Done(r) /\ UndoneStages(r)' = UndoneStages(r)
    BY <2>1 DEF Done, UndoneStages
  <2>3. CASE pc'[r] = "raised"
    <3>1. Phase(r)' = "abandoned"
      BY <2>1, <2>3 DEF Phase
    <3> QED BY <1>1, <2>1, <2>2, <3>1, Turns
  <2>4. CASE pc'[r] # "raised"
    <3>1. Phase(r)' = "forward"
      BY <2>1, <2>4 DEF Phase
    <3> QED BY <1>1, <2>1, <2>2, <3>1, Unseen
  <2> QED BY <2>3, <2>4
<1>5. CASE StageSucceeds(r)
  <2>1. Called(r, "success") /\ "success" \in Outcomes
    BY <1>5 DEF StageSucceeds, Outcomes
  <2>2. pc[r] = "calling" /\ Done(r) \in Nat /\ Size(r) \in Nat /\ Done(r) < Size(r)
    <3>1. PICK p : p = position[r]
      OBVIOUS
    <3>2. PICK c : c = [stage |-> p, input |-> data[r], outcome |-> "success"]
      OBVIOUS
    <3>3. p = Done(r) + 1 /\ p <= Size(r) /\ Done(r) \in Nat /\ Size(r) \in Nat /\ pc[r] = "calling"
      BY <1>1, <2>1, <3>1, <3>2, OneCall
    <3> QED BY <3>3
  <2>3. pc'[r] = "stage" /\ UNCHANGED <<state, compensations>> /\ Phase(r) = "forward"
    BY <1>2, <1>3, <1>5, <2>2 DEF StageSucceeds, Go, StateOK, Forward, Phase
  <2>4. Phase(r)' = Phase(r) /\ UndoneStages(r)' = UndoneStages(r)
    BY <1>2, <1>3, <2>2, <2>3 DEF Phase, StateOK, Forward, UndoneStages
  <2>5. Done(r)' = Done(r) + 1
    <3>1. completed[r] \in Seq(OutputType)
      BY <1>1 DEF TypesOK
    <3>2. completed'[r] = Append(completed[r], Output(r))
      BY <1>1, <1>5 DEF StageSucceeds, Log, TypesOK
    <3> QED BY <3>1, <3>2 DEF Done
  <2>6. /\ Dones[r] = Done(r) /\ Undones[r] = UndoneStages(r) /\ Phases[r] = Phase(r)
        /\ Lengths[r] = Size(r)
    BY DEF Dones, Done, Undones, Phases, Lengths, Size
  <2>7. Dones' = [Dones EXCEPT ![r] = Dones[r] + 1] /\ Undones' = Undones /\ Phases' = Phases
    BY <1>1, <2>4, <2>5, <2>6, SeenMoves DEF Undones, Phases
  <2>8. Compensation!Advance(r)
    BY <1>1, <2>2, <2>3, <2>6, <2>7, SeenMoves
       DEF Compensation!Advance, Lengths, Compensables, Dones, Undones, Phases
  <2> QED BY <2>8 DEF Compensation!Next
<1>6. CASE \E outcome \in Failures : StageDoesNotSucceed(r, outcome)
  <2>1. PICK outcome \in Failures : StageDoesNotSucceed(r, outcome)
    BY <1>6
  <2>2. Called(r, outcome) /\ outcome \in Outcomes
    BY <2>1 DEF StageDoesNotSucceed, Outcomes
  <2>3. pc[r] = "calling" /\ Done(r) < Size(r)
    <3>1. PICK p : p = position[r]
      OBVIOUS
    <3>2. PICK c : c = [stage |-> p, input |-> data[r], outcome |-> outcome]
      OBVIOUS
    <3>3. p = Done(r) + 1 /\ p <= Size(r) /\ Done(r) \in Nat /\ Size(r) \in Nat /\ pc[r] = "calling"
      BY <1>1, <2>2, <3>1, <3>2, OneCall
    <3> QED BY <3>3
  <2>4. UNCHANGED <<state, completed, compensations>> /\ pc'[r] \in {"calling", "rollback"}
    BY <1>3, <2>1, <2>3 DEF StageDoesNotSucceed, Go
  <2>5. state[r] = "running" /\ Phase(r) = "forward"
    BY <1>2, <2>3 DEF StateOK, Forward, Phase
  <2>6. Done(r)' = Done(r) /\ UndoneStages(r)' = UndoneStages(r)
    BY <2>4 DEF Done, UndoneStages
  <2>7. CASE pc'[r] = "calling"
    <3>1. Phase(r)' = "forward"
      BY <2>4, <2>5, <2>7 DEF Phase
    <3> QED BY <1>1, <2>5, <2>6, <3>1, Unseen
  <2>8. CASE pc'[r] = "rollback"
    <3>1. Phase(r)' = "backward"
      BY <2>4, <2>5, <2>8 DEF Phase
    <3> QED BY <1>1, <2>3, <2>5, <2>6, <3>1, Turns
  <2> QED BY <2>4, <2>7, <2>8
<1>7. CASE CompleteRun(r)
  <2>1. /\ pc[r] = "stage" /\ state'[r] = "completed" /\ position[r] > Size(r)
        /\ UNCHANGED <<completed, compensations>>
    BY <1>3, <1>7 DEF CompleteRun, Enter, Size
  <2>2. Phase(r) = "forward" /\ Phase(r)' = "completed"
    <3>1. state[r] = "running"
      BY <1>2, <2>1 DEF StateOK, Forward
    <3>2. Phase(r) = "forward"
      BY <2>1, <3>1 DEF Phase
    <3>3. Phase(r)' = "completed"
      BY <2>1 DEF Phase
    <3> QED BY <3>2, <3>3
  <2>3. Done(r)' = Done(r) /\ UndoneStages(r)' = UndoneStages(r)
    BY <2>1 DEF Done, UndoneStages
  <2>4. Done(r) = Size(r)
    <3>1. Done(r) \in Nat /\ Size(r) \in Nat
      BY <1>1, PipelineAssumption DEF TypesOK, Done, Size
    <3>2. position[r] = Done(r) + 1 /\ Done(r) <= Size(r)
      BY <1>2, <2>1 DEF ForwardOK, CompletedOK, Forward
    <3> QED BY <2>1, <3>1, <3>2
  <2> QED BY <1>1, <2>2, <2>3, <2>4, Turns
<1>8. CASE SkipCompensation(r) \/ CompensationResolved(r) \/ CompensationRaises(r) \/ Resolving(r)
  <2>1. UNCHANGED <<state, completed, compensations>>
    BY <1>8 DEF SkipCompensation, CompensationResolved, CompensationRaises, Resolving, run, history
  <2>2. pc'[r] = pc[r] \/ (pc[r] \in Backward /\ pc'[r] \in Backward)
    BY <1>3, <1>8 DEF SkipCompensation, CompensationResolved, CompensationRaises, Resolving, run,
                      Go, Backward
  <2>3. Phase(r)' = Phase(r)
    BY <2>1, <2>2 DEF Phase, Backward
  <2>4. Done(r)' = Done(r) /\ UndoneStages(r)' = UndoneStages(r)
    BY <2>1 DEF Done, UndoneStages
  <2> QED BY <1>1, <2>3, <2>4, Unseen
<1>9. CASE CompensationReturns(r)
  <2>1. pc[r] \in Backward /\ pc'[r] \in Backward /\ UNCHANGED <<state, completed>>
    BY <1>3, <1>9 DEF CompensationReturns, Go, Backward
  <2>2. Phase(r)' = Phase(r) /\ Done(r)' = Done(r)
    BY <2>1 DEF Phase, Backward, Done
  <2>3. UndoneStages(r)' = UndoneStages(r)
    <3> DEFINE n == Len(compensations[r])
    <3>1. compensations[r] \in Seq(CompensationType) /\ compensations[r] # <<>>
      BY <1>1, <1>2, <1>9 DEF TypesOK, CompensationReturns, BackwardOK, Backward
    <3>2. compensations'[r] = [compensations[r] EXCEPT ![n] = [@ EXCEPT !.returned = TRUE]]
      BY <1>1, <1>9 DEF TypesOK, CompensationReturns
    <3>3. n \in 1..n /\ compensations[r][n] \in CompensationType
      BY <3>1
    <3>4. [compensations[r][n] EXCEPT !.returned = TRUE].stage = compensations[r][n].stage
      BY <3>3 DEF CompensationType
    <3>5. Len(compensations'[r]) = n /\ \A i \in 1..n : compensations'[r][i].stage = compensations[r][i].stage
      BY <3>1, <3>2, <3>3, <3>4
    <3> QED BY <3>5 DEF UndoneStages
  <2> QED BY <1>1, <2>2, <2>3, Unseen
<1>10. CASE ResolveCompensation(r)
  <2>1. PICK p : p = position[r]
    OBVIOUS
  <2>2. PICK c : c = [stage |-> p, output |-> completed[r][p], returned |-> FALSE]
    OBVIOUS
  <2>3. /\ pc[r] = "rollback" /\ pc'[r] = "resolving_compensation" /\ p > 0 /\ p \in Nat
        /\ pipeline[r][p].rollback # NoCapability
        /\ compensations'[r] = Append(compensations[r], c)
        /\ UNCHANGED <<state, completed>>
    BY <1>1, <1>10, <2>1, <2>2 DEF TypesOK, ResolveCompensation, Log, Go, Stage
  <2>4. /\ FailedOK(r) /\ p <= Done(r) /\ state[r] = "running"
        /\ \A i \in 1..Len(compensations[r]) : compensations[r][i].stage > p
    BY <1>2, <2>1, <2>3 DEF BackwardOK, Backward, StateOK
  <2>5. Done(r) \in Nat /\ Size(r) \in Nat /\ Done(r) < Size(r)
    BY <1>1, <2>4, PipelineAssumption DEF TypesOK, Done, Size, FailedOK
  <2>6. p \in Compensable(r)
    BY <2>3, <2>4, <2>5 DEF Compensable, Size
  <2>7. Phase(r) = "backward" /\ Phase(r)' = Phase(r) /\ Done(r)' = Done(r)
    BY <2>3, <2>4 DEF Phase, Done
  <2>8. UndoneStages(r)' = Append(UndoneStages(r), p)
    <3> DEFINE n == Len(compensations[r])
               u == UndoneStages(r)
               v == [i \in 1..(n + 1) |-> compensations'[r][i].stage]
    <3>1. compensations[r] \in Seq(CompensationType) /\ n \in Nat
      BY <1>1 DEF TypesOK
    <3>2. /\ Len(compensations'[r]) = n + 1 /\ compensations'[r][n + 1] = c
          /\ \A i \in 1..n : compensations'[r][i] = compensations[r][i]
      BY <2>3, <3>1
    <3>3. u \in Seq(Nat) /\ Len(u) = n /\ \A i \in 1..n : u[i] = compensations[r][i].stage
      <4>1. \A i \in 1..n : compensations[r][i].stage \in Nat
        BY <1>1 DEF RunOK, CompensationsOK
      <4> QED BY <3>1, <4>1 DEF UndoneStages
    <3>4. UndoneStages(r)' = v
      BY <3>2 DEF UndoneStages
    <3> HIDE DEF n, u
    <3>5. \A i : i \in 1..(n + 1) <=> i \in 1..n \/ i = n + 1
      BY <3>1 DEF n
    <3>6. \A i \in 1..(n + 1) : v[i] = IF i = n + 1 THEN p ELSE u[i]
      BY <2>2, <3>2, <3>3, <3>5
    <3>7. \A i \in 1..(n + 1) : v[i] \in Nat
      <4>1. \A i \in 1..n : u[i] \in Nat
        BY <3>3
      <4> HIDE DEF v
      <4> QED BY <2>3, <3>5, <3>6, <4>1
    <3>8. v \in Seq(Nat) /\ Len(v) = n + 1
      <4>1. n + 1 \in Nat
        BY <3>1
      <4> QED BY <3>7, <4>1
    <3>9. /\ Append(u, p) \in Seq(Nat) /\ Len(Append(u, p)) = n + 1
          /\ \A i \in 1..(n + 1) : Append(u, p)[i] = IF i = n + 1 THEN p ELSE u[i]
      BY <2>3, <3>3, <3>5
    <3> HIDE DEF v
    <3>10. v = Append(u, p)
      BY <3>6, <3>8, <3>9, SeqEqual
    <3> QED BY <3>4, <3>10 DEF u
  <2>9. /\ Dones[r] = Done(r) /\ Undones[r] = UndoneStages(r) /\ Phases[r] = Phase(r)
        /\ Compensables[r] = Compensable(r)
    BY DEF Dones, Done, Undones, Phases, Compensables
  <2>10. \A i \in 1..Len(Undones[r]) : p < Undones[r][i]
    <3>1. Len(compensations[r]) \in Nat
      BY <1>1 DEF TypesOK
    <3>2. Len(UndoneStages(r)) = Len(compensations[r])
      BY <3>1 DEF UndoneStages
    <3>3. \A i \in 1..Len(compensations[r]) : compensations[r][i].stage \in Nat
      BY <1>1 DEF RunOK, CompensationsOK
    <3> QED BY <2>3, <2>4, <2>9, <3>2, <3>3 DEF UndoneStages
  <2>11. Dones' = Dones /\ Undones' = [Undones EXCEPT ![r] = Append(Undones[r], p)] /\ Phases' = Phases
    BY <1>1, <2>7, <2>8, <2>9, SeenMoves DEF Dones, Phases
  <2>12. Compensation!Compensate(r, p)
    BY <1>1, <2>4, <2>6, <2>7, <2>9, <2>10, <2>11, SeenMoves
       DEF Compensation!Compensate, Lengths, Compensables, Dones, Undones, Phases
  <2> QED BY <2>6, <2>9, <2>12 DEF Compensation!Next, Compensables
<1>11. CASE FinishRollback(r)
  <2>1. /\ pc[r] = "rollback" /\ position[r] = 0 /\ state'[r] = "rolled_back"
        /\ UNCHANGED <<completed, compensations>>
    BY <1>3, <1>11 DEF FinishRollback, Enter
  <2>2. Phase(r) = "backward" /\ Phase(r)' = "rolled_back"
    <3>1. state[r] = "running"
      BY <1>2, <2>1 DEF StateOK, Backward
    <3>2. Phase(r) = "backward"
      BY <2>1, <3>1 DEF Phase
    <3>3. Phase(r)' = "rolled_back"
      BY <2>1 DEF Phase
    <3> QED BY <3>2, <3>3
  <2>3. Done(r)' = Done(r) /\ UndoneStages(r)' = UndoneStages(r)
    BY <2>1 DEF Done, UndoneStages
  <2>4. FailedOK(r) /\ \A k \in 1..Done(r) : pipeline[r][k].rollback # NoCapability => Undone(r, k)
    BY <1>2, <2>1 DEF BackwardOK, Backward
  <2>5. Done(r) \in Nat /\ Size(r) \in Nat /\ Done(r) < Size(r) /\ Len(compensations[r]) \in Nat
    BY <1>1, <2>4, PipelineAssumption DEF TypesOK, Done, Size, FailedOK
  <2>6. ToSet(UndoneStages(r)) = Compensable(r) \cap (1..Done(r))
    <3>1. ToSet(UndoneStages(r)) = {compensations[r][i].stage : i \in 1..Len(compensations[r])}
      BY <2>5 DEF ToSet, UndoneStages
    <3>2. \A k : k \in ToSet(UndoneStages(r)) <=> Undone(r, k)
      BY <3>1 DEF Undone
    <3>3. \A k : Undone(r, k) => k \in 1..Done(r) /\ pipeline[r][k].rollback # NoCapability
      BY <1>1 DEF RunOK, CompensationsOK, Undone
    <3>4. \A k \in 1..Done(r) : k \in 1..Size(r)
      BY <2>5
    <3> QED BY <2>4, <3>2, <3>3, <3>4 DEF Compensable, Size
  <2>7. /\ Dones[r] = Done(r) /\ Undones[r] = UndoneStages(r) /\ Phases[r] = Phase(r)
        /\ Compensables[r] = Compensable(r)
    BY DEF Dones, Done, Undones, Phases, Compensables
  <2>8. Dones' = Dones /\ Undones' = Undones /\ Phases' = [Phases EXCEPT ![r] = "rolled_back"]
    BY <1>1, <2>2, <2>3, <2>7, SeenMoves DEF Dones, Undones
  <2>9. Compensation!RolledBack(r)
    <3>1. Compensation!ToSet(Undones[r]) = Compensables[r] \cap (1..Dones[r])
      <4>1. Compensation!ToSet(UndoneStages(r)) = ToSet(UndoneStages(r))
        BY DEF ToSet, Compensation!ToSet
      <4> QED BY <2>6, <2>7, <4>1
    <3>2. Phases[r] = "backward" /\ Phases' = [Phases EXCEPT ![r] = "rolled_back"]
      BY <2>2, <2>7, <2>8
    <3>3. UNCHANGED <<Lengths, Compensables, Dones, Undones>>
      BY <1>1, <2>8, SeenMoves
    <3> QED BY <3>1, <3>2, <3>3 DEF Compensation!RolledBack, Lengths, Compensables, Dones, Undones, Phases
  <2> QED BY <2>9 DEF Compensation!Next
<1> QED BY <1>4, <1>5, <1>6, <1>7, <1>8, <1>9, <1>10, <1>11 DEF Step, Failures

\* Every run is a CompensatedRun: forwards in order, backwards in reverse,
\* each completed stage's compensation started once, and nothing undone left
\* when it is rolled back (engine.py:231-254).
THEOREM EveryRunIsCompensated == Spec => ImplementsCompensatedRun
<1>1. Inv /\ [Next]_vars => [Compensation!Next]_(Compensation!vars)
  <2> SUFFICES ASSUME Inv, [Next]_vars PROVE [Compensation!Next]_(Compensation!vars)
    OBVIOUS
  <2>1. CASE Next
    BY <2>1, SeenNext DEF Next
  <2>2. CASE UNCHANGED vars
    <3>1. UNCHANGED <<pipeline, completed, compensations, state, pc>>
      BY <2>2 DEF vars, run, history
    <3>2. UNCHANGED Compensation!vars
      BY <3>1 DEF Compensation!vars, Compensable, UndoneStages, Phase
    <3> QED BY <3>2
  <2> QED BY <2>1, <2>2
<1> QED BY <1>1, SeenInit, PipelineInvariant, PTL DEF Spec, ImplementsCompensatedRun, Compensation!Spec
==============================================================================
