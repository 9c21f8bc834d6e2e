------------------------ MODULE ProtectedApply_proofs ------------------------
(***************************************************************************)
(* Proofs about ProtectedApply for every set of runs and objects, every    *)
(* catalog and every bound.                                                *)
(***************************************************************************)
EXTENDS ProtectedApply, TLAPS

-----------------------------------------------------------------------------
(* Facts about the operators of the model.                                 *)

\* The desired state of any commit, observation and phase is a state.
LEMMA TargetType ==
  ASSUME NEW obs \in State, NEW s \in Sha, NEW ph
  PROVE  Target(obs, s, ph) \in State
  BY ConstantsAssumption DEF Target, State

\* A plan holds only well-formed changes.
LEMMA PlanType ==
  ASSUME NEW obs \in State, NEW l \in State, NEW m \in SUBSET Obj, NEW s \in Sha, NEW ph
  PROVE  PlanOf(obs, l, m, s, ph) \in SUBSET Change
<1> DEFINE imports == Imports(obs, m, s)
           scope == IF ph = "adopt" THEN imports
                    ELSE m \cup {o \in Obj : Catalog[s][o] # Absent}
           change(o) == [obj |-> o, before |-> IF o \in m \cup imports THEN l[o] ELSE Absent,
                         after |-> Target(obs, s, ph)[o], import |-> o \in imports]
<1>1. imports \subseteq Obj
  BY DEF Imports
<1>2. scope \subseteq Obj
  BY <1>1
<1>3. Target(obs, s, ph) \in State
  BY TargetType
<1>4. ASSUME NEW o \in Obj PROVE change(o) \in Change
  <2>1. l[o] \in Val /\ Target(obs, s, ph)[o] \in Val /\ Absent \in Val
    BY <1>3, ConstantsAssumption DEF State
  <2>2. (o \in imports) \in BOOLEAN
    OBVIOUS
  <2> HIDE DEF imports
  <2>3. QED
    BY <2>1, <2>2 DEF Change
<1>5. PlanOf(obs, l, m, s, ph) = {change(o) : o \in scope}
  BY DEF PlanOf
<1>6. QED
  BY <1>2, <1>4, <1>5

\* Recording applied changes keeps the OpenTofu state a set of objects.
LEMMA RecordedType ==
  ASSUME NEW m \in SUBSET Obj, NEW p \in SUBSET Change
  PROVE  Recorded(m, p) \in SUBSET Obj
  BY DEF Recorded, Change, Removals

\* A job starts with an empty workspace.
LEMMA FreshType == ASSUME NEW t \in Nat PROVE Fresh(t) \in Runner
  BY ConstantsAssumption DEF Fresh, Runner, NoState, State, Outcome

-----------------------------------------------------------------------------
(* Type correctness.                                                       *)

LEMMA InitType == Init => TypeOK
<1> SUFFICES ASSUME Init PROVE TypeOK
  OBVIOUS
<1>1. 1 \in Sha /\ 1 \in Attempt
  BY ConstantsAssumption DEF Sha, Attempt
<1>2. Fresh(0) \in Runner
  BY FreshType
<1>3. NoEvidence \in Evidence
  BY ConstantsAssumption DEF NoEvidence, Evidence, NoState, State
<1>4. input \in [Run -> Input] /\ gate \in [Run -> Gate]
  BY <1>1 DEF Init, Input, Phase, Gate, ReviewState
<1>5. evidence \in [Run -> [Attempt -> Evidence]]
  BY <1>3 DEF Init
<1>6. live \in State /\ managed \subseteq Obj /\ review \in [Sha -> ReviewState]
  BY ConstantsAssumption DEF Init
<1>7. stage \in [Run -> Stage] /\ entry \in [Run -> {"gate", "plan-identity", "approval"}]
  BY DEF Init, Stage
<1>8. QED
  BY <1>1, <1>2, <1>4, <1>5, <1>6, <1>7, ConstantsAssumption DEF Init, TypeOK

LEMMA WorldType == TypeOK /\ World => TypeOK'
<1> SUFFICES ASSUME TypeOK, World PROVE TypeOK'
  OBVIOUS
<1> USE DEF TypeOK, Outside, Disturb, queue, runs, log
<1>1. CASE AdvanceMain
  BY <1>1, ConstantsAssumption DEF AdvanceMain, Sha
<1>2. CASE RotateContract
  BY <1>2 DEF RotateContract
<1>3. CASE Qualify
  BY <1>3, ConstantsAssumption DEF Qualify
<1>4. CASE Tick
  BY <1>4 DEF Tick
<1>5. ASSUME NEW o \in Obj, NEW v \in Val, OutsideEdit(o, v) PROVE TypeOK'
  BY <1>5 DEF OutsideEdit, State
<1>6. ASSUME NEW s \in Sha, WithdrawReview(s) PROVE TypeOK'
  BY <1>6 DEF WithdrawReview, ReviewState
<1>7. QED
  BY <1>1, <1>2, <1>3, <1>4, <1>5, <1>6 DEF World

\* The stages a step may hand over to are stages.
LEMMA StageType ==
  ASSUME TypeOK, NEW r \in Run, NEW st \in Stage, stage' = [stage EXCEPT ![r] = st]
  PROVE  stage' \in [Run -> Stage]
  BY DEF TypeOK

LEMMA QueueType ==
  ASSUME TypeOK, NEW r \in Run,
         \/ \E f \in Offer, a \in BOOLEAN : Dispatch(r, f, a)
         \/ \E all \in BOOLEAN : Rerun(r, all)
         \/ Start(r)
  PROVE  TypeOK'
<1> USE DEF TypeOK, world, log
<1>1. ASSUME NEW st \in {"queued"}, Enqueue(r, st)
      PROVE  stage' \in [Run -> Stage] /\ waiting' \in Run \cup {NoRun}
  BY <1>1 DEF Enqueue, Stage, Terminal
<1>2. ASSUME NEW f \in Offer, NEW a \in BOOLEAN, Dispatch(r, f, a) PROVE TypeOK'
  <2>1. f \in [phase : Phase, exception : BOOLEAN, risk : BOOLEAN]
    BY ConstantsAssumption
  <2>2. PlanOf(live, live, managed, main, f.phase) \in SUBSET Change
    BY PlanType
  <2>3. input' \in [Run -> Input]
    BY <1>2, <2>1, <2>2 DEF Dispatch, Input
  <2>4. stage' \in [Run -> Stage] /\ waiting' \in Run \cup {NoRun}
    BY <1>1, <1>2 DEF Dispatch
  <2>5. QED
    BY <1>2, <2>3, <2>4 DEF Dispatch
<1>3. ASSUME NEW all \in BOOLEAN, Rerun(r, all) PROVE TypeOK'
  <2>1. stage' \in [Run -> Stage] /\ waiting' \in Run \cup {NoRun}
    BY <1>1, <1>3 DEF Rerun
  <2>2. attempt' \in [Run -> Attempt]
    BY <1>3, ConstantsAssumption DEF Rerun, Attempt
  <2>3. entry' \in [Run -> {"gate", "plan-identity", "approval"}]
    BY <1>3 DEF Rerun
  <2>4. QED
    BY <1>3, <2>1, <2>2, <2>3 DEF Rerun
<1>4. ASSUME Start(r) PROVE TypeOK'
  <2>1. Fresh(now) \in Runner
    BY FreshType
  <2>2. entry[r] \in Stage
    BY DEF Stage, Active, Running, PlanJob
  <2>3. QED
    BY <1>4, <2>1, <2>2, StageType DEF Start
<1>5. QED
  BY <1>2, <1>3, <1>4

LEMMA ConcludeType ==
  ASSUME TypeOK, NEW r \in Run, NEW t \in Terminal,
         NEW e \in {"gate", "plan-identity", "approval"}, Conclude(r, t, e)
  PROVE  /\ stage' \in [Run -> Stage]
         /\ entry' \in [Run -> {"gate", "plan-identity", "approval"}]
         /\ holder' \in Run \cup {NoRun} /\ waiting' \in Run \cup {NoRun}
  BY DEF TypeOK, Conclude, Stage, Terminal

LEMMA FreshPlanType ==
  ASSUME TypeOK, NEW r \in Run PROVE FreshPlan(r) \in SUBSET Change
<1>1. runner.obs \in State /\ live \in State /\ managed \in SUBSET Obj /\ Sought(r) \in Sha
  BY DEF TypeOK, Runner, Sought, Input
<1>2. QED
  BY <1>1, PlanType DEF FreshPlan

LEMMA GateAndPlanType ==
  ASSUME TypeOK, NEW r \in Run, GateAndPlan(r) \/ Approve(r) \/ Reject(r)
  PROVE  TypeOK'
<1> USE DEF TypeOK, world, queue, log, Same, Step
<1>1. /\ "plan-identity" \in Stage /\ "plan-observe" \in Stage /\ "plan-create" \in Stage
      /\ "approval" \in Stage /\ "apply-identity" \in Stage
  BY DEF Stage, Active, Running, PlanJob
<1>2. Fresh(now) \in Runner
  BY FreshType
<1>3. CASE PassGate(r)
  <2>1. gate' \in [Run -> Gate]
    BY <1>3 DEF PassGate, Gate, ReviewState
  <2>2. stage' \in [Run -> Stage]
    BY <1>1, <1>3, StageType DEF PassGate
  <2>3. QED
    BY <1>2, <1>3, <2>1, <2>2 DEF PassGate
<1>4. CASE PlanIdentity(r)
  BY <1>1, <1>4 DEF PlanIdentity
<1>5. CASE PlanObserve(r)
  <2>1. runner' \in Runner
    BY <1>5 DEF PlanObserve, Runner
  <2>2. QED
    BY <1>1, <1>5, <2>1 DEF PlanObserve
<1>6. CASE PlanCreate(r)
  <2>1. FreshPlan(r) \in SUBSET Change
    BY FreshPlanType
  <2> DEFINE e == [signed |-> TRUE, plan |-> FreshPlan(r), obs |-> runner.obs,
                   created |-> now, expires |-> now + EvidenceLife]
  <2>2. e \in Evidence
    BY <2>1, ConstantsAssumption DEF Evidence, Runner
  <2>3. evidence' = [evidence EXCEPT ![r][attempt[r]] = e]
    BY <1>6 DEF PlanCreate
  <2> HIDE DEF e
  <2>4. evidence' \in [Run -> [Attempt -> Evidence]]
    BY <2>2, <2>3
  <2>5. QED
    BY <1>1, <1>6, <2>4 DEF PlanCreate
<1>7. CASE Approve(r)
  <2>1. approved' \subseteq Permit
    BY <1>7 DEF Approve, Permit
  <2>2. QED
    BY <1>1, <1>2, <1>7, <2>1 DEF Approve
<1>8. CASE Reject(r)
  BY <1>8, ConcludeType DEF Reject, Terminal
<1>9. QED
  BY <1>3, <1>4, <1>5, <1>6, <1>7, <1>8 DEF GateAndPlan

LEMMA RecomputeType ==
  ASSUME TypeOK, NEW r \in Run, Recompute(r) PROVE TypeOK'
<1> USE DEF TypeOK, world, queue, log, Same, Kept, Step
<1>1. Attempted \subseteq Stage
  BY DEF Stage, Active, Running
<1>2. /\ "verify" \in Attempted /\ "reobserve" \in Attempted /\ "replan" \in Attempted
      /\ "compare" \in Attempted /\ "expiry" \in Attempted /\ "source" \in Attempted
      /\ "apply" \in Attempted
  BY DEF Attempted
<1>3. ThisPermit(r) \in Permit
  BY DEF ThisPermit, Permit
<1>4. CASE ApplyIdentity(r)
  BY <1>1, <1>2, <1>4 DEF ApplyIdentity
<1>5. CASE VerifyEvidence(r)
  BY <1>1, <1>2, <1>5 DEF VerifyEvidence
<1>6. CASE Reobserve(r)
  <2>1. runner' \in Runner
    BY <1>6 DEF Reobserve, Runner
  <2>2. QED
    BY <1>1, <1>2, <1>6, <2>1 DEF Reobserve
<1>7. CASE Replan(r)
  <2>1. FreshPlan(r) \in SUBSET Change
    BY FreshPlanType
  <2>2. runner' \in Runner
    BY <1>7, <2>1 DEF Replan, Runner
  <2>3. consumed' \subseteq Permit
    BY <1>3, <1>7 DEF Replan
  <2>4. QED
    BY <1>1, <1>2, <1>7, <2>2, <2>3 DEF Replan
<1>8. CASE CompareEvidence(r)
  BY <1>1, <1>2, <1>8 DEF CompareEvidence
<1>9. CASE CheckExpiry(r)
  BY <1>1, <1>2, <1>9 DEF CheckExpiry
<1>10. CASE CheckSource(r)
  <2>1. runner' \in Runner
    BY <1>10 DEF CheckSource, Runner
  <2>2. QED
    BY <1>1, <1>2, <1>3, <1>10, <2>1 DEF CheckSource
<1>11. QED
  BY <1>4, <1>5, <1>6, <1>7, <1>8, <1>9, <1>10 DEF Recompute

LEMMA MutateType ==
  ASSUME TypeOK, NEW r \in Run, Mutate(r) PROVE TypeOK'
<1> USE DEF TypeOK, world, queue, runs, log, Same, Kept, Step
<1>1. "provider" \in Stage /\ "live" \in Stage /\ "receipt" \in Stage /\ "diagnose" \in Stage
  BY DEF Stage, Active, Running, Attempted
<1>2. ThisPermit(r) \in Permit
  BY DEF ThisPermit, Permit
<1>3. runner.plan \in SUBSET Change /\ runner.done \in SUBSET Change
  BY DEF Runner
<1>4. ASSUME NEW c \in runner.plan, ApplyChange(r, c) PROVE TypeOK'
  <2>1. c \in Change
    BY <1>3
  <2>2. live' \in State
    BY <1>4, <2>1 DEF ApplyChange, State, Change
  <2>3. runner' \in Runner
    BY <1>4, <2>1 DEF ApplyChange, Runner
  <2>4. wrote' \subseteq Permit
    BY <1>2, <1>4 DEF ApplyChange
  <2>5. QED
    BY <1>4, <2>2, <2>3, <2>4 DEF ApplyChange
<1>5. CASE FinishApply(r)
  <2>1. managed' \subseteq Obj
    BY <1>3, <1>5, RecordedType DEF FinishApply
  <2>2. QED
    BY <1>1, <1>5, <2>1 DEF FinishApply
<1>6. CASE CheckProvider(r)
  <2>1. runner' \in Runner
    BY <1>6 DEF CheckProvider, Runner
  <2>2. QED
    BY <1>1, <1>6, <2>1 DEF CheckProvider
<1>7. CASE CheckLive(r)
  BY <1>1, <1>7 DEF CheckLive
<1>8. CASE WriteReceipt(r)
  <2>1. runner' \in Runner
    BY <1>8 DEF WriteReceipt, Runner, Outcome
  <2>2. QED
    BY <1>1, <1>8, <2>1 DEF WriteReceipt
<1>9. CASE Diagnose(r)
  <2> DEFINE ok == runner.outcome = "success"
             d == [permit |-> ThisPermit(r),
                   status |-> IF ok THEN "succeeded" ELSE "failed",
                   unverified |-> runner.started /\ ~ok]
             D == [permit : Permit, status : {"succeeded", "failed"}, unverified : BOOLEAN]
  <2>1. d \in D
    <3>1. (runner.started /\ ~ok) \in BOOLEAN
      OBVIOUS
    <3>2. (IF ok THEN "succeeded" ELSE "failed") \in {"succeeded", "failed"}
      OBVIOUS
    <3>3. QED
      BY <1>2, <3>1, <3>2
  <2>2. diag' = diag \/ diag' = diag \cup {d}
    BY <1>9 DEF Diagnose
  <2>3. diag' \subseteq D
    BY <2>1, <2>2
  <2>4. PICK t \in Terminal, e \in {"gate", "approval"} : Conclude(r, t, e)
    BY <1>9 DEF Diagnose, Terminal
  <2>5. /\ stage' \in [Run -> Stage]
        /\ entry' \in [Run -> {"gate", "plan-identity", "approval"}]
        /\ holder' \in Run \cup {NoRun} /\ waiting' \in Run \cup {NoRun}
    BY <2>4, ConcludeType
  <2>6. QED
    BY <1>9, <2>3, <2>5 DEF Diagnose
<1>10. QED
  BY <1>4, <1>5, <1>6, <1>7, <1>8, <1>9 DEF Mutate

LEMMA StopType ==
  ASSUME TypeOK, NEW r \in Run, NEW outcome \in Outcome, Stop(r, outcome)
  PROVE  /\ stage' \in [Run -> Stage] /\ runner' \in Runner
         /\ entry' \in [Run -> {"gate", "plan-identity", "approval"}]
         /\ holder' \in Run \cup {NoRun} /\ waiting' \in Run \cup {NoRun}
<1>1. CASE stage[r] = "gate" \/ stage[r] \in PlanJob \/ stage[r] = "approval"
  <2>1. UNCHANGED runner
        /\ \E e \in {"gate", "plan-identity", "approval"} : Conclude(r, "failed", e)
    BY <1>1 DEF Stop
  <2>2. QED
    BY <2>1, ConcludeType DEF Terminal, TypeOK
<1>2. CASE ~(stage[r] = "gate" \/ stage[r] \in PlanJob \/ stage[r] = "approval")
  <2>1. "diagnose" \in Stage
    BY DEF Stage, Active, Running
  <2>2. PICK o \in Outcome : runner' = [runner EXCEPT !.outcome = o]
    BY <1>2 DEF Stop, Outcome
  <2>4. runner' \in Runner
    BY <2>2 DEF TypeOK, Runner
  <2>3. QED
    BY <1>2, <2>1, <2>4 DEF Stop, TypeOK, queue
<1>3. QED
  BY <1>1, <1>2

LEMMA FailureType ==
  ASSUME TypeOK, NEW r \in Run, Fail(r) \/ Interrupt(r) \/ LoseRunner(r)
  PROVE  TypeOK'
<1> USE DEF TypeOK, log, Disturb
<1>1. Recorded(managed, runner.done) \in SUBSET Obj
  BY RecordedType DEF Runner
<1>2. CASE Fail(r)
  <2>1. Stop(r, "failure") /\ managed' \subseteq Obj
    BY <1>1, <1>2 DEF Fail, StopApply
  <2>2. "failure" \in Outcome
    BY DEF Outcome
  <2>3. QED
    BY <1>2, <2>1, <2>2, StopType DEF Fail
<1>3. CASE Interrupt(r)
  <2>1. Stop(r, "cancelled") /\ managed' \subseteq Obj
    BY <1>1, <1>3 DEF Interrupt, StopApply
  <2>2. "cancelled" \in Outcome
    BY DEF Outcome
  <2>3. QED
    BY <1>3, <2>1, <2>2, StopType DEF Interrupt
<1>4. CASE LoseRunner(r)
  <2>1. managed' \subseteq Obj
    BY <1>1, <1>4 DEF LoseRunner, StopApply
  <2>2. \E e \in {"gate", "plan-identity", "approval"} : Conclude(r, "failed", e)
    BY <1>4 DEF LoseRunner
  <2>3. QED
    BY <1>4, <2>1, <2>2, ConcludeType DEF LoseRunner, Terminal
<1>5. QED
  BY <1>2, <1>3, <1>4

\* Every variable of the workflow keeps its type.
THEOREM TypeCorrect == Spec => []TypeOK
<1>1. Init => TypeOK
  BY InitType
<1>2. TypeOK /\ [Next]_vars => TypeOK'
  <2>1. TypeOK /\ UNCHANGED vars => TypeOK'
    BY DEF TypeOK, vars, world, queue, runs, log
  <2>2. ASSUME TypeOK, Next PROVE TypeOK'
    <3>1. CASE World
      BY <2>2, <3>1, WorldType
    <3>2. ASSUME NEW r \in Run,
                 \/ \E f \in Offer, a \in BOOLEAN : Dispatch(r, f, a)
                 \/ \E all \in BOOLEAN : Rerun(r, all)
                 \/ Approve(r) \/ Reject(r) \/ Progress(r)
                 \/ Interrupt(r) \/ LoseRunner(r)
          PROVE  TypeOK'
      BY <2>2, <3>2, QueueType, GateAndPlanType, RecomputeType, MutateType, FailureType
         DEF Progress
    <3>3. QED
      BY <2>2, <3>1, <3>2 DEF Next
  <2>3. QED
    BY <2>1, <2>2
<1>3. QED
  BY <1>1, <1>2, PTL DEF Spec

-----------------------------------------------------------------------------
(* One run at a time.                                                      *)

\* What a job of run r, or whatever stops it, does to the stages and the queue.
JobAction(r) ==
  \/ GateAndPlan(r) \/ Approve(r) \/ Reject(r) \/ Recompute(r) \/ Mutate(r)
  \/ Fail(r) \/ Interrupt(r) \/ LoseRunner(r)

QueueAction(r) ==
  \/ \E f \in Offer, a \in BOOLEAN : Dispatch(r, f, a)
  \/ \E all \in BOOLEAN : Rerun(r, all)

Moves(r, t) == /\ stage' = [stage EXCEPT ![r] = t]
               /\ holder' = holder \/ (holder' = NoRun /\ t \in Terminal)

LEMMA NextSplit ==
  Next <=> World \/ \E r \in Run : QueueAction(r) \/ Start(r) \/ JobAction(r)
  BY DEF Next, Progress, QueueAction, JobAction

LEMMA StageSets ==
  /\ Active \subseteq Stage /\ Running \subseteq Active /\ Attempted \subseteq Running
  /\ PlanJob \subseteq Running /\ Terminal \subseteq Stage /\ Active \cap Terminal = {}
  /\ "queued" \notin Active /\ "idle" \notin Active
  /\ Recomputed \subseteq Attempted /\ Compared \subseteq Recomputed /\ Mutating \subseteq Compared
  BY DEF Active, Running, Attempted, PlanJob, Terminal, Stage, Recomputed, Compared, Mutating

LEMMA JobShape ==
  ASSUME TypeOK, NEW r \in Run, JobAction(r)
  PROVE  /\ stage[r] \in Active /\ UNCHANGED <<input, attempt>>
         /\ \E t \in Stage : Moves(r, t)
<1> USE DEF TypeOK, world, queue, runs, log, Same, Kept, Step, Conclude, Moves,
            Active, Running, PlanJob, Attempted, Terminal, Stage
<1>1. CASE GateAndPlan(r)
  BY <1>1 DEF GateAndPlan, PassGate, PlanIdentity, PlanObserve, PlanCreate
<1>2. CASE Approve(r) \/ Reject(r)
  BY <1>2 DEF Approve, Reject
<1>3. CASE Recompute(r)
  BY <1>3 DEF Recompute, ApplyIdentity, VerifyEvidence, Reobserve, Replan,
              CompareEvidence, CheckExpiry, CheckSource
<1>4. ASSUME NEW c \in runner.plan, ApplyChange(r, c)
      PROVE  stage[r] \in Active /\ UNCHANGED <<input, attempt, stage, holder>>
  BY <1>4 DEF ApplyChange
<1>5. CASE FinishApply(r) \/ CheckProvider(r) \/ CheckLive(r) \/ WriteReceipt(r)
  BY <1>5 DEF FinishApply, CheckProvider, CheckLive, WriteReceipt
<1>6. CASE Diagnose(r)
  BY <1>6 DEF Diagnose
<1>7. CASE Mutate(r)
  <2>1. stage = [stage EXCEPT ![r] = stage[r]] /\ stage[r] \in Stage
    OBVIOUS
  <2>2. QED
    BY <1>4, <1>5, <1>6, <1>7, <2>1 DEF Mutate
<1>8. CASE Fail(r) \/ Interrupt(r)
  BY <1>8 DEF Fail, Interrupt, Stop
<1>9. CASE LoseRunner(r)
  BY <1>9 DEF LoseRunner
<1>10. QED
  BY <1>1, <1>2, <1>3, <1>7, <1>8, <1>9 DEF JobAction

\* Queueing a run leaves every active run alone.
LEMMA QueueShape ==
  ASSUME TypeOK, NEW r \in Run, QueueAction(r)
  PROVE  /\ UNCHANGED <<holder, runner, gate, evidence, world, log>>
         /\ \A q \in Run : stage'[q] \in Active =>
              stage[q] = stage'[q] /\ input'[q] = input[q] /\ attempt'[q] = attempt[q]
<1> USE DEF TypeOK, Enqueue
<1>1. ASSUME NEW f \in Offer, NEW a \in BOOLEAN, Dispatch(r, f, a)
      PROVE  /\ UNCHANGED <<holder, runner, gate, evidence, world, log>>
             /\ \A q \in Run : stage'[q] \in Active =>
                  stage[q] = stage'[q] /\ input'[q] = input[q] /\ attempt'[q] = attempt[q]
  BY <1>1, StageSets DEF Dispatch, Terminal
<1>2. ASSUME NEW all \in BOOLEAN, Rerun(r, all)
      PROVE  /\ UNCHANGED <<holder, runner, gate, evidence, world, log>>
             /\ \A q \in Run : stage'[q] \in Active =>
                  stage[q] = stage'[q] /\ input'[q] = input[q] /\ attempt'[q] = attempt[q]
  BY <1>2, StageSets DEF Rerun, Terminal
<1>3. QED
  BY <1>1, <1>2 DEF QueueAction

LEMMA OneRunStep == TypeOK /\ OneRunAtATime /\ [Next]_vars => OneRunAtATime'
<1> SUFFICES ASSUME TypeOK, OneRunAtATime, [Next]_vars PROVE OneRunAtATime'
  OBVIOUS
<1>1. CASE UNCHANGED vars \/ World
  <2>1. UNCHANGED <<stage, holder>>
    BY <1>1 DEF vars, queue, runs, World, AdvanceMain, RotateContract, Qualify, Tick,
                OutsideEdit, WithdrawReview, Outside
  <2>2. QED
    BY <2>1 DEF OneRunAtATime
<1>2. ASSUME NEW r \in Run, QueueAction(r) PROVE OneRunAtATime'
  BY <1>2, QueueShape DEF OneRunAtATime
<1>3. ASSUME NEW r \in Run, Start(r) PROVE OneRunAtATime'
  BY <1>3, ConstantsAssumption DEF Start, OneRunAtATime, TypeOK
<1>4. ASSUME NEW r \in Run, JobAction(r) PROVE OneRunAtATime'
  <2>1. stage[r] \in Active /\ r = holder
    BY <1>4, JobShape DEF OneRunAtATime
  <2>2. PICK t \in Stage : Moves(r, t)
    BY <1>4, JobShape
  <2>3. ASSUME NEW q \in Run, stage'[q] \in Active PROVE q = holder'
    BY <2>1, <2>2, <2>3, StageSets DEF OneRunAtATime, TypeOK, Moves
  <2>4. QED
    BY <2>3 DEF OneRunAtATime
<1>5. QED
  BY <1>1, <1>2, <1>3, <1>4, NextSplit

\* While a job of r acts, no other run is active.
LEMMA OthersRest ==
  ASSUME TypeOK, OneRunAtATime, NEW r \in Run, JobAction(r), NEW q \in Run, q # r
  PROVE  stage'[q] = stage[q] /\ stage[q] \notin Active
<1>1. stage[r] \in Active /\ r = holder
  BY JobShape DEF OneRunAtATime
<1>2. PICK t \in Stage : Moves(r, t)
  BY JobShape
<1>3. QED
  BY <1>1, <1>2 DEF Moves, TypeOK, OneRunAtATime

-----------------------------------------------------------------------------
(* A running job stays within its timeout.                                 *)

LEMMA TimeoutStep ==
  TypeOK /\ OneRunAtATime /\ WithinTimeout /\ [Next]_vars => WithinTimeout'
<1> SUFFICES ASSUME TypeOK, OneRunAtATime, WithinTimeout, [Next]_vars PROVE WithinTimeout'
  OBVIOUS
<1>1. CASE UNCHANGED vars \/ AdvanceMain \/ RotateContract \/ Qualify
           \/ (\E o \in Obj, v \in Val : OutsideEdit(o, v)) \/ (\E s \in Sha : WithdrawReview(s))
  BY <1>1 DEF WithinTimeout, vars, world, runs, AdvanceMain, RotateContract, Qualify,
              OutsideEdit, WithdrawReview, Outside
<1>2. CASE Tick
  <2> SUFFICES ASSUME NEW q \in Run, stage'[q] \in Running
               PROVE  runner'.since <= now' /\ now' <= runner'.since + JobTimeout
    BY DEF WithinTimeout
  <2>1. /\ stage' = stage /\ runner' = runner /\ now' = now + 1
        /\ now \in Nat /\ runner.since \in Nat /\ JobTimeout \in Nat
    BY <1>2, ConstantsAssumption DEF Tick, Outside, runs, TypeOK, Runner
  <2>2. q = holder /\ ~Overdue
    BY <1>2, <2>1, StageSets DEF Tick, OneRunAtATime
  <2>3. ~(now >= runner.since + JobTimeout)
    BY <2>1, <2>2 DEF Overdue
  <2>4. runner.since <= now
    BY <2>1 DEF WithinTimeout
  <2>5. QED
    BY <2>1, <2>3, <2>4
<1>3. ASSUME NEW r \in Run, QueueAction(r) PROVE WithinTimeout'
  BY <1>3, QueueShape, StageSets DEF WithinTimeout, world
<1>4. ASSUME NEW r \in Run, Start(r) PROVE WithinTimeout'
  <2>1. /\ runner'.since = now /\ now' = now /\ now \in Nat /\ JobTimeout \in Nat
    BY <1>4, ConstantsAssumption DEF Start, Fresh, world, TypeOK
  <2>2. QED
    BY <2>1 DEF WithinTimeout
<1>5. ASSUME NEW r \in Run, JobAction(r) PROVE WithinTimeout'
  <2> SUFFICES ASSUME NEW q \in Run, stage'[q] \in Running
               PROVE  runner'.since <= now' /\ now' <= runner'.since + JobTimeout
    BY DEF WithinTimeout
  <2>1. q = r
    BY <1>5, OthersRest, StageSets
  <2>2. now' = now /\ now \in Nat /\ JobTimeout \in Nat
    <3>1. now' = now
      BY <1>5 DEF JobAction, GateAndPlan, Recompute, Mutate, PassGate, PlanIdentity,
         PlanObserve, PlanCreate, Approve, Reject, ApplyIdentity, VerifyEvidence,
         Reobserve, Replan, CompareEvidence, CheckExpiry, CheckSource, ApplyChange,
         FinishApply, CheckProvider, CheckLive, WriteReceipt, Diagnose, Fail, Interrupt,
         LoseRunner, Same, world
    <3>2. QED
      BY <3>1, ConstantsAssumption DEF TypeOK
  <2>3. CASE runner'.since = now
    BY <2>2, <2>3
  <2>4. CASE runner'.since = runner.since /\ stage[r] \in Running
    BY <2>1, <2>2, <2>4 DEF WithinTimeout
  <2>5. CASE PassGate(r) \/ Approve(r)
    BY <2>3, <2>5 DEF PassGate, Approve, Fresh
  <2>6. CASE Reject(r) \/ LoseRunner(r) \/ Diagnose(r)
    BY <2>1, <2>6, StageSets DEF Reject, LoseRunner, Diagnose, Conclude, TypeOK, Terminal, Running,
       PlanJob, Attempted
  <2>7. CASE PlanIdentity(r) \/ PlanObserve(r) \/ PlanCreate(r) \/ Recompute(r)
    BY <2>4, <2>7 DEF PlanIdentity, PlanObserve, PlanCreate, Recompute, ApplyIdentity,
       VerifyEvidence, Reobserve, Replan, CompareEvidence, CheckExpiry, CheckSource,
       Step, Running, PlanJob, Attempted, TypeOK, Runner
  <2>8. CASE (\E c \in runner.plan : ApplyChange(r, c)) \/ FinishApply(r) \/ CheckProvider(r)
             \/ CheckLive(r) \/ WriteReceipt(r)
    BY <2>4, <2>8 DEF ApplyChange, FinishApply, CheckProvider, CheckLive, WriteReceipt,
       Step, Running, Attempted, TypeOK, Runner
  <2>9. CASE Fail(r) \/ Interrupt(r)
    <3>1. PICK o : Stop(r, o)
      BY <2>9 DEF Fail, Interrupt
    <3>2. stage[r] \in Active
      BY <1>5, JobShape
    <3>3. CASE stage[r] = "gate" \/ stage[r] \in PlanJob \/ stage[r] = "approval"
      BY <2>1, <3>1, <3>3 DEF Stop, Conclude, TypeOK, Running, PlanJob, Attempted
    <3>4. CASE ~(stage[r] = "gate" \/ stage[r] \in PlanJob \/ stage[r] = "approval")
      BY <2>4, <3>1, <3>2, <3>4 DEF Stop, Active, TypeOK, Runner
    <3>5. QED
      BY <3>3, <3>4
  <2>10. QED
    BY <1>5, <2>5, <2>6, <2>7, <2>8, <2>9 DEF JobAction, GateAndPlan, Mutate
<1>6. QED
  BY <1>1, <1>2, <1>3, <1>4, <1>5, NextSplit DEF World

-----------------------------------------------------------------------------
(* What is applied is what was reviewed.                                   *)

\* Nothing a run knows of its evidence is lost while these stay the same.
LEMMA EvidenceFrame ==
  ASSUME NEW q \in Run, KnowsEvidence(q), stage'[q] = stage[q], attempt'[q] = attempt[q],
         input'[q] = input[q], gate'[q] = gate[q], evidence'[q] = evidence[q],
         runner'.since = runner.since, runner'.plan = runner.plan, consumed \subseteq consumed'
  PROVE  KnowsEvidence(q)'
  BY DEF KnowsEvidence, Reviewed, ThisPermit, Eligible, Removals, Writes

\* A step inside the apply job that keeps plan and evidence hands them over.
LEMMA HandOver ==
  ASSUME TypeOK, NEW r \in Run, KnowsEvidence(r), stage[r] \in Recomputed,
         stage'[r] \in Compared, Eligible(input[r], runner.plan),
         attempt' = attempt, input' = input, gate' = gate, evidence' = evidence,
         runner'.since = runner.since, runner'.plan = runner.plan, consumed' = consumed
  PROVE  KnowsEvidence(r)'
  BY StageSets DEF KnowsEvidence, Reviewed, ThisPermit, Eligible, Removals, Writes

LEMMA EvidenceStep ==
  TypeOK /\ OneRunAtATime /\ WithinTimeout /\ EvidenceBound /\ [Next]_vars => EvidenceBound'
<1> SUFFICES ASSUME TypeOK, OneRunAtATime, WithinTimeout, EvidenceBound, [Next]_vars,
                    NEW q \in Run
             PROVE  KnowsEvidence(q)'
  BY DEF EvidenceBound
<1>0. KnowsEvidence(q)
  BY DEF EvidenceBound
<1> DEFINE Away == stage'[q] \notin Attempted
<1>1. Away => KnowsEvidence(q)'
  BY StageSets DEF KnowsEvidence
<1>2. CASE UNCHANGED vars \/ World
  <2>1. UNCHANGED <<runs, runner, log>>
    BY <1>2 DEF vars, World, AdvanceMain, RotateContract, Qualify, Tick,
                OutsideEdit, WithdrawReview, Outside
  <2>2. QED
    BY <1>0, <2>1, EvidenceFrame DEF runs, log
<1>3. ASSUME NEW r \in Run, QueueAction(r) PROVE KnowsEvidence(q)'
  <2>1. CASE stage'[q] \in Active
    BY <1>0, <1>3, <2>1, QueueShape, EvidenceFrame DEF log
  <2>2. CASE stage'[q] \notin Active
    BY <1>1, <2>2, StageSets
  <2>3. QED
    BY <2>1, <2>2
<1>4. ASSUME NEW r \in Run, Start(r) PROVE KnowsEvidence(q)'
  <2>1. Away
    BY <1>4, ConstantsAssumption, StageSets DEF Start, OneRunAtATime, TypeOK, Attempted
  <2>2. QED
    BY <1>1, <2>1
<1>5. ASSUME NEW r \in Run, JobAction(r) PROVE KnowsEvidence(q)'
  <2>1. CASE q # r
    BY <1>1, <1>5, <2>1, OthersRest, StageSets
  <2>2. CASE q = r
    <3> USE DEF Step
    <3>1. CASE GateAndPlan(r) \/ Approve(r)
      BY <1>1, <2>2, <3>1 DEF GateAndPlan, PassGate, PlanIdentity, PlanObserve, PlanCreate,
         Approve, Attempted, TypeOK
    <3>2. CASE Reject(r) \/ LoseRunner(r) \/ Diagnose(r)
      BY <1>1, <2>2, <3>2 DEF Reject, LoseRunner, Diagnose, Conclude, TypeOK, Attempted
    <3>3. CASE Fail(r) \/ Interrupt(r)
      <4>1. PICK o : Stop(r, o)
        BY <3>3 DEF Fail, Interrupt
      <4>2. QED
        BY <1>1, <2>2, <4>1 DEF Stop, Conclude, TypeOK, Attempted
    <3>4. CASE ApplyIdentity(r)
      <4>1. /\ Reviewed(r).signed /\ now < Reviewed(r).expires
            /\ runner.since <= now /\ runner.since \in Nat /\ now \in Nat
            /\ Reviewed(r).expires \in Nat
        BY <3>4, StageSets DEF ApplyIdentity, Holds, Current, WithinTimeout, TypeOK, Runner,
           Reviewed, Evidence, Running
      <4>2. stage'[r] = "verify" /\ UNCHANGED <<attempt, evidence, runner>>
        BY <3>4 DEF ApplyIdentity, Same, Kept, TypeOK
      <4>3. runner.since < Reviewed(r).expires
        BY <4>1
      <4>4. QED
        BY <2>2, <4>1, <4>2, <4>3 DEF KnowsEvidence, Reviewed, Recomputed, Compared
    <3>5. CASE VerifyEvidence(r) \/ Reobserve(r)
      <4>1. /\ stage[r] \in Attempted /\ stage'[r] \in {"reobserve", "replan"}
            /\ UNCHANGED <<attempt, evidence>> /\ runner'.since = runner.since
        BY <3>5 DEF VerifyEvidence, Reobserve, Same, Kept, TypeOK, Attempted, Runner
      <4>2. QED
        BY <1>0, <2>2, <4>1 DEF KnowsEvidence, Reviewed, Recomputed, Compared
    <3>6. CASE Replan(r)
      <4>1. /\ stage[r] = "replan" /\ stage'[r] = "compare"
            /\ UNCHANGED <<attempt, evidence, gate>>
            /\ runner'.since = runner.since /\ runner'.plan = FreshPlan(r)
            /\ gate[r].mode = "founder" => ThisPermit(r) \in consumed'
        BY <3>6 DEF Replan, Same, Kept, TypeOK, Runner
      <4>2. FreshPlan(r) = Reviewed(r).plan /\ (gate[r].mode = "founder" => now <= FounderExpiry)
        BY <3>6 DEF Replan, Holds, SamePlan, ReceiptUnexpired
      <4>3. runner.since <= now /\ runner.since \in Nat /\ now \in Nat /\ FounderExpiry \in Nat
        BY <4>1, ConstantsAssumption DEF WithinTimeout, TypeOK, Runner, Running, Attempted
      <4>4. gate[r].mode = "founder" => runner.since <= FounderExpiry
        BY <4>2, <4>3
      <4>5. QED
        BY <1>0, <2>2, <4>1, <4>2, <4>4
           DEF KnowsEvidence, Reviewed, ThisPermit, Attempted, Recomputed, Compared
    <3>7. CASE CompareEvidence(r) \/ CheckExpiry(r) \/ CheckSource(r)
      <4>1. /\ stage[r] \in Recomputed /\ stage'[r] \in Compared
            /\ UNCHANGED <<attempt, input, gate, evidence, consumed>>
            /\ runner'.since = runner.since /\ runner'.plan = runner.plan
        BY <3>7 DEF CompareEvidence, CheckExpiry, CheckSource, Same, Kept, log, TypeOK,
           Recomputed, Compared, Runner
      <4>2. Eligible(input[r], runner.plan)
        BY <1>0, <2>2, <3>7 DEF CompareEvidence, CheckExpiry, CheckSource, Holds,
           KnowsEvidence, Compared
      <4>3. QED
        BY <1>0, <2>2, <4>1, <4>2, HandOver
    <3>8. CASE (\E c \in runner.plan : ApplyChange(r, c)) \/ FinishApply(r) \/ CheckProvider(r)
               \/ CheckLive(r)
      <4>1. /\ stage[r] \in Compared /\ stage'[r] \in Compared
            /\ UNCHANGED <<attempt, input, gate, evidence, consumed>>
            /\ runner'.since = runner.since /\ runner'.plan = runner.plan
        BY <3>8 DEF ApplyChange, FinishApply, CheckProvider, CheckLive, Same, Kept, log, runs,
           TypeOK, Compared, Runner
      <4>2. QED
        BY <1>0, <2>2, <4>1, HandOver, StageSets DEF KnowsEvidence
    <3>9. CASE WriteReceipt(r)
      BY <1>1, <2>2, <3>9 DEF WriteReceipt, TypeOK, Attempted
    <3>10. QED
      BY <1>5, <3>1, <3>2, <3>3, <3>4, <3>5, <3>6, <3>7, <3>8, <3>9
         DEF JobAction, Recompute, Mutate
  <2>3. QED
    BY <2>1, <2>2
<1>6. QED
  BY <1>2, <1>3, <1>4, <1>5, NextSplit

-----------------------------------------------------------------------------
(* Diagnostics and the histories.                                          *)

\* The permit of another run or attempt is another permit.
LEMMA PermitsDiffer ==
  ASSUME NEW q, NEW a, NEW r, NEW b, q # r \/ a # b PROVE <<q, a>> # <<r, b>>
  OBVIOUS

LEMMA LogFrame ==
  ASSUME NEW q \in Run, Logged(q), UNCHANGED <<diag, wrote>>, attempt'[q] = attempt[q],
         stage'[q] \in Unfinished => stage[q] \in Unfinished,
         stage'[q] \in Unfinished /\ ThisPermit(q) \in wrote =>
           stage'[q] \in Mutating \cup {"diagnose"} /\ runner'.started,
         stage'[q] \in Mutating => runner'.started
  PROVE  Logged(q)'
  BY DEF Logged, ThisPermit

LEMMA LogStep ==
  TypeOK /\ OneRunAtATime /\ LogBound /\ DiagnosticHonest /\ [Next]_vars
    => LogBound' /\ DiagnosticHonest'
<1> SUFFICES ASSUME TypeOK, OneRunAtATime, LogBound, DiagnosticHonest, [Next]_vars
             PROVE  LogBound' /\ DiagnosticHonest'
  OBVIOUS
<1>0. \A q \in Run : Logged(q)
  BY DEF LogBound
<1>1. ASSUME UNCHANGED <<diag, wrote>> PROVE DiagnosticHonest'
  BY <1>1 DEF DiagnosticHonest
<1>2. CASE UNCHANGED vars \/ World
  <2>1. UNCHANGED <<runs, runner, log>>
    BY <1>2 DEF vars, World, AdvanceMain, RotateContract, Qualify, Tick,
                OutsideEdit, WithdrawReview, Outside
  <2>2. QED
    BY <1>0, <1>1, <2>1 DEF LogBound, Logged, ThisPermit, runs, log
<1>3. ASSUME NEW r \in Run, QueueAction(r) PROVE LogBound' /\ DiagnosticHonest'
  <2>1. UNCHANGED <<runner, diag, wrote>>
    BY <1>3, QueueShape DEF log
  <2>2. ASSUME NEW q \in Run PROVE Logged(q)'
    <3>1. CASE \E f \in Offer, a \in BOOLEAN : Dispatch(r, f, a)
      <4>1. /\ UNCHANGED attempt /\ stage'[q] \in {stage[q], "queued", "superseded"}
            /\ stage'[q] = "queued" => stage[q] \in {"idle", "queued"}
        BY <3>1 DEF Dispatch, Enqueue, TypeOK
      <4>2. QED
        BY <1>0, <2>1, <4>1, LogFrame
           DEF Logged, Unfinished, Mutating, Active, Running, PlanJob, Attempted
    <3>2. CASE q = r /\ \E all \in BOOLEAN : Rerun(r, all)
      <4>1. /\ attempt'[q] = attempt[q] + 1 /\ stage'[q] = "queued"
            /\ attempt[q] \in Nat /\ attempt'[q] \in Attempt /\ Attempt \subseteq Nat
        BY <3>2, ConstantsAssumption DEF Rerun, Enqueue, TypeOK, Attempt
      <4>2. attempt'[q] > attempt[q] /\ \A a \in Attempt : a > attempt'[q] => a > attempt[q]
        BY <4>1
      <4>3. QED
        BY <1>0, <2>1, <4>1, <4>2
           DEF Logged, ThisPermit, Unfinished, Mutating, Active, Running, PlanJob, Attempted
    <3>3. CASE q # r /\ \E all \in BOOLEAN : Rerun(r, all)
      <4>1. attempt'[q] = attempt[q] /\ stage'[q] \in {stage[q], "superseded"}
        BY <3>3 DEF Rerun, Enqueue, TypeOK
      <4>2. QED
        BY <1>0, <2>1, <4>1, LogFrame
           DEF Logged, Unfinished, Mutating, Active, Running, PlanJob, Attempted
    <3>4. QED
      BY <1>3, <3>1, <3>2, <3>3 DEF QueueAction
  <2>3. QED
    BY <1>1, <2>1, <2>2 DEF LogBound
<1>4. ASSUME NEW r \in Run, Start(r) PROVE LogBound' /\ DiagnosticHonest'
  <2>1. /\ UNCHANGED <<diag, wrote, attempt>> /\ stage[r] = "queued"
        /\ stage' = [stage EXCEPT ![r] = entry[r]]
        /\ entry[r] \in {"gate", "plan-identity", "approval"}
        /\ \A q \in Run : stage[q] \notin Active
    BY <1>4, ConstantsAssumption DEF Start, log, TypeOK, OneRunAtATime
  <2>2. ASSUME NEW q \in Run PROVE Logged(q)'
    <3>1. /\ stage'[q] \in Unfinished => stage[q] \in Unfinished
          /\ stage[q] \notin Mutating \cup {"diagnose"} /\ stage'[q] \notin Mutating
      BY <2>1 DEF Unfinished, Mutating, Active, Running, PlanJob, Attempted, TypeOK
    <3>2. QED
      BY <1>0, <2>1, <3>1, LogFrame DEF Logged
  <2>3. QED
    BY <1>1, <2>1, <2>2 DEF LogBound
<1>5. ASSUME NEW r \in Run, JobAction(r) PROVE LogBound' /\ DiagnosticHonest'
  <2>1. stage[r] \in Active /\ UNCHANGED attempt
    BY <1>5, JobShape
  <2>2. ASSUME NEW q \in Run, q # r PROVE stage'[q] = stage[q] /\ stage[q] \notin Active
    BY <1>5, <2>2, OthersRest
  <2>3. ASSUME NEW q \in Run, q # r, UNCHANGED <<diag, wrote>> PROVE Logged(q)'
    <3>1. stage[q] \notin Mutating \cup {"diagnose"}
      BY <2>2, <2>3, StageSets DEF Running, Active
    <3>2. QED
      BY <1>0, <2>1, <2>2, <2>3, <3>1, LogFrame DEF Logged
  <2>4. ASSUME UNCHANGED <<diag, wrote>>,
               stage'[r] \in Active =>
                 /\ stage[r] \in Mutating \cup {"diagnose"} =>
                      /\ stage'[r] \in Mutating \cup {"diagnose"}
                      /\ runner'.started = runner.started
                 /\ stage'[r] \in Mutating => runner'.started,
               stage'[r] \in Active \cup Terminal
        PROVE  LogBound' /\ DiagnosticHonest'
    <3>1. stage'[r] \in Unfinished => stage'[r] \in Active
      BY <2>4 DEF Unfinished, Terminal, Active, Running, PlanJob, Attempted
    <3>2. Logged(r)'
      BY <1>0, <2>1, <2>4, <3>1, LogFrame, StageSets DEF Logged, Unfinished
    <3>3. QED
      BY <1>1, <2>3, <2>4, <3>2 DEF LogBound
  <2> USE DEF Step
  <2>5. CASE GateAndPlan(r) \/ Approve(r)
    BY <2>4, <2>5 DEF GateAndPlan, PassGate, PlanIdentity, PlanObserve, PlanCreate, Approve,
       log, TypeOK, Mutating, Active, Running, PlanJob, Attempted
  <2>6. CASE Reject(r) \/ LoseRunner(r)
    BY <2>4, <2>6 DEF Reject, LoseRunner, Conclude, log, TypeOK, Terminal, Active, Running,
       PlanJob, Attempted
  <2>7. CASE Fail(r) \/ Interrupt(r)
    <3>1. (\E o : Stop(r, o)) /\ UNCHANGED <<diag, wrote>>
      BY <2>7 DEF Fail, Interrupt, log
    <3>2. CASE stage[r] = "gate" \/ stage[r] \in PlanJob \/ stage[r] = "approval"
      BY <2>4, <3>1, <3>2 DEF Stop, Conclude, TypeOK, Terminal, Active, Running, PlanJob, Attempted
    <3>3. CASE ~(stage[r] = "gate" \/ stage[r] \in PlanJob \/ stage[r] = "approval")
      <4>1. stage'[r] = "diagnose" /\ runner'.started = runner.started
        BY <3>1, <3>3 DEF Stop, TypeOK, Runner
      <4>2. QED
        BY <2>4, <3>1, <4>1 DEF Active, Running, Mutating
    <3>4. QED
      BY <3>2, <3>3
  <2>8. CASE Recompute(r)
    <3>1. UNCHANGED <<diag, wrote>> /\ stage[r] \notin Mutating \cup {"diagnose"}
      BY <2>8 DEF Recompute, ApplyIdentity, VerifyEvidence, Reobserve, Replan, CompareEvidence,
         CheckExpiry, CheckSource, log, Mutating
    <3>2. /\ stage'[r] \in Active
          /\ stage'[r] \in Mutating => runner'.started
      BY <2>8 DEF Recompute, ApplyIdentity, VerifyEvidence, Reobserve, Replan, CompareEvidence,
         CheckExpiry, CheckSource, TypeOK, Runner, Active, Running, Attempted, Mutating
    <3>3. QED
      BY <2>4, <3>1, <3>2
  <2>9. ASSUME NEW c \in runner.plan, ApplyChange(r, c) PROVE LogBound' /\ DiagnosticHonest'
    <3>1. /\ stage[r] = "apply" /\ UNCHANGED <<stage, attempt, diag>>
          /\ wrote' = wrote \/ wrote' = wrote \cup {ThisPermit(r)}
          /\ runner'.started = runner.started
      BY <2>9 DEF ApplyChange, runs, TypeOK, Runner
    <3>2. /\ runner'.started /\ stage[r] \in Unfinished
          /\ \A d \in diag : d.permit # ThisPermit(r)
      BY <1>0, <3>1 DEF Logged, Mutating, Unfinished, Active, Running, Attempted
    <3>3. DiagnosticHonest'
      BY <3>1, <3>2 DEF DiagnosticHonest
    <3>4. Logged(r)'
      <4>1. ASSUME NEW a \in Attempt, a > attempt[r]
            PROVE  <<r, a>> \notin wrote' /\ \A d \in diag' : d.permit # <<r, a>>
        <5>1. a # attempt[r]
          BY <4>1, ConstantsAssumption DEF TypeOK, Attempt
        <5>2. <<r, a>> # ThisPermit(r)
          BY <5>1 DEF ThisPermit
        <5>3. QED
          BY <1>0, <3>1, <4>1, <5>2 DEF Logged
      <4>2. stage'[r] \in Mutating /\ ThisPermit(r)' = ThisPermit(r)
        BY <3>1 DEF Mutating, ThisPermit
      <4>3. QED
        BY <3>1, <3>2, <4>1, <4>2 DEF Logged
    <3>5. ASSUME NEW q \in Run, q # r PROVE Logged(q)'
      <4>1. stage[q] \notin Active /\ stage[q] \notin Mutating
        BY <2>2, <3>5, StageSets
      <4>2. \A a \in Attempt : <<q, a>> # ThisPermit(r)
        BY <3>5 DEF ThisPermit
      <4>3. QED
        BY <1>0, <3>1, <4>1, <4>2, <3>5 DEF Logged, ThisPermit, TypeOK
    <3>6. QED
      BY <3>3, <3>4, <3>5 DEF LogBound
  <2>10. CASE FinishApply(r) \/ CheckProvider(r) \/ CheckLive(r) \/ WriteReceipt(r)
    <3>1. /\ UNCHANGED <<diag, wrote>> /\ stage[r] \in Mutating
          /\ stage'[r] \in Mutating \cup {"diagnose"} /\ stage'[r] \in Active
          /\ runner'.started = runner.started
      BY <2>10 DEF FinishApply, CheckProvider, CheckLive, WriteReceipt, log, TypeOK, Runner,
         Mutating, Active, Running, Attempted
    <3>2. runner.started
      BY <1>0, <3>1 DEF Logged
    <3>3. QED
      BY <2>4, <3>1, <3>2
  <2>11. CASE Diagnose(r)
    <3> DEFINE ok == runner.outcome = "success"
               d0 == [permit |-> ThisPermit(r),
                      status |-> IF ok THEN "succeeded" ELSE "failed",
                      unverified |-> runner.started /\ ~ok]
    <3>1. /\ UNCHANGED <<attempt, wrote>> /\ stage[r] = "diagnose" /\ stage'[r] \in Terminal
          /\ diag' \subseteq diag \cup {d0}
      BY <2>1, <2>11 DEF Diagnose, Conclude, TypeOK, Terminal
    <3>2. ThisPermit(r) \in wrote => runner.started
      BY <1>0, <3>1 DEF Logged, Unfinished, Active, Running
    <3>3. DiagnosticHonest'
      <4>1. ASSUME NEW d \in diag', d.permit \in wrote'
            PROVE  d.status = "succeeded" \/ d.unverified
        <5>1. CASE d \in diag
          BY <3>1, <4>1, <5>1 DEF DiagnosticHonest
        <5>2. CASE d = d0 /\ ok
          BY <5>2
        <5>3. CASE d = d0 /\ ~ok
          <6>1. d0.permit = ThisPermit(r)
            OBVIOUS
          <6>2. runner.started
            BY <3>1, <3>2, <4>1, <5>3, <6>1
          <6>3. d0.unverified = (runner.started /\ ~ok)
            OBVIOUS
          <6>4. QED
            BY <5>3, <6>2, <6>3
        <5>4. QED
          BY <3>1, <4>1, <5>1, <5>2, <5>3
      <4>2. QED
        BY <4>1 DEF DiagnosticHonest
    <3>4. ASSUME NEW q \in Run PROVE Logged(q)'
      <4>1. ASSUME NEW a \in Attempt, a > attempt[q] PROVE <<q, a>> # ThisPermit(r)
        BY <4>1, ConstantsAssumption DEF ThisPermit, TypeOK, Attempt
      <4>2. CASE q = r
        <5>1. stage'[q] \notin Unfinished /\ stage'[q] \notin Mutating
          BY <3>1, <4>2 DEF Terminal, Unfinished, Active, Running, PlanJob, Attempted, Mutating
        <5>2. QED
          BY <1>0, <3>1, <4>1, <5>1 DEF Logged
      <4>3. CASE q # r
        <5>1. stage'[q] = stage[q] /\ stage[q] \notin Mutating \cup {"diagnose"}
          BY <2>2, <4>3, StageSets DEF Active, Running
        <5>2. ThisPermit(q) # ThisPermit(r) /\ ThisPermit(q)' = ThisPermit(q)
          BY <3>1, <4>3 DEF ThisPermit
        <5>3. QED
          BY <1>0, <3>1, <4>1, <5>1, <5>2 DEF Logged
      <4>4. QED
        BY <4>2, <4>3
    <3>5. QED
      BY <3>3, <3>4 DEF LogBound
  <2>12. QED
    BY <1>5, <2>5, <2>6, <2>7, <2>8, <2>9, <2>10, <2>11 DEF JobAction, Mutate
<1>6. QED
  BY <1>2, <1>3, <1>4, <1>5, NextSplit

-----------------------------------------------------------------------------
(* The invariant, and the properties that follow from it.                  *)

LEMMA InitInductive == Init => Inductive
<1> SUFFICES ASSUME Init PROVE Inductive
  OBVIOUS
<1>1. ASSUME NEW r \in Run
      PROVE  /\ stage[r] = "idle" /\ stage[r] \notin Active /\ stage[r] \notin Running
             /\ stage[r] \notin Attempted /\ stage[r] \notin Mutating
  BY DEF Init, Active, Running, PlanJob, Attempted, Mutating
<1>2. OneRunAtATime /\ WithinTimeout /\ EvidenceBound
  BY <1>1, StageSets DEF OneRunAtATime, WithinTimeout, EvidenceBound, KnowsEvidence
<1>3. diag = {} /\ wrote = {}
  BY DEF Init
<1>4. LogBound /\ DiagnosticHonest
  BY <1>1, <1>3 DEF LogBound, Logged, DiagnosticHonest
<1>5. QED
  BY <1>2, <1>4 DEF Inductive

\* One run is active, it is within its timeout, it knows what it compared, and
\* the histories only name attempts that got that far.
THEOREM InductiveInvariant == Spec => []Inductive
<1>1. TypeOK /\ Inductive /\ [Next]_vars => Inductive'
  BY OneRunStep, TimeoutStep, EvidenceStep, LogStep DEF Inductive
<1>2. QED
  BY InitInductive, TypeCorrect, <1>1, PTL DEF Spec

\* The concurrency group is exclusive for any number of runs and attempts.
THEOREM SingleRun == Spec => []OneRunAtATime
<1>1. Inductive => OneRunAtATime
  BY DEF Inductive
<1>2. QED
  BY InductiveInvariant, <1>1, PTL

\* No interleaving makes the published diagnostics hide a mutation.
THEOREM HonestDiagnostics == Spec => []DiagnosticHonest
<1>1. Inductive => DiagnosticHonest
  BY DEF Inductive
<1>2. QED
  BY InductiveInvariant, <1>1, PTL

\* The step by which the run that holds the group writes change c.
WritesChange(c) ==
  /\ holder \in Run /\ c \in runner.plan /\ ApplyChange(holder, c)
  /\ c.before # c.after /\ live' = [live EXCEPT ![c.obj] = c.after]

\* The organization changes by hand, which an event records, or by one change
\* of the plan the holder of the group applies.
LEMMA LiveStep ==
  ASSUME TypeOK, OneRunAtATime, [Next]_vars, live' # live
  PROVE  events' < events \/ \E c : WritesChange(c)
<1>1. CASE World
  BY <1>1 DEF World, AdvanceMain, RotateContract, Qualify, Tick, OutsideEdit, WithdrawReview,
     Disturb, TypeOK
<1>2. ASSUME NEW r \in Run, QueueAction(r) PROVE FALSE
  BY <1>2 DEF QueueAction, Dispatch, Rerun, world
<1>3. ASSUME NEW r \in Run, Start(r) PROVE FALSE
  BY <1>3 DEF Start, world
<1>4. ASSUME NEW r \in Run, JobAction(r) PROVE \E c : WritesChange(c)
  <2> USE DEF world, Same
  <2>1. CASE GateAndPlan(r) \/ Approve(r) \/ Reject(r) \/ Recompute(r)
    BY <2>1 DEF GateAndPlan, PassGate, PlanIdentity, PlanObserve, PlanCreate, Approve, Reject,
       Recompute, ApplyIdentity, VerifyEvidence, Reobserve, Replan, CompareEvidence,
       CheckExpiry, CheckSource
  <2>2. CASE Fail(r) \/ Interrupt(r) \/ LoseRunner(r)
    BY <2>2 DEF Fail, Interrupt, LoseRunner
  <2>3. CASE FinishApply(r) \/ CheckProvider(r) \/ CheckLive(r) \/ WriteReceipt(r) \/ Diagnose(r)
    BY <2>3 DEF FinishApply, CheckProvider, CheckLive, WriteReceipt, Diagnose
  <2>4. ASSUME NEW c \in runner.plan, ApplyChange(r, c) PROVE WritesChange(c)
    <3>1. stage[r] = "apply" /\ stage[r] \in Active
      BY <2>4 DEF ApplyChange, Active, Running, Attempted
    <3>2. r = holder
      BY <3>1 DEF OneRunAtATime
    <3>3. c.before # c.after /\ live' = [live EXCEPT ![c.obj] = c.after]
      BY <2>4 DEF ApplyChange
    <3>4. QED
      BY <2>4, <3>2, <3>3 DEF WritesChange
  <2>5. QED
    BY <1>4, <2>1, <2>2, <2>3, <2>4 DEF JobAction, Mutate
<1>5. QED
  BY <1>1, <1>2, <1>3, <1>4, NextSplit DEF vars, world

\* What the invariant says of the change being written.
LEMMA WriteShape ==
  ASSUME TypeOK, Inductive, NEW c, WritesChange(c)
  PROVE  /\ holder \in Run /\ events' = events /\ now' = now
         /\ c \in Change /\ c \in Undone
         /\ runner.plan = Reviewed(holder).plan /\ Reviewed(holder).signed
         /\ runner.since < Reviewed(holder).expires /\ now <= runner.since + JobTimeout
         /\ Eligible(input[holder], runner.plan)
         /\ gate[holder].mode = "founder" =>
              ThisPermit(holder) \in consumed /\ runner.since <= FounderExpiry
         /\ \A o \in Obj : live'[o] # live[o] => o = c.obj /\ live'[o] = c.after
<1>1. holder \in Run /\ stage[holder] = "apply" /\ c \in Undone /\ c \in runner.plan
  BY DEF WritesChange, ApplyChange
<1>2. KnowsEvidence(holder) /\ WithinTimeout
  BY <1>1 DEF Inductive, EvidenceBound
<1>3. c \in Change
  BY <1>1 DEF TypeOK, Runner
<1>4. \A o \in Obj : live'[o] # live[o] => o = c.obj /\ live'[o] = c.after
  BY <1>3 DEF WritesChange, TypeOK, State, Change
<1>5. UNCHANGED <<events, now>>
  BY DEF WritesChange, ApplyChange
<1>6. now <= runner.since + JobTimeout
  BY <1>1, <1>2 DEF WithinTimeout, Running, Attempted
<1>7. QED
  BY <1>1, <1>2, <1>3, <1>4, <1>5, <1>6 DEF KnowsEvidence, Attempted, Recomputed, Compared

\* The run writes what its own attempt's signed evidence says.
THEOREM OnlyReviewedWrites == Spec => ReviewedWritesOnly
<1> DEFINE Reviewed1 == \A o \in Obj : live'[o] # live[o] =>
       \/ events' < events
       \/ /\ holder \in Run /\ Reviewed(holder).signed
          /\ \E c \in Undone \cap Reviewed(holder).plan : c.obj = o /\ c.after = live'[o]
<1>1. TypeOK /\ Inductive /\ [Next]_vars => Reviewed1
  <2> SUFFICES ASSUME TypeOK, Inductive, [Next]_vars, NEW o \in Obj, live'[o] # live[o],
                      ~(events' < events)
               PROVE  /\ holder \in Run /\ Reviewed(holder).signed
                      /\ \E c \in Undone \cap Reviewed(holder).plan : c.obj = o /\ c.after = live'[o]
    OBVIOUS
  <2>1. OneRunAtATime
    BY DEF Inductive
  <2>2. PICK c : WritesChange(c)
    BY <2>1, LiveStep
  <2>3. QED
    BY <2>2, WriteShape DEF WritesChange
<1>2. QED
  BY InductiveInvariant, TypeCorrect, <1>1, PTL DEF Spec, ReviewedWritesOnly

\* Classification binds what is applied, not only what was first planned.
THEOREM OnlyAuthorisedWrites == Spec => AuthorisedWritesOnly
<1> DEFINE Authorised1 == \A o \in Obj : live'[o] # live[o] =>
       \/ events' < events
       \/ \E c \in Writes(Reviewed(holder).plan) :
            /\ c.obj = o /\ c.after = live'[o] /\ c \notin Prohibited
            /\ input[holder].phase # "adopt"
            /\ c \in Expanding => input[holder].risk
            /\ c \in Removals(Reviewed(holder).plan) =>
                 input[holder].analysis = Reviewed(holder).plan
<1>1. TypeOK /\ Inductive /\ [Next]_vars => Authorised1
  <2> SUFFICES ASSUME TypeOK, Inductive, [Next]_vars, NEW o \in Obj, live'[o] # live[o],
                      ~(events' < events)
               PROVE  \E c \in Writes(Reviewed(holder).plan) :
                        /\ c.obj = o /\ c.after = live'[o] /\ c \notin Prohibited
                        /\ input[holder].phase # "adopt"
                        /\ c \in Expanding => input[holder].risk
                        /\ c \in Removals(Reviewed(holder).plan) =>
                             input[holder].analysis = Reviewed(holder).plan
    OBVIOUS
  <2>1. OneRunAtATime
    BY DEF Inductive
  <2>2. PICK c : WritesChange(c)
    BY <2>1, LiveStep
  <2>3. c \in Writes(Reviewed(holder).plan) /\ c.obj = o /\ c.after = live'[o]
    BY <2>2, WriteShape DEF WritesChange, Writes
  <2>4. Eligible(input[holder], Reviewed(holder).plan)
    BY <2>2, WriteShape
  <2>5. QED
    BY <2>3, <2>4 DEF Eligible
<1>2. QED
  BY InductiveInvariant, TypeCorrect, <1>1, PTL DEF Spec, AuthorisedWritesOnly

\* Evidence is stale by at most one job's timeout when it is written from.
THEOREM WritesInTime == Spec => LateWriteBound
<1> DEFINE Late1 == live' # live /\ events' = events =>
                      now < Reviewed(holder).expires + JobTimeout
<1>1. TypeOK /\ Inductive /\ [Next]_vars => Late1
  <2> SUFFICES ASSUME TypeOK, Inductive, [Next]_vars, live' # live, events' = events
               PROVE  now < Reviewed(holder).expires + JobTimeout
    OBVIOUS
  <2>1. OneRunAtATime /\ events \in Nat
    BY DEF Inductive, TypeOK
  <2>2. PICK c : WritesChange(c)
    BY <2>1, LiveStep
  <2>3. /\ runner.since < Reviewed(holder).expires /\ now <= runner.since + JobTimeout
        /\ runner.since \in Nat /\ now \in Nat /\ JobTimeout \in Nat
        /\ Reviewed(holder).expires \in Nat
    BY <2>2, WriteShape, ConstantsAssumption DEF TypeOK, Runner, Reviewed, Evidence
  <2>4. QED
    BY <2>3
<1>2. QED
  BY InductiveInvariant, TypeCorrect, <1>1, PTL DEF Spec, LateWriteBound

\* The founder exception has an end, however often its run is repeated.
THEOREM FounderWritesBounded == Spec => FounderWriteBound
<1> DEFINE Founder1 == live' # live /\ events' = events /\ gate[holder].mode = "founder" =>
                         ThisPermit(holder) \in consumed /\ now <= FounderExpiry + JobTimeout
<1>1. TypeOK /\ Inductive /\ [Next]_vars => Founder1
  <2> SUFFICES ASSUME TypeOK, Inductive, [Next]_vars, live' # live, events' = events,
                      gate[holder].mode = "founder"
               PROVE  ThisPermit(holder) \in consumed /\ now <= FounderExpiry + JobTimeout
    OBVIOUS
  <2>1. OneRunAtATime /\ events \in Nat
    BY DEF Inductive, TypeOK
  <2>2. PICK c : WritesChange(c)
    BY <2>1, LiveStep
  <2>3. /\ ThisPermit(holder) \in consumed /\ runner.since <= FounderExpiry
        /\ now <= runner.since + JobTimeout /\ runner.since \in Nat /\ now \in Nat
        /\ JobTimeout \in Nat /\ FounderExpiry \in Nat
    BY <2>2, WriteShape, ConstantsAssumption DEF TypeOK, Runner
  <2>4. QED
    BY <2>3
<1>2. QED
  BY InductiveInvariant, TypeCorrect, <1>1, PTL DEF Spec, FounderWriteBound

==============================================================================
