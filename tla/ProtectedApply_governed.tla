----------------------- MODULE ProtectedApply_governed -----------------------
(***************************************************************************)
(* The protected-apply workflow implements GovernedChange, for every set   *)
(* of runs and objects, every catalog and every bound.                     *)
(***************************************************************************)
EXTENDS ProtectedApply_proofs

-----------------------------------------------------------------------------
(* What holds of permits beyond the invariant of ProtectedApply.           *)

\* An attempt that has no evidence yet, and one that has not opened its window.
Unsigned == {"idle", "queued", "gate"} \cup PlanJob
Closed == {"apply-identity", "verify", "reobserve", "replan", "compare", "expiry", "source"}

\* Evidence, approval and window come in this order, each in its attempt.
Ordered(r) ==
  /\ \A a \in Attempt : a > attempt[r] =>
       ~evidence[r][a].signed /\ <<r, a>> \notin approved /\ <<r, a>> \notin opened
  /\ stage[r] = "idle" => \A a \in Attempt : ~evidence[r][a].signed
  /\ stage[r] \in Unsigned => ~Reviewed(r).signed
  /\ stage[r] \in Unsigned \cup {"approval"} => ThisPermit(r) \notin approved
  /\ stage[r] \in Unsigned \cup {"approval"} \cup Closed => ThisPermit(r) \notin opened
  /\ stage[r] \in Closed \cup Attempted => ThisPermit(r) \in approved
OrderBound == \A r \in Run : Ordered(r)

\* The waiting run is queued.
QueueBound == waiting \in Run => stage[waiting] = "queued"

GovernedInv == TypeOK /\ Inductive /\ OrderBound /\ QueueBound

LEMMA StagesApart ==
  /\ Unsigned \cap (Closed \cup Attempted) = {} /\ "approval" \notin Unsigned \cup Closed \cup Attempted
  /\ Closed \subseteq Active /\ "apply" \in Active /\ "apply" \notin Closed /\ "apply" \in Attempted
  /\ {"diagnose"} \cup Terminal \subseteq Stage \ (Unsigned \cup {"approval"} \cup Closed \cup Attempted)
BY DEF Unsigned, Closed, Attempted, Active, Running, PlanJob, Terminal, Stage

\* A job step other than the three that sign, approve and open.
LEMMA Passing ==
  ASSUME TypeOK, NEW r \in Run, JobAction(r), ~PlanCreate(r), ~Approve(r), ~CheckSource(r)
  PROVE  /\ UNCHANGED <<evidence, approved, opened, input, attempt, main, waiting>>
         /\ \/ stage'[r] = stage[r]
            \/ stage'[r] \in {"diagnose"} \cup Terminal
            \/ stage[r] \in Unsigned \ {"idle"} /\ stage'[r] \in Unsigned \ {"idle"}
            \/ stage[r] \in Closed /\ stage'[r] \in Closed
            \/ stage[r] \in Attempted \ Closed /\ stage'[r] \in Attempted \ (Closed \cup {"apply"})
         /\ stage'[r] = "apply" => stage[r] = "apply"
<1> USE DEF TypeOK, world, queue, runs, log, Same, Kept, Step, Conclude
<1>1. CASE PassGate(r) \/ PlanIdentity(r) \/ PlanObserve(r)
  BY <1>1 DEF PassGate, PlanIdentity, PlanObserve, Unsigned, PlanJob
<1>2. CASE Reject(r)
  BY <1>2 DEF Reject, Terminal
<1>3. CASE ApplyIdentity(r) \/ VerifyEvidence(r) \/ Reobserve(r) \/ Replan(r)
           \/ CompareEvidence(r) \/ CheckExpiry(r)
  BY <1>3 DEF ApplyIdentity, VerifyEvidence, Reobserve, Replan, CompareEvidence, CheckExpiry, Closed
<1>4. ASSUME NEW c \in runner.plan, ApplyChange(r, c)
      PROVE  UNCHANGED <<evidence, approved, opened, input, attempt, main, waiting, stage>>
  BY <1>4 DEF ApplyChange
<1>5. CASE FinishApply(r) \/ CheckProvider(r) \/ CheckLive(r)
  BY <1>5 DEF FinishApply, CheckProvider, CheckLive, Closed, Attempted
<1>6. CASE WriteReceipt(r) \/ Diagnose(r)
  BY <1>6 DEF WriteReceipt, Diagnose, Terminal
<1>7. CASE Fail(r) \/ Interrupt(r)
  BY <1>7 DEF Fail, Interrupt, Stop, Terminal
<1>8. CASE LoseRunner(r)
  BY <1>8 DEF LoseRunner, Terminal
<1>9. QED
  BY <1>1, <1>2, <1>3, <1>4, <1>5, <1>6, <1>7, <1>8 DEF JobAction, GateAndPlan, Recompute, Mutate

LEMMA InitOrder == Init => OrderBound /\ QueueBound
<1> SUFFICES ASSUME Init PROVE OrderBound /\ QueueBound
  OBVIOUS
<1>1. \A r \in Run, a \in Attempt : ~evidence[r][a].signed
  BY DEF Init, NoEvidence
<1>2. \A r \in Run : attempt[r] \in Attempt /\ stage[r] = "idle"
  <2>1. 1 \in Attempt
    BY ConstantsAssumption DEF Attempt
  <2>2. QED
    BY <2>1 DEF Init
<1>3. approved = {} /\ opened = {} /\ waiting \notin Run
  BY ConstantsAssumption DEF Init
<1>4. QED
  BY <1>1, <1>2, <1>3 DEF OrderBound, Ordered, QueueBound, Reviewed, Closed, Attempted

\* A step that leaves these alone.
LEMMA OrderFrame ==
  ASSUME OrderBound, QueueBound, UNCHANGED <<evidence, approved, opened, attempt, stage, waiting>>
  PROVE  OrderBound' /\ QueueBound'
<1>1. ASSUME NEW q \in Run PROVE Ordered(q)'
  BY DEF OrderBound, Ordered, Reviewed, ThisPermit
<1>2. QED
  BY <1>1 DEF OrderBound, QueueBound

\* What queueing a run does to the stages.
LEMMA EnqueueShape ==
  ASSUME TypeOK, NEW r \in Run, Enqueue(r, "queued")
  PROVE  /\ stage'[r] = "queued" /\ waiting' = r
         /\ \A q \in Run \ {r} : stage'[q] = stage[q] \/ stage'[q] = "superseded"
         /\ \A q \in Run \ {r} : stage'[q] # stage[q] => q = waiting
  BY DEF TypeOK, Enqueue

LEMMA OrderQueue ==
  ASSUME TypeOK, OrderBound, NEW r \in Run, QueueAction(r)
  PROVE  OrderBound' /\ QueueBound'
<1>1. /\ Enqueue(r, "queued") /\ UNCHANGED <<evidence, approved, opened>>
      /\ \/ stage[r] = "idle" /\ attempt' = attempt
         \/ attempt[r] < MaxAttempt /\ attempt' = [attempt EXCEPT ![r] = @ + 1]
  BY DEF QueueAction, Dispatch, Rerun, log
<1>2. /\ stage'[r] = "queued" /\ waiting' = r
      /\ \A q \in Run \ {r} : stage'[q] = stage[q] \/ stage'[q] = "superseded"
  BY <1>1, EnqueueShape
<1>3. QueueBound'
  BY <1>2 DEF QueueBound
<1>4. ASSUME NEW q \in Run, q # r PROVE Ordered(q)'
  <2>1. attempt'[q] = attempt[q] /\ (stage'[q] = stage[q] \/ stage'[q] = "superseded")
    BY <1>1, <1>2, <1>4 DEF TypeOK
  <2>2. QED
    BY <1>1, <2>1 DEF OrderBound, Ordered, Reviewed, ThisPermit, Unsigned, PlanJob, Closed, Attempted
<1>5. Ordered(r)'
  <2>1. /\ attempt'[r] \in Attempt /\ attempt[r] \in Attempt
        /\ \/ attempt'[r] = attempt[r] /\ stage[r] = "idle"
           \/ attempt'[r] = attempt[r] + 1
    BY <1>1, ConstantsAssumption DEF TypeOK, Attempt
  <2>2. ASSUME NEW a \in Attempt, a >= attempt'[r]
        PROVE  ~evidence[r][a].signed /\ <<r, a>> \notin approved /\ <<r, a>> \notin opened
    <3>1. CASE a > attempt[r]
      BY <3>1 DEF OrderBound, Ordered
    <3>2. CASE a = attempt[r]
      <4>1. stage[r] = "idle"
        BY <2>1, <2>2, <3>2 DEF Attempt
      <4>2. stage[r] \in Unsigned
        BY <4>1 DEF Unsigned
      <4>3. QED
        BY <3>2, <4>2 DEF OrderBound, Ordered, Reviewed, ThisPermit
    <3>3. a \in Nat /\ attempt[r] \in Nat /\ attempt'[r] \in Nat
      BY <2>1 DEF Attempt
    <3>4. QED
      BY <2>1, <2>2, <3>1, <3>2, <3>3
  <2>3. \A a \in Attempt : a > attempt'[r] => a >= attempt'[r]
    BY <2>1 DEF Attempt
  <2>4. attempt'[r] >= attempt'[r]
    BY <2>1 DEF Attempt
  <2>5. QED
    BY <1>1, <1>2, <2>1, <2>2, <2>3, <2>4 DEF Ordered, Reviewed, ThisPermit, Closed, Attempted
<1>6. QED
  BY <1>3, <1>4, <1>5 DEF OrderBound

LEMMA OrderStart ==
  ASSUME TypeOK, OrderBound, NEW r \in Run, Start(r)
  PROVE  OrderBound' /\ QueueBound'
<1>1. /\ UNCHANGED <<evidence, approved, opened, attempt>> /\ waiting' = NoRun
      /\ stage[r] = "queued" /\ stage' = [stage EXCEPT ![r] = entry[r]]
      /\ entry[r] \in {"gate", "plan-identity", "approval"}
  BY DEF Start, log, TypeOK
<1>2. QueueBound'
  BY <1>1, ConstantsAssumption DEF QueueBound
<1>3. ASSUME NEW q \in Run, q # r PROVE Ordered(q)'
  BY <1>1, <1>3 DEF OrderBound, Ordered, Reviewed, ThisPermit, TypeOK
<1>4. Ordered(r)'
  <2>1. stage'[r] \in {"gate", "plan-identity", "approval"} /\ stage[r] \in Unsigned
    BY <1>1 DEF TypeOK, Unsigned
  <2>2. stage'[r] # "idle" /\ stage'[r] \notin Closed \cup Attempted
    BY <2>1 DEF Closed, Attempted
  <2>3. QED
    BY <1>1, <2>1, <2>2 DEF OrderBound, Ordered, Reviewed, ThisPermit, Unsigned, PlanJob
<1>5. QED
  BY <1>2, <1>3, <1>4 DEF OrderBound

LEMMA OrderJob ==
  ASSUME TypeOK, OneRunAtATime, OrderBound, QueueBound, NEW r \in Run, JobAction(r)
  PROVE  OrderBound' /\ QueueBound'
<1> USE DEF world, queue, runs, log, Same, Kept, Step
<1>1. stage[r] \in Active /\ UNCHANGED <<input, attempt>>
  BY JobShape
<1>2. \A q \in Run \ {r} : stage'[q] = stage[q]
  BY OthersRest
<1>3. waiting' = waiting
  BY Passing DEF PlanCreate, Approve, CheckSource
<1>4. QueueBound'
  BY <1>1, <1>2, <1>3, StageSets DEF QueueBound
<1>5. ASSUME NEW q \in Run, q # r PROVE Ordered(q)'
  <2>1. \A a \in Attempt : <<q, a>> # ThisPermit(r)
    BY <1>5 DEF ThisPermit
  <2>2. /\ evidence'[q] = evidence[q]
        /\ \A a \in Attempt : /\ <<q, a>> \in approved' <=> <<q, a>> \in approved
                              /\ <<q, a>> \in opened' <=> <<q, a>> \in opened
    BY <1>5, <2>1, Passing DEF PlanCreate, Approve, CheckSource, TypeOK, ThisPermit
  <2>3. attempt[q] \in Attempt /\ attempt'[q] = attempt[q] /\ stage'[q] = stage[q]
    BY <1>1, <1>2, <1>5 DEF TypeOK
  <2>4. QED
    BY <2>2, <2>3 DEF OrderBound, Ordered, Reviewed, ThisPermit
<1>6. Ordered(r)'
  <2> DEFINE Later(a) == ~evidence[r][a].signed /\ <<r, a>> \notin approved /\ <<r, a>> \notin opened
  <2>0. attempt[r] \in Attempt /\ Ordered(r) /\ \A a \in Attempt : a > attempt[r] => Later(a)
    BY DEF TypeOK, OrderBound, Ordered
  <2>1. ASSUME NEW a \in Attempt, a > attempt[r] PROVE a # attempt[r] /\ <<r, a>> # ThisPermit(r)
    BY <2>0, <2>1 DEF Attempt, ThisPermit
  <2>2. CASE PlanCreate(r)
    <3>1. stage[r] \in Unsigned /\ stage'[r] = "approval" /\ UNCHANGED <<approved, opened>>
      BY <2>2 DEF PlanCreate, TypeOK, Unsigned, PlanJob
    <3>2. \A a \in Attempt : a > attempt[r] => evidence'[r][a] = evidence[r][a]
      BY <2>0, <2>1, <2>2 DEF PlanCreate, TypeOK
    <3>3. stage'[r] \notin Unsigned \cup Closed \cup Attempted /\ stage'[r] # "idle"
      BY <3>1, StagesApart
    <3>4. QED
      BY <1>1, <2>0, <3>1, <3>2, <3>3 DEF Ordered, ThisPermit
  <2>3. CASE Approve(r)
    <3>1. /\ stage[r] = "approval" /\ stage'[r] = "apply-identity" /\ UNCHANGED <<evidence, opened>>
          /\ approved' = approved \cup {ThisPermit(r)}
      BY <2>3 DEF Approve, TypeOK, ThisPermit
    <3>2. stage'[r] \in Closed /\ stage'[r] \notin Unsigned \cup {"approval", "idle"}
      BY <3>1, StagesApart DEF Closed
    <3>3. QED
      BY <1>1, <2>0, <2>1, <3>1, <3>2 DEF Ordered, ThisPermit
  <2>4. CASE CheckSource(r)
    <3>1. /\ stage[r] = "source" /\ stage'[r] = "apply" /\ UNCHANGED <<evidence, approved>>
          /\ opened' = opened \cup {ThisPermit(r)}
      BY <2>4 DEF CheckSource, TypeOK
    <3>2. /\ stage[r] \in Closed /\ stage'[r] \in Attempted
          /\ stage'[r] \notin Unsigned \cup Closed \cup {"approval", "idle"}
      BY <3>1, StagesApart DEF Closed
    <3>3. QED
      BY <1>1, <2>0, <2>1, <3>1, <3>2 DEF Ordered, ThisPermit
  <2>5. CASE ~PlanCreate(r) /\ ~Approve(r) /\ ~CheckSource(r)
    <3>1. /\ UNCHANGED <<evidence, approved, opened>>
          /\ \/ stage'[r] = stage[r]
             \/ stage'[r] \in {"diagnose"} \cup Terminal
             \/ stage[r] \in Unsigned \ {"idle"} /\ stage'[r] \in Unsigned \ {"idle"}
             \/ stage[r] \in Closed /\ stage'[r] \in Closed
             \/ stage[r] \in Attempted \ Closed /\ stage'[r] \in Attempted \ (Closed \cup {"apply"})
      BY <2>5, Passing
    <3>2. UNCHANGED <<Reviewed(r), ThisPermit(r)>>
      BY <1>1, <3>1 DEF Reviewed, ThisPermit
    <3>3. "idle" \in Unsigned
      BY DEF Unsigned
    <3>4. QED
      BY <1>1, <2>0, <3>1, <3>2, <3>3, StagesApart DEF Ordered
  <2>6. QED
    BY <2>2, <2>3, <2>4, <2>5
<1>7. QED
  BY <1>4, <1>5, <1>6 DEF OrderBound

LEMMA OrderStep == GovernedInv /\ [Next]_vars => OrderBound' /\ QueueBound'
<1> SUFFICES ASSUME GovernedInv, [Next]_vars PROVE OrderBound' /\ QueueBound'
  OBVIOUS
<1>1. TypeOK /\ OneRunAtATime /\ OrderBound /\ QueueBound
  BY DEF GovernedInv, Inductive
<1>2. CASE World \/ UNCHANGED vars
  <2>1. UNCHANGED <<evidence, approved, opened, attempt, stage, waiting>>
    BY <1>2 DEF vars, queue, runs, log, World, AdvanceMain, RotateContract, Qualify, Tick,
       OutsideEdit, WithdrawReview, Outside
  <2>2. QED
    BY <1>1, <2>1, OrderFrame
<1>3. QED
  BY <1>1, <1>2, OrderQueue, OrderStart, OrderJob, NextSplit

\* Evidence, approval and window keep their order in every attempt.
THEOREM PermitsInOrder == Spec => []GovernedInv
<1>1. Init => OrderBound /\ QueueBound
  BY InitOrder
<1>2. TypeOK /\ TypeOK' /\ Inductive /\ Inductive' /\ OrderBound /\ QueueBound /\ [Next]_vars
        => OrderBound' /\ QueueBound'
  BY OrderStep DEF GovernedInv
<1>3. QED
  BY <1>1, <1>2, TypeCorrect, InductiveInvariant, PTL DEF Spec, GovernedInv


-----------------------------------------------------------------------------
(* What a step does to the abstract state.                                 *)

Window == IF Applying = {} THEN NoRun ELSE ThisPermit(holder)

\* Only an idle run's input changes, and it has signed nothing.
LEMMA BindingsFrame ==
  ASSUME evidence' = evidence,
         \A r \in Run : (\E a \in Attempt : evidence[r][a].signed) => input'[r] = input[r]
  PROVE  Bindings' = Bindings
<1> DEFINE Signed == {q \in Permit : evidence[q[1]][q[2]].signed}
           of(p) == [permit |-> p, sha |-> Sought(p[1]), plan |-> evidence[p[1]][p[2]].plan]
<1>1. Signed' = Signed
  OBVIOUS
<1>2. ASSUME NEW p \in Signed PROVE of(p)' = of(p)
  BY DEF Permit, Sought
<1>3. Bindings = {of(p) : p \in Signed} /\ Bindings' = {of(p)' : p \in Signed'}
  BY DEF Bindings
<1> HIDE DEF Signed, of
<1>4. QED
  BY <1>1, <1>2, <1>3

LEMMA WindowFrame ==
  ASSUME TypeOK, OneRunAtATime,
         \A r \in Run : stage'[r] = "apply" <=> stage[r] = "apply",
         \A r \in Run : stage[r] = "apply" => holder' = holder /\ attempt'[r] = attempt[r]
  PROVE  Window' = Window
<1>1. Applying' = Applying
  BY DEF Applying
<1>2. ASSUME NEW r \in Applying PROVE r = holder /\ ThisPermit(holder)' = ThisPermit(holder)
  BY StagesApart DEF Applying, OneRunAtATime, ThisPermit
<1>3. QED
  BY <1>1, <1>2 DEF Window

\* The window is that of the run at its apply step.
LEMMA WindowShape ==
  ASSUME TypeOK, OneRunAtATime
  PROVE  /\ \A r \in Run : stage[r] = "apply" => Window = ThisPermit(r) /\ r = holder
         /\ (\A r \in Run : stage[r] # "apply") => Window = NoRun
<1>1. ASSUME NEW r \in Run, stage[r] = "apply" PROVE Window = ThisPermit(r) /\ r = holder
  <2>1. r = holder /\ r \in Applying
    BY <1>1, StagesApart DEF OneRunAtATime, Applying
  <2>2. QED
    BY <2>1 DEF Window
<1>2. ASSUME \A r \in Run : stage[r] # "apply" PROVE Window = NoRun
  BY <1>2 DEF Window, Applying
<1>3. QED
  BY <1>1, <1>2

\* A signed permit is bound to its evidence, and only to it.
LEMMA BoundOnce ==
  ASSUME TypeOK, NEW r \in Run, NEW a \in Attempt
  PROVE  /\ evidence[r][a].signed => \E b \in Bindings :
              b.permit = <<r, a>> /\ b.sha = Sought(r) /\ b.plan = evidence[r][a].plan
         /\ ~evidence[r][a].signed => \A b \in Bindings : b.permit # <<r, a>>
<1>1. <<r, a>> \in Permit /\ <<r, a>>[1] = r /\ <<r, a>>[2] = a
  BY DEF Permit
<1>2. ASSUME evidence[r][a].signed
      PROVE  \E b \in Bindings :
               b.permit = <<r, a>> /\ b.sha = Sought(r) /\ b.plan = evidence[r][a].plan
  <2> DEFINE b == [permit |-> <<r, a>>, sha |-> Sought(r), plan |-> evidence[r][a].plan]
  <2>1. b \in Bindings
    BY <1>1, <1>2 DEF Bindings
  <2>2. QED
    BY <2>1
<1>3. ASSUME ~evidence[r][a].signed, NEW b \in Bindings PROVE b.permit # <<r, a>>
  BY <1>1, <1>3 DEF Bindings
<1>4. QED
  BY <1>2, <1>3

-----------------------------------------------------------------------------
(* Every step of the workflow is a step of GovernedChange, or none of it.  *)

LEMMA WorldRefines ==
  ASSUME GovernedInv, World \/ UNCHANGED vars
  PROVE  Governed!AdvanceMain \/ Governed!ByHand \/ UNCHANGED Governed!vars
<1>1. TypeOK /\ OneRunAtATime
  BY DEF GovernedInv, Inductive
<1>2. UNCHANGED <<stage, holder, attempt, evidence, input, approved, opened>>
  BY DEF World, AdvanceMain, RotateContract, Qualify, Tick, OutsideEdit, WithdrawReview,
     Outside, vars, queue, runs, log
<1>3. Bindings' = Bindings /\ Window' = Window
  BY <1>1, <1>2, BindingsFrame, WindowFrame
<1>4. CASE AdvanceMain
  <2>1. main' \in Sha /\ main' > main /\ live' = live
    BY <1>1, <1>4, ConstantsAssumption DEF AdvanceMain, TypeOK, Sha
  <2>2. QED
    BY <1>2, <1>3, <2>1 DEF Governed!AdvanceMain, Window
<1>5. ASSUME NEW o \in Obj, NEW v \in Val, OutsideEdit(o, v)
      PROVE  Governed!ByHand
  BY <1>2, <1>3, <1>5 DEF OutsideEdit, Governed!ByHand, Window
<1>6. CASE UNCHANGED vars \/ RotateContract \/ Qualify \/ Tick \/ \E s \in Sha : WithdrawReview(s)
  <2>1. UNCHANGED <<main, live>>
    BY <1>6 DEF vars, world, RotateContract, Qualify, Tick, WithdrawReview
  <2>2. QED
    BY <1>2, <1>3, <2>1 DEF Governed!vars, Window
<1>7. QED
  BY <1>4, <1>5, <1>6 DEF World

LEMMA QueueRefines ==
  ASSUME GovernedInv, NEW r \in Run, QueueAction(r) \/ Start(r)
  PROVE  UNCHANGED Governed!vars
<1>1. TypeOK /\ OneRunAtATime /\ OrderBound /\ QueueBound
  BY DEF GovernedInv, Inductive
<1>2. UNCHANGED <<main, live, evidence, approved, opened>>
  BY DEF QueueAction, Dispatch, Rerun, Start, world, log
<1>3. CASE QueueAction(r)
  <2>1. /\ Enqueue(r, "queued") /\ holder' = holder
        /\ \/ stage[r] = "idle" /\ attempt' = attempt /\ \A q \in Run \ {r} : input'[q] = input[q]
           \/ stage[r] \in Terminal /\ input' = input /\ \A q \in Run \ {r} : attempt'[q] = attempt[q]
    BY <1>1, <1>3 DEF QueueAction, Dispatch, Rerun, TypeOK
  <2>2. /\ stage'[r] = "queued"
        /\ \A q \in Run \ {r} : stage'[q] = stage[q] \/ stage'[q] = "superseded"
        /\ \A q \in Run \ {r} : stage'[q] # stage[q] => q = waiting
    BY <1>1, <2>1, EnqueueShape
  <2>3. stage[r] # "apply"
    BY <2>1 DEF Terminal
  <2>4. \A q \in Run : stage'[q] = "apply" <=> stage[q] = "apply"
    BY <1>1, <2>2, <2>3 DEF QueueBound
  <2>5. Window' = Window
    <3>1. \A q \in Run : stage[q] = "apply" => holder' = holder /\ attempt'[q] = attempt[q]
      BY <2>1, <2>3
    <3>2. QED
      BY <1>1, <2>4, <3>1, WindowFrame
  <2>6. Bindings' = Bindings
    <3>1. \A q \in Run : (\E a \in Attempt : evidence[q][a].signed) => input'[q] = input[q]
      BY <1>1, <2>1 DEF OrderBound, Ordered
    <3>2. QED
      BY <1>2, <3>1, BindingsFrame
  <2>7. QED
    BY <1>2, <2>5, <2>6 DEF Governed!vars, Window
<1>4. CASE Start(r)
  <2>1. /\ holder = NoRun /\ UNCHANGED <<input, attempt>> /\ stage[r] = "queued"
        /\ stage' = [stage EXCEPT ![r] = entry[r]] /\ entry[r] # "apply"
    BY <1>1, <1>4 DEF Start, TypeOK
  <2>2. \A q \in Run : stage'[q] # "apply" /\ stage[q] # "apply"
    BY <1>1, <2>1, StagesApart, ConstantsAssumption DEF OneRunAtATime, TypeOK
  <2>3. Window' = Window
    BY <1>1, <2>2, WindowFrame
  <2>4. Bindings' = Bindings
    BY <1>2, <2>1, BindingsFrame
  <2>5. QED
    BY <1>2, <2>3, <2>4 DEF Governed!vars, Window
<1>5. QED
  BY <1>3, <1>4

LEMMA JobRefines ==
  ASSUME GovernedInv, NEW r \in Run, JobAction(r), OneRunAtATime', TypeOK'
  PROVE  [Governed!Next]_(Governed!vars)
<1> USE DEF world, queue, runs, log, Same, Kept, Step
<1>1. TypeOK /\ OneRunAtATime /\ OrderBound /\ Ordered(r) /\ KnowsEvidence(r)
  BY DEF GovernedInv, Inductive, OrderBound, EvidenceBound
<1>2. stage[r] \in Active /\ r = holder /\ UNCHANGED <<input, attempt>>
  BY <1>1, JobShape DEF OneRunAtATime
<1>3. \A q \in Run \ {r} : stage'[q] = stage[q] /\ stage[q] # "apply"
  BY <1>1, OthersRest, StagesApart
<1>4. ThisPermit(r) \in Permit /\ ThisPermit(r)' = ThisPermit(r) /\ attempt[r] \in Attempt
  BY <1>1, <1>2 DEF ThisPermit, Permit, TypeOK
<1>5. CASE PlanCreate(r)
  <2> DEFINE p == ThisPermit(r)
             b == [permit |-> p, sha |-> Sought(r), plan |-> FreshPlan(r)]
  <2>1. /\ stage[r] \in Unsigned /\ stage[r] # "apply" /\ stage'[r] # "apply"
        /\ UNCHANGED <<main, live, approved, opened, holder>>
        /\ evidence' = [evidence EXCEPT ![r][attempt[r]] =
             [signed |-> TRUE, plan |-> FreshPlan(r), obs |-> runner.obs,
              created |-> now, expires |-> now + EvidenceLife]]
    BY <1>1, <1>5 DEF PlanCreate, TypeOK, Unsigned, PlanJob
  <2>2. Window' = Window
    BY <1>1, <1>2, <1>3, <2>1, WindowFrame
  <2>3. ~Reviewed(r).signed /\ p \notin approved
    BY <1>1, <2>1 DEF Ordered
  <2>4. \A x \in Bindings : x.permit # p
    BY <1>1, <1>4, <2>3, BoundOnce DEF Reviewed, ThisPermit
  <2>5. b \in Governed!Binding
    <3>1. Sought(r) \in Sha /\ FreshPlan(r) \in SUBSET Change
      BY <1>1, FreshPlanType DEF Sought, TypeOK, Input
    <3>2. QED
      BY <1>4, <3>1 DEF Governed!Binding
  <2>6. Bindings' = Bindings \cup {b}
    <3> DEFINE Signed == {q \in Permit : evidence[q[1]][q[2]].signed}
               SignedNext == {q \in Permit : evidence'[q[1]][q[2]].signed}
               of(q) == [permit |-> q, sha |-> Sought(q[1]), plan |-> evidence[q[1]][q[2]].plan]
               ofNext(q) == [permit |-> q, sha |-> Sought(q[1])', plan |-> evidence'[q[1]][q[2]].plan]
    <3>1. \A q \in Permit \ {p} : evidence'[q[1]][q[2]] = evidence[q[1]][q[2]]
      BY <1>1, <1>4, <2>1 DEF TypeOK, Permit, ThisPermit
    <3>2. /\ p[1] = r /\ p[2] = attempt[r]
          /\ evidence'[r][attempt[r]].signed /\ evidence'[r][attempt[r]].plan = FreshPlan(r)
      BY <1>1, <1>4, <2>1 DEF TypeOK, ThisPermit
    <3>3. SignedNext = Signed \cup {p}
      BY <1>4, <3>1, <3>2
    <3>4. \A q \in Signed : ofNext(q) = of(q)
      <4>1. ASSUME NEW q \in Signed PROVE q # p
        BY <2>3, <3>2 DEF Reviewed
      <4>2. QED
        BY <1>2, <3>1, <4>1 DEF Sought
    <3>5. ofNext(p) = b
      BY <1>2, <1>4, <3>2 DEF Sought
    <3>6. Bindings = {of(q) : q \in Signed} /\ Bindings' = {ofNext(q) : q \in SignedNext}
      BY DEF Bindings
    <3> HIDE DEF Signed, SignedNext, of, ofNext, b, p
    <3>7. QED
      BY <3>3, <3>4, <3>5, <3>6
  <2>7. Governed!Review(p)
    <3>1. b \in Bindings' /\ b.permit = p
      BY <2>6
    <3> HIDE DEF b, p
    <3>2. QED
      BY <2>1, <2>2, <2>3, <2>4, <2>5, <2>6, <3>1 DEF Governed!Review, Window
  <2>8. QED
    BY <1>4, <2>7 DEF Governed!Next
<1>6. CASE Approve(r)
  <2>1. /\ stage[r] = "approval" /\ stage'[r] # "apply"
        /\ UNCHANGED <<main, live, evidence, opened, holder>>
        /\ approved' = approved \cup {ThisPermit(r)}
    BY <1>1, <1>6 DEF Approve, TypeOK, ThisPermit
  <2>2. Window' = Window /\ Bindings' = Bindings
    BY <1>1, <1>2, <1>3, <2>1, WindowFrame, BindingsFrame
  <2>3. Governed!Approve(ThisPermit(r))
    BY <1>1, <2>1, <2>2 DEF Ordered, Governed!Approve, Window
  <2>4. QED
    BY <1>4, <2>3 DEF Governed!Next
<1>7. CASE CheckSource(r)
  <2>1. /\ stage[r] = "source" /\ stage'[r] = "apply" /\ main = Sought(r)
        /\ UNCHANGED <<main, live, evidence, approved, holder>>
        /\ opened' = opened \cup {ThisPermit(r)}
    BY <1>1, <1>7 DEF CheckSource, Holds, TypeOK
  <2>2. Window = NoRun /\ Window' = ThisPermit(r) /\ Bindings' = Bindings
    <3>1. Window = NoRun
      BY <1>1, <1>3, <2>1, WindowShape
    <3>2. Window' = ThisPermit(r)
      BY <1>2, <1>4, <2>1 DEF Window, Applying
    <3>3. QED
      BY <1>2, <2>1, <3>1, <3>2, BindingsFrame
  <2>3. ThisPermit(r) \in approved \ opened /\ Reviewed(r).signed
    BY <1>1, <2>1 DEF Ordered, KnowsEvidence, Closed, Attempted
  <2>4. \E b \in Bindings : b.permit = ThisPermit(r) /\ b.sha = main
    BY <1>1, <1>4, <2>1, <2>3, BoundOnce DEF Reviewed, ThisPermit
  <2>5. Governed!Open(ThisPermit(r))
    BY <2>1, <2>2, <2>3, <2>4 DEF Governed!Open, Window
  <2>6. QED
    BY <1>4, <2>5 DEF Governed!Next
<1>8. ASSUME NEW c \in runner.plan, ApplyChange(r, c)
      PROVE  [Governed!Next]_(Governed!vars)
  <2>1. /\ stage[r] = "apply" /\ UNCHANGED <<main, evidence, approved, opened, holder, stage>>
        /\ c \in Change
        /\ live' = IF c.before = c.after THEN live ELSE [live EXCEPT ![c.obj] = c.after]
    BY <1>1, <1>8 DEF ApplyChange, TypeOK, Runner
  <2>2. Window' = Window /\ Bindings' = Bindings
    BY <1>1, <1>2, <2>1, WindowFrame, BindingsFrame
  <2>3. CASE c.before = c.after
    BY <2>1, <2>2, <2>3 DEF Governed!vars, Window
  <2>4. CASE c.before # c.after
    <3>1. Window = ThisPermit(r) /\ Window # NoRun
      BY <1>1, <1>4, <2>1, WindowShape, ConstantsAssumption
    <3>2. /\ Reviewed(r).signed /\ runner.plan = Reviewed(r).plan
          /\ Eligible(input[r], runner.plan)
      BY <1>1, <2>1 DEF KnowsEvidence, Attempted, Recomputed, Compared
    <3>3. c \in Writes(runner.plan) /\ c \notin Prohibited
      BY <2>4, <3>2 DEF Writes, Eligible
    <3>4. PICK b \in Bindings : b.permit = ThisPermit(r) /\ b.plan = Reviewed(r).plan
      BY <1>1, <1>4, <3>2, BoundOnce DEF Reviewed, ThisPermit
    <3>5. c \in Governed!PlanFor(Window)
      BY <3>1, <3>2, <3>4 DEF Governed!PlanFor
    <3>6. Governed!Write(c)
      BY <2>1, <2>2, <2>4, <3>1, <3>3, <3>5 DEF Governed!Write, Window
    <3>7. QED
      BY <2>1, <3>6 DEF Governed!Next
  <2>5. QED
    BY <2>3, <2>4
<1>9. CASE /\ ~PlanCreate(r) /\ ~Approve(r) /\ ~CheckSource(r)
           /\ ~ \E c \in runner.plan : ApplyChange(r, c)
  <2>1. UNCHANGED <<evidence, approved, opened, main>> /\ (stage'[r] = "apply" => stage[r] = "apply")
    BY <1>1, <1>9, Passing
  <2>2. live' = live
    BY <1>9 DEF JobAction, GateAndPlan, Recompute, Mutate, PassGate, PlanIdentity, PlanObserve,
       Reject, ApplyIdentity, VerifyEvidence, Reobserve, Replan, CompareEvidence, CheckExpiry,
       FinishApply, CheckProvider, CheckLive, WriteReceipt, Diagnose, Fail, Interrupt, LoseRunner
  <2>3. Bindings' = Bindings
    BY <1>2, <2>1, BindingsFrame
  <2>4. CASE stage[r] = "apply" /\ stage'[r] # "apply"
    <3>1. Window = ThisPermit(r) /\ Window # NoRun
      BY <1>1, <1>4, <2>4, WindowShape, ConstantsAssumption
    <3>2. Window' = NoRun
      BY <1>3, <2>4 DEF Window, Applying
    <3>3. Governed!Close
      BY <2>1, <2>2, <2>3, <3>1, <3>2 DEF Governed!Close, Window
    <3>4. QED
      BY <3>3 DEF Governed!Next
  <2>5. CASE stage[r] # "apply"
    <3>1. Window' = Window
      BY <1>1, <1>3, <2>1, <2>5, WindowFrame
    <3>2. QED
      BY <2>1, <2>2, <2>3, <3>1 DEF Governed!vars, Window
  <2>6. CASE stage[r] = "apply" /\ stage'[r] = "apply"
    <3>1. holder' = holder
      <4>1. PICK t \in Stage : Moves(r, t)
        BY <1>1, JobShape
      <4>2. t = "apply"
        BY <1>1, <2>6, <4>1 DEF Moves, TypeOK
      <4>3. QED
        BY <4>1, <4>2 DEF Moves, Terminal
    <3>2. Window' = Window
      BY <1>1, <1>2, <1>3, <2>6, <3>1, WindowFrame
    <3>3. QED
      BY <2>1, <2>2, <2>3, <3>2 DEF Governed!vars, Window
  <2>7. QED
    BY <2>4, <2>5, <2>6
<1>10. QED
  BY <1>5, <1>6, <1>7, <1>8, <1>9

\* The refinement: whatever is dispatched, re-run, cancelled or lost, the
\* organization changes by hand or through a window opened once, on the plan
\* reviewed under its permit, while main is the revision that plan was made of.
THEOREM Governance == Spec => ChangesAreGoverned
<1>1. Init => Governed!Init
  <2> SUFFICES ASSUME Init PROVE Governed!Init
    OBVIOUS
  <2>1. main \in Sha /\ live \in [Obj -> Val]
    BY InitType DEF TypeOK, State
  <2>2. \A r \in Run, a \in Attempt : ~evidence[r][a].signed
    BY DEF Init, NoEvidence
  <2>3. Bindings = {}
    BY <2>2 DEF Bindings, Permit
  <2>4. Applying = {}
    BY DEF Init, Applying
  <2>5. QED
    BY <2>1, <2>3, <2>4 DEF Init, Governed!Init
<1>2. GovernedInv /\ GovernedInv' /\ [Next]_vars => [Governed!Next]_(Governed!vars)
  <2> SUFFICES ASSUME GovernedInv, GovernedInv', [Next]_vars
               PROVE  [Governed!Next]_(Governed!vars)
    OBVIOUS
  <2>1. OneRunAtATime' /\ TypeOK'
    BY DEF GovernedInv, Inductive
  <2>2. QED
    BY <2>1, WorldRefines, QueueRefines, JobRefines, NextSplit DEF Governed!Next
<1>3. QED
  BY <1>1, <1>2, PermitsInOrder, PTL DEF Spec, ChangesAreGoverned, Governed!Spec
=============================================================================
