------------------------ MODULE ProtectedApply_settled ------------------------
(***************************************************************************)
(* What the protected-apply workflow knew of the organization when it      *)
(* planned and when it checked its work stays true until somebody else     *)
(* acts, for every set of runs and objects, every catalog and every bound. *)
(***************************************************************************)
EXTENDS ProtectedApply_proofs

-----------------------------------------------------------------------------
(* The plan fits the world it was recomputed and checked in.               *)

Looked == {"compare", "expiry", "source", "apply"}
OneChangeEach(p) == \A c, d \in p : c.obj = d.obj => c = d

\* Until an event, nothing the plan shows and has not done yet is stale.
Fits(r) ==
  stage[r] \in Looked =>
    /\ events <= runner.replanned /\ OneChangeEach(runner.plan)
    /\ events = runner.replanned => \A c \in Undone : c.before # Absent => live[c.obj] = c.before

\* The provider check passed, and the apply job has not failed since.
Checked(r) == \/ stage[r] \in {"live", "receipt"}
              \/ stage[r] = "diagnose" /\ runner.outcome = "success"
Settled(r) ==
  /\ \A c \in Reviewed(r).plan : c.after # Absent => live[c.obj] = c.after
  /\ input[r].phase # "adopt" => Effects(FreshPlan(r)) = {}

\* Until an event, what the provider check found still holds.
Holding(r) ==
  /\ stage[r] \in Recomputed => \A c \in runner.plan :
       c.after = Target(runner.obs, Sought(r), input[r].phase)[c.obj]
  /\ Checked(r) => events <= runner.checked
  /\ Checked(r) /\ events = runner.checked => Settled(r)

FitBound == \A r \in Run : Fits(r) /\ Holding(r)
FitInv == TypeOK /\ Inductive /\ FitBound

\* A plan has one change for an object, read from and aimed at these states.
LEMMA PlanShape ==
  ASSUME NEW obs, NEW l, NEW m, NEW s, NEW ph
  PROVE  LET p == PlanOf(obs, l, m, s, ph) IN
         /\ OneChangeEach(p)
         /\ \A c \in p : /\ c.after = Target(obs, s, ph)[c.obj]
                         /\ c.before # Absent => l[c.obj] = c.before
<1> DEFINE imports == Imports(obs, m, s)
           scope == IF ph = "adopt" THEN imports
                    ELSE m \cup {o \in Obj : Catalog[s][o] # Absent}
           change(o) == [obj |-> o, before |-> IF o \in m \cup imports THEN l[o] ELSE Absent,
                         after |-> Target(obs, s, ph)[o], import |-> o \in imports]
<1>1. PlanOf(obs, l, m, s, ph) = {change(o) : o \in scope}
  BY DEF PlanOf
<1>2. \A o \in scope : /\ change(o).obj = o /\ change(o).after = Target(obs, s, ph)[o]
                       /\ change(o).before # Absent => l[o] = change(o).before
  OBVIOUS
<1> HIDE DEF change, scope
<1>3. QED
  BY <1>1, <1>2 DEF OneChangeEach

\* What the check before the receipt establishes, from the shape of the plan.
LEMMA ConvergedSettles ==
  ASSUME TypeOK, NEW r \in Run, Converged(r), runner.plan = Reviewed(r).plan,
         \A c \in runner.plan : c.after = Target(runner.obs, Sought(r), input[r].phase)[c.obj]
  PROVE  Settled(r)
<1>1. CASE input[r].phase = "adopt"
  BY <1>1 DEF Converged, Settled
<1>2. CASE input[r].phase # "adopt"
  <2> DEFINE s == Sought(r)
             m == managed
             ph == input[r].phase
             imports == Imports(runner.obs, m, s)
             change(o) == [obj |-> o, before |-> IF o \in m \cup imports THEN live[o] ELSE Absent,
                           after |-> Target(runner.obs, s, ph)[o], import |-> o \in imports]
  <2>1. Effects(FreshPlan(r)) = {}
    BY <1>2 DEF Converged
  <2>2. \A o \in Obj : Catalog[s][o] # Absent => change(o) \in FreshPlan(r)
    BY <1>2 DEF FreshPlan, PlanOf
  <2>3. ASSUME NEW c \in Reviewed(r).plan, c.after # Absent PROVE live[c.obj] = c.after
    <3>1. c.obj \in Obj
      BY DEF TypeOK, Runner, Change
    <3>2. c.after = Target(runner.obs, s, ph)[c.obj]
      OBVIOUS
    <3>3. Catalog[s][c.obj] # Absent
      BY <2>3, <3>1, <3>2 DEF Target
    <3>4. change(c.obj) \in FreshPlan(r) /\ change(c.obj) \notin Effects(FreshPlan(r))
      BY <2>1, <2>2, <3>1, <3>3
    <3>5. change(c.obj).before = change(c.obj).after
      BY <3>4 DEF Effects
    <3>6. QED
      BY <2>3, <3>2, <3>5
  <2>4. QED
    BY <2>1, <2>3 DEF Settled
<1>3. QED
  BY <1>1, <1>2

\* A step of the world: an event, or nothing the plan is about changes.
LEMMA FitWorld ==
  ASSUME TypeOK, FitBound, World \/ UNCHANGED vars
  PROVE  FitBound'
<1>1. UNCHANGED <<stage, input, attempt, evidence, runner, managed>>
  BY DEF World, AdvanceMain, RotateContract, Qualify, Tick, OutsideEdit, WithdrawReview,
     Outside, vars, world, runs
<1>2. \/ UNCHANGED <<live, events>>
      \/ events > 0 /\ events' = events - 1
  BY DEF World, AdvanceMain, RotateContract, Qualify, Tick, OutsideEdit, WithdrawReview,
     Outside, Disturb, vars, world
<1>3. events \in Nat /\ runner.replanned \in Nat /\ runner.checked \in Nat
  BY DEF TypeOK, Runner
<1>4. ASSUME NEW q \in Run PROVE Fits(q)' /\ Holding(q)'
  <2>1. Fits(q) /\ Holding(q)
    BY DEF FitBound
  <2>2. UNCHANGED <<Sought(q), Reviewed(q), Undone, Checked(q)>>
    BY <1>1 DEF Sought, Reviewed, Undone, Checked
  <2>3. CASE UNCHANGED <<live, events>>
    <3>1. Settled(q)' <=> Settled(q)
      BY <1>1, <2>2, <2>3 DEF Settled, FreshPlan
    <3>2. QED
      BY <1>1, <2>1, <2>2, <2>3, <3>1 DEF Fits, Holding
  <2>4. CASE events > 0 /\ events' = events - 1
    <3>1. /\ events <= runner.replanned => events' < runner.replanned
          /\ events <= runner.checked => events' < runner.checked
      BY <1>3, <2>4
    <3>2. events' \in Nat
      BY <1>3, <2>4
    <3>3. QED
      BY <1>1, <1>3, <2>1, <2>2, <3>1, <3>2 DEF Fits, Holding
  <2>5. QED
    BY <1>2, <2>3, <2>4
<1>5. QED
  BY <1>4 DEF FitBound

\* A run the step does not act in keeps what the bound says of it.
LEMMA FitQueue ==
  ASSUME TypeOK, OneRunAtATime, FitBound, NEW r \in Run, QueueAction(r) \/ Start(r)
  PROVE  FitBound'
<1>1. CASE QueueAction(r)
  <2>1. UNCHANGED <<runner, evidence, live, managed, events>>
    BY <1>1, QueueShape DEF world, QueueAction, Dispatch, Rerun
  <2>2. ASSUME NEW q \in Run, stage'[q] \in Active PROVE Fits(q)' /\ Holding(q)'
    <3>1. stage'[q] = stage[q] /\ input'[q] = input[q] /\ attempt'[q] = attempt[q]
      BY <1>1, <2>2, QueueShape
    <3>2. UNCHANGED <<Sought(q), Reviewed(q), Undone, Checked(q)>>
      BY <2>1, <3>1 DEF Sought, Reviewed, Undone, Checked
    <3>3. Settled(q)' <=> Settled(q)
      BY <2>1, <3>1, <3>2 DEF Settled, FreshPlan
    <3>4. QED
      BY <2>1, <3>1, <3>2, <3>3 DEF FitBound, Fits, Holding
  <2>3. ASSUME NEW q \in Run, stage'[q] \notin Active PROVE Fits(q)' /\ Holding(q)'
    BY <2>3, StageSets DEF Fits, Holding, Checked, Looked, Active, Running, Attempted
  <2>4. QED
    BY <2>2, <2>3 DEF FitBound
<1>2. CASE Start(r)
  <2>1. ASSUME NEW q \in Run
        PROVE  stage'[q] \notin Looked \cup Recomputed \cup {"live", "receipt", "diagnose"}
    <3>1. /\ stage[q] \notin Active /\ holder = NoRun
          /\ stage' = [stage EXCEPT ![r] = entry[r]]
          /\ entry[r] \in {"gate", "plan-identity", "approval"}
      BY <1>2, ConstantsAssumption DEF Start, OneRunAtATime, TypeOK
    <3>2. stage'[q] = entry[r] \/ stage'[q] \notin Active
      BY <3>1 DEF TypeOK
    <3>3. QED
      BY <3>1, <3>2 DEF Looked, Recomputed, Compared, Active, Running, Attempted
  <2>2. QED
    BY <2>1 DEF FitBound, Fits, Holding, Checked
<1>3. QED
  BY <1>1, <1>2

LEMMA FitJob ==
  ASSUME TypeOK, Inductive, FitBound, NEW r \in Run, JobAction(r)
  PROVE  FitBound'
<1> USE DEF world, queue, runs, log, Same, Kept, Step
<1> DEFINE Tracked == Looked \cup Recomputed \cup {"live", "receipt", "diagnose"}
<1>1. stage[r] \in Active /\ UNCHANGED <<input, attempt>> /\ UNCHANGED Sought(r)
  BY JobShape DEF Sought
<1>2. ASSUME NEW q \in Run, q # r PROVE Fits(q)' /\ Holding(q)'
  <2>1. stage'[q] \notin Active
    BY <1>2, OthersRest DEF Inductive
  <2>2. QED
    BY <2>1 DEF Fits, Holding, Checked, Looked, Recomputed, Compared, Active, Running, Attempted
<1>3. Fits(r) /\ Holding(r) /\ KnowsEvidence(r)
  BY DEF FitBound, Inductive, EvidenceBound
<1>4. ASSUME \/ GateAndPlan(r) \/ Approve(r) \/ Reject(r) \/ ApplyIdentity(r)
             \/ VerifyEvidence(r) \/ Reobserve(r) \/ Diagnose(r) \/ LoseRunner(r)
      PROVE  Fits(r)' /\ Holding(r)'
  <2>1. stage'[r] \notin Tracked
    BY <1>4 DEF GateAndPlan, PassGate, PlanIdentity, PlanObserve, PlanCreate, Approve, Reject,
       ApplyIdentity, VerifyEvidence, Reobserve, Diagnose, LoseRunner, Conclude, TypeOK,
       Looked, Recomputed, Compared
  <2>2. QED
    BY <2>1 DEF Fits, Holding, Checked
<1>5. ASSUME Fail(r) \/ Interrupt(r)
      PROVE  Fits(r)' /\ Holding(r)'
  <2>1. \/ stage'[r] \notin Tracked
        \/ stage'[r] = "diagnose" /\ runner'.outcome # "success"
    BY <1>5 DEF Fail, Interrupt, Stop, Conclude, TypeOK, Runner, Looked, Recomputed, Compared
  <2>2. QED
    BY <2>1 DEF Fits, Holding, Checked, Looked, Recomputed, Compared
<1>6. ASSUME Replan(r)
      PROVE  Fits(r)' /\ Holding(r)'
  <2>1. /\ stage'[r] = "compare" /\ UNCHANGED <<live, managed, events>>
        /\ runner' = [runner EXCEPT !.plan = FreshPlan(r), !.replanned = events]
    BY <1>6 DEF Replan, TypeOK
  <2>2. /\ runner'.plan = FreshPlan(r) /\ runner'.replanned = events
        /\ runner'.obs = runner.obs /\ events \in Nat
    BY <2>1 DEF TypeOK, Runner
  <2>3. /\ OneChangeEach(FreshPlan(r))
        /\ \A c \in FreshPlan(r) :
             /\ c.after = Target(runner.obs, Sought(r), input[r].phase)[c.obj]
             /\ c.before # Absent => live[c.obj] = c.before
    BY PlanShape DEF FreshPlan
  <2>4. Undone' \subseteq FreshPlan(r)
    BY <2>2 DEF Undone, Effects
  <2>5. Fits(r)'
    BY <2>1, <2>2, <2>3, <2>4 DEF Fits
  <2>6. Holding(r)'
    BY <1>1, <2>1, <2>2, <2>3 DEF Holding, Checked
  <2>7. QED
    BY <2>5, <2>6
<1>7. ASSUME CompareEvidence(r) \/ CheckExpiry(r) \/ CheckSource(r)
      PROVE  Fits(r)' /\ Holding(r)'
  <2>1. /\ stage[r] \in Looked \cap Recomputed /\ stage'[r] \in Looked /\ UNCHANGED <<live, events>>
        /\ runner'.plan = runner.plan /\ runner'.obs = runner.obs /\ runner'.done = runner.done
        /\ runner'.replanned = runner.replanned
    BY <1>7 DEF CompareEvidence, CheckExpiry, CheckSource, TypeOK, Runner, Looked, Recomputed, Compared
  <2>2. Undone' = Undone /\ ~Checked(r)'
    BY <2>1 DEF Undone, Checked, Looked
  <2>3. QED
    BY <1>1, <1>3, <2>1, <2>2 DEF Fits, Holding
<1>8. ASSUME NEW c \in runner.plan, ApplyChange(r, c) PROVE Fits(r)' /\ Holding(r)'
  <2>1. /\ stage[r] = "apply" /\ UNCHANGED <<stage, events>> /\ c \in Undone /\ c \in Change
        /\ runner'.plan = runner.plan /\ runner'.obs = runner.obs
        /\ runner'.replanned = runner.replanned /\ runner'.done = runner.done \cup {c}
        /\ live' = IF c.before = c.after THEN live ELSE [live EXCEPT ![c.obj] = c.after]
    BY <1>8 DEF ApplyChange, TypeOK, Runner
  <2>2. stage[r] \in Looked \cap Recomputed /\ ~Checked(r)'
    BY <2>1 DEF Looked, Recomputed, Compared, Checked
  <2>3. ASSUME NEW d \in Undone' PROVE d \in Undone /\ d \in Change /\ live'[d.obj] = live[d.obj]
    <3>1. d \in Undone /\ d # c
      BY <2>1, <2>3 DEF Undone
    <3>2. d \in runner.plan /\ d \in Change
      BY <3>1 DEF Undone, Effects, TypeOK, Runner
    <3>3. d.obj # c.obj
      BY <1>3, <2>2, <3>1, <3>2 DEF Fits, OneChangeEach
    <3>4. QED
      BY <2>1, <3>1, <3>2, <3>3 DEF Change, TypeOK, State
  <2>4. Fits(r)'
    BY <1>3, <2>1, <2>2, <2>3 DEF Fits
  <2>5. Holding(r)'
    BY <1>1, <1>3, <2>1, <2>2 DEF Holding
  <2>6. QED
    BY <2>4, <2>5
<1>9. ASSUME FinishApply(r)
      PROVE  Fits(r)' /\ Holding(r)'
  <2>1. stage[r] = "apply" /\ stage'[r] = "provider" /\ runner' = runner
    BY <1>9 DEF FinishApply, TypeOK
  <2>2. QED
    BY <1>1, <1>3, <2>1 DEF Fits, Holding, Checked, Looked, Recomputed, Compared
<1>10. ASSUME CheckProvider(r)
       PROVE  Fits(r)' /\ Holding(r)'
  <2>1. /\ stage[r] = "provider" /\ stage'[r] = "live" /\ Converged(r)
        /\ UNCHANGED <<live, managed, events, evidence>>
        /\ runner'.plan = runner.plan /\ runner'.obs = runner.obs /\ runner'.checked = events
        /\ events \in Nat
    BY <1>10 DEF CheckProvider, Holds, TypeOK, Runner
  <2>2. Settled(r)
    BY <1>3, <2>1, ConvergedSettles DEF KnowsEvidence, Holding, Recomputed, Compared
  <2>3. Settled(r)'
    BY <1>1, <2>1, <2>2 DEF Settled, FreshPlan, Reviewed
  <2>4. QED
    BY <1>1, <1>3, <2>1, <2>3 DEF Fits, Holding, Looked, Recomputed, Compared
<1>11. ASSUME CheckLive(r) \/ WriteReceipt(r)
       PROVE  Fits(r)' /\ Holding(r)'
  <2>1. /\ stage[r] \in {"live", "receipt"} /\ stage'[r] \in {"receipt", "diagnose"}
        /\ UNCHANGED <<live, managed, events, evidence>>
        /\ runner'.plan = runner.plan /\ runner'.obs = runner.obs
        /\ runner'.checked = runner.checked
    BY <1>11 DEF CheckLive, WriteReceipt, TypeOK, Runner
  <2>2. Settled(r)' <=> Settled(r)
    BY <1>1, <2>1 DEF Settled, FreshPlan, Reviewed
  <2>3. QED
    BY <1>1, <1>3, <2>1, <2>2 DEF Fits, Holding, Checked, Looked, Recomputed, Compared
<1>12. Fits(r)' /\ Holding(r)'
  BY <1>4, <1>5, <1>6, <1>7, <1>8, <1>9, <1>10, <1>11 DEF JobAction, Recompute, Mutate
<1>13. QED
  BY <1>2, <1>12 DEF FitBound

\* What was recomputed and checked holds until an event says otherwise.
THEOREM PlanFits == Spec => []FitInv
<1>1. Init => FitBound
  BY DEF Init, FitBound, Fits, Holding, Checked, Looked, Recomputed, Compared
<1>2. TypeOK /\ TypeOK' /\ Inductive /\ Inductive' /\ FitBound /\ [Next]_vars => FitBound'
  BY FitWorld, FitQueue, FitJob, NextSplit DEF Inductive
<1>3. QED
  BY <1>1, <1>2, TypeCorrect, InductiveInvariant, PTL DEF Spec, FitInv

\* In an undisturbed world every write replaces what the plan showed.
THEOREM LookedLast == Spec => LastLook
<1> DEFINE Last1 == \A o \in Obj :
       live'[o] # live[o] /\ events' = events /\ events = runner.replanned =>
         \E c \in Undone : c.obj = o /\ c.before = live[o] /\ c.after = live'[o]
<1>1. FitInv /\ [Next]_vars => Last1
  <2> SUFFICES ASSUME FitInv, [Next]_vars, NEW o \in Obj, live'[o] # live[o],
                      events' = events, events = runner.replanned
               PROVE  \E c \in Undone : c.obj = o /\ c.before = live[o] /\ c.after = live'[o]
    OBVIOUS
  <2>1. TypeOK /\ Inductive /\ OneRunAtATime /\ FitBound /\ events \in Nat
    BY DEF FitInv, Inductive, TypeOK
  <2>2. PICK c : WritesChange(c)
    BY <2>1, LiveStep
  <2>3. c \in Undone /\ o = c.obj /\ live'[o] = c.after /\ holder \in Run
    BY <2>1, <2>2, WriteShape
  <2>4. stage[holder] = "apply" /\ Doable(c)
    BY <2>2 DEF WritesChange, ApplyChange
  <2>5. c.before # Absent => live[c.obj] = c.before
    BY <2>1, <2>3, <2>4 DEF FitBound, Fits, Looked
  <2>6. c.before = live[o]
    BY <2>3, <2>4, <2>5 DEF Doable
  <2>7. QED
    BY <2>3, <2>6
<1>2. QED
  BY PlanFits, <1>1, PTL DEF Spec, LastLook

\* A success report is true of the organization until an event.
THEOREM SuccessHolds == Spec => []SuccessMeansConverged
<1>1. FitInv => SuccessMeansConverged
  BY DEF FitInv, FitBound, Holding, Checked, Settled, SuccessMeansConverged
<1>2. QED
  BY PlanFits, <1>1, PTL
===============================================================================
