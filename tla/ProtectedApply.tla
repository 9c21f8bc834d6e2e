---------------------------- MODULE ProtectedApply ----------------------------
(***************************************************************************)
(* The protected-apply workflow: a dispatched run passes a source gate,    *)
(* plans, waits for an environment approval, then recomputes the plan and  *)
(* applies it to the organization.  Between any two of its steps the rest  *)
(* of the world moves: main advances, people edit the organization by      *)
(* hand, reviews change, variables rotate, jobs are cancelled, time out or *)
(* lose their runner, and failed jobs are re-run.                          *)
(*                                                                         *)
(* Abstractions.  An organization object (a repository, team, ruleset,     *)
(* membership) is one element of Obj with one value.  A digest is the      *)
(* value it is taken of.  A job step that reads the shared world at one    *)
(* place is one action; a step that reads it at several places is several. *)
(***************************************************************************)
EXTENDS Integers

CONSTANTS
  Run, NoRun,            \* workflow runs, identified by github.run_id
  Obj, Val, Absent,      \* governed objects, their values, no such object
  Ruleset, Evaluate,     \* the objects held in evaluation mode before enforce
  MaxSha, Catalog,       \* main only ever moves forward; desired state per commit
  Prohibited, Expanding, \* changes classified fundamental / privilege-expanding
  Offer,                 \* [phase, exception, risk] a dispatcher may enter
  InitialLive, InitialManaged, InitialReview, \* where a check may begin
  EvidenceLife, JobTimeout, QualLife, FounderExpiry, \* in ticks
  MaxAttempt, MaxTime, MaxEvents                     \* bounds

Sha == 1..MaxSha
Attempt == 1..MaxAttempt
State == [Obj -> Val]
Phase == {"adopt", "foundation", "enforce"}
ReviewState == {"independent", "founder", "blocked"}
Change == [obj : Obj, before : Val, after : Val, import : BOOLEAN]
Input == [sha : Sha, phase : Phase, exception : BOOLEAN, risk : BOOLEAN,
          analysis : SUBSET Change]
Gate == [contract : Nat, wif : Nat, mode : ReviewState]
Evidence == [signed : BOOLEAN, plan : SUBSET Change, obs : State,
             created : Nat, expires : Nat]
Outcome == {"skipped", "success", "failure", "cancelled"}
Runner == [since : Nat, obs : State, plan : SUBSET Change, done : SUBSET Change,
           started : BOOLEAN, outcome : Outcome, replanned : Nat, checked : Nat]
Permit == Run \X Attempt

ASSUME ConstantsAssumption ==
  /\ NoRun \notin Run /\ NoRun \notin Permit
  /\ Absent \in Val /\ Evaluate \in Val
  /\ MaxSha \in Nat \ {0} /\ MaxAttempt \in Nat \ {0}
  /\ MaxTime \in Nat /\ MaxEvents \in Nat /\ FounderExpiry \in Nat
  /\ EvidenceLife \in Nat /\ JobTimeout \in Nat /\ QualLife \in Nat
  /\ Catalog \in [Sha -> State]
  /\ Offer \subseteq [phase : Phase, exception : BOOLEAN, risk : BOOLEAN]
  /\ InitialLive \subseteq State /\ InitialManaged \subseteq SUBSET Obj
  /\ InitialReview \subseteq [Sha -> ReviewState]

VARIABLES
  main, live, managed,   \* protected main, the organization, OpenTofu state
  now, review, contract, qual, \* clock, merged reviews, Actions variables
  events,                \* disturbances still allowed (a bound)
  holder, waiting,       \* the concurrency group github-governance-apply
  stage, entry, input, attempt, \* each run; entry is where its next attempt starts
  gate, evidence, approved,     \* job outputs, plan artifacts, environment approvals
  runner,                \* the files and outcomes of the job now running
  diag, consumed, opened, wrote \* published diagnostics; histories

world == <<main, live, managed, now, review, contract, qual>>
queue == <<holder, waiting>>
runs  == <<stage, entry, input, attempt, gate, evidence, approved>>
log   == <<diag, consumed, opened, wrote>>
vars  == <<world, events, queue, runs, runner, log>>

-----------------------------------------------------------------------------
(* The desired state, the plan and its classification.                     *)

\* Rulesets keep their observed enforcement under adopt and are held in
\* evaluation mode under foundation; everything else follows the catalog.
Target(obs, s, ph) ==
  [o \in Obj |->
     IF o \notin Ruleset \/ Catalog[s][o] = Absent THEN Catalog[s][o]
     ELSE IF ph = "foundation" THEN Evaluate
     ELSE IF ph = "adopt" /\ obs[o] # Absent THEN obs[o]
     ELSE Catalog[s][o]]

\* Adoption bindings come from the observation; OpenTofu skips a managed one.
Imports(obs, m, s) == {o \in Obj \ m : obs[o] # Absent /\ Catalog[s][o] # Absent}

\* Adopt plans only the import addresses; otherwise all declared or managed
\* objects appear, no-ops included, because the digest covers them.
PlanOf(obs, l, m, s, ph) ==
  LET imports == Imports(obs, m, s)
      scope   == IF ph = "adopt" THEN imports
                 ELSE m \cup {o \in Obj : Catalog[s][o] # Absent}
  IN {[obj    |-> o,
       before |-> IF o \in m \cup imports THEN l[o] ELSE Absent,
       after  |-> Target(obs, s, ph)[o],
       import |-> o \in imports] : o \in scope}

Writes(p)   == {c \in p : c.before # c.after}
Removals(p) == {c \in p : c.before # Absent /\ c.after = Absent}
Effects(p)  == {c \in p : c.before # c.after \/ c.import}
Recorded(m, p) == (m \cup {c.obj : c \in p}) \ {c.obj : c \in Removals(p)}

\* An import of an object the provider cannot read fails the plan.
Plannable(p, ph) == /\ \A c \in p : c.import => c.before # Absent
                    /\ ph = "adopt" => p # {}

\* Mutant: a privilege expansion needs no acknowledgement.
EligibleUnacknowledged(in, p) ==
  /\ Writes(p) \cap Prohibited = {}
  /\ in.phase = "adopt" => Writes(p) = {}
  /\ IF Removals(p) # {} THEN in.analysis = p ELSE in.analysis = {}

\* decision.eligible_for_protected_apply, with the workflow's own checks.
Eligible(in, p) ==
  /\ Writes(p) \cap Prohibited = {}
  /\ in.phase = "adopt" => Writes(p) = {}
  /\ Writes(p) \cap Expanding # {} => in.risk
  /\ IF Removals(p) # {} THEN in.analysis = p ELSE in.analysis = {}

\* Enforcement requires the observed state to equal the catalog already.
PreflightPasses(in, obs) == in.phase = "enforce" => obs = Catalog[in.sha]

Current(e, t) == e.signed /\ e.created <= t /\ t < e.expires

-----------------------------------------------------------------------------
NoState == [o \in Obj |-> Absent]
NoEvidence == [signed |-> FALSE, plan |-> {}, obs |-> NoState, created |-> 0, expires |-> 0]
Fresh(t) == [since |-> t, obs |-> NoState, plan |-> {}, done |-> {}, started |-> FALSE,
             outcome |-> "skipped", replanned |-> 0, checked |-> 0]

\* Mutant: the artifact name leaves out the run attempt.
ReviewedByRun(r) ==
  LET signed == {a \in Attempt : evidence[r][a].signed}
  IN IF signed = {} THEN NoEvidence ELSE evidence[r][CHOOSE a \in signed : \A b \in signed : b <= a]

Reviewed(r) == evidence[r][attempt[r]]
Sought(r) == input[r].sha

PlanJob   == {"plan-identity", "plan-observe", "plan-create"}
Attempted == {"verify", "reobserve", "replan", "compare", "expiry", "source",
              "apply", "provider", "live", "receipt"}
Running   == {"gate"} \cup PlanJob \cup {"apply-identity", "diagnose"} \cup Attempted
Active    == Running \cup {"approval"}
Terminal  == {"succeeded", "failed", "superseded"}
Stage     == {"idle", "queued"} \cup Active \cup Terminal

TypeOK ==
  /\ main \in Sha /\ live \in State /\ managed \subseteq Obj
  /\ now \in Nat /\ events \in Nat /\ contract \in Nat
  /\ review \in [Sha -> ReviewState]
  /\ qual \in [sha : Sha, expires : Nat]
  /\ holder \in Run \cup {NoRun} /\ waiting \in Run \cup {NoRun}
  /\ stage \in [Run -> Stage]
  /\ entry \in [Run -> {"gate", "plan-identity", "approval"}]
  /\ input \in [Run -> Input]
  /\ attempt \in [Run -> Attempt]
  /\ gate \in [Run -> Gate]
  /\ evidence \in [Run -> [Attempt -> Evidence]]
  /\ approved \subseteq Permit
  /\ runner \in Runner
  /\ diag \subseteq [permit : Permit, status : {"succeeded", "failed"}, unverified : BOOLEAN]
  /\ consumed \subseteq Permit /\ opened \subseteq Permit /\ wrote \subseteq Permit

Init ==
  /\ main = 1 /\ live \in InitialLive /\ managed \in InitialManaged
  /\ now = 0 /\ review \in InitialReview /\ contract = 0
  /\ qual = [sha |-> 1, expires |-> QualLife] /\ events = MaxEvents
  /\ holder = NoRun /\ waiting = NoRun
  /\ stage = [r \in Run |-> "idle"] /\ entry = [r \in Run |-> "gate"]
  /\ input = [r \in Run |-> [sha |-> 1, phase |-> "adopt", exception |-> FALSE,
                             risk |-> FALSE, analysis |-> {}]]
  /\ attempt = [r \in Run |-> 1]
  /\ gate = [r \in Run |-> [contract |-> 0, wif |-> 0, mode |-> "blocked"]]
  /\ evidence = [r \in Run |-> [a \in Attempt |-> NoEvidence]]
  /\ approved = {} /\ runner = Fresh(0)
  /\ diag = {} /\ consumed = {} /\ opened = {} /\ wrote = {}

-----------------------------------------------------------------------------
(* The world outside the workflow.                                         *)

Outside == UNCHANGED <<queue, runs, runner, log>>
Disturb == events > 0 /\ events' = events - 1

\* Another pull request merges.
AdvanceMain ==
  /\ main < MaxSha /\ main' = main + 1
  /\ Outside /\ UNCHANGED <<live, managed, now, review, contract, qual, events>>

\* Someone edits the organization by hand.
OutsideEdit(o, v) ==
  /\ Disturb /\ v # live[o] /\ live' = [live EXCEPT ![o] = v]
  /\ Outside /\ UNCHANGED <<main, managed, now, review, contract, qual>>

\* A review is dismissed, or a reviewer requests changes after the merge.
WithdrawReview(s) ==
  /\ Disturb /\ review[s] # "blocked" /\ review' = [review EXCEPT ![s] = "blocked"]
  /\ Outside /\ UNCHANGED <<main, live, managed, now, contract, qual>>

\* An administrator changes the identity, backend or App variables.
RotateContract ==
  /\ Disturb /\ contract' = contract + 1
  /\ Outside /\ UNCHANGED <<main, live, managed, now, review, qual>>

\* Bootstrap publishes a fresh WIF qualification for the current revision.
Qualify ==
  /\ qual' = [sha |-> main, expires |-> now + QualLife] /\ qual' # qual
  /\ Outside /\ UNCHANGED <<main, live, managed, now, review, contract, events>>

\* Mutant: the jobs declare no timeout-minutes.
NeverOverdue == FALSE

Overdue == holder \in Run /\ stage[holder] \in Running /\ now >= runner.since + JobTimeout

\* A job never outlives timeout-minutes, so the clock waits for an overdue one.
Tick ==
  /\ now < MaxTime /\ ~Overdue /\ now' = now + 1
  /\ Outside /\ UNCHANGED <<main, live, managed, review, contract, qual, events>>

-----------------------------------------------------------------------------
(* Dispatch, the concurrency group and re-runs.                            *)

\* Mutant: the replaced run is never cancelled.
EnqueueKeepingBoth(r, st) == waiting' = r /\ stage' = [stage EXCEPT ![r] = st]

\* One run holds the group and one waits; a newer one replaces the waiting one.
Enqueue(r, st) ==
  /\ waiting' = r
  /\ stage' = [q \in Run |-> IF q = r THEN st ELSE
                            IF q = waiting THEN "superseded" ELSE stage[q]]

\* The event's sha is main at dispatch.  A dependency analysis names the plan
\* the dispatcher foresees by its digest.
Dispatch(r, offer, analysed) ==
  /\ stage[r] = "idle"
  /\ input' = [input EXCEPT ![r] =
       [sha |-> main, phase |-> offer.phase, exception |-> offer.exception,
        risk |-> offer.risk,
        analysis |-> IF analysed THEN PlanOf(live, live, managed, main, offer.phase) ELSE {}]]
  /\ Enqueue(r, "queued")
  /\ UNCHANGED <<world, events, holder, entry, attempt, gate, evidence, approved, runner, log>>

\* "Re-run all jobs" starts at the gate; "re-run failed jobs" starts at the job
\* that failed and keeps the outputs of the ones that passed.
Rerun(r, all) ==
  /\ stage[r] \in Terminal /\ attempt[r] < MaxAttempt
  /\ all \/ stage[r] # "succeeded"
  /\ attempt' = [attempt EXCEPT ![r] = @ + 1]
  /\ entry' = [entry EXCEPT ![r] = IF all THEN "gate" ELSE @]
  /\ Enqueue(r, "queued")
  /\ UNCHANGED <<world, events, holder, input, gate, evidence, approved, runner, log>>

\* Mutant: the workflow has no concurrency group.
StartUngrouped(r) ==
  /\ waiting = r /\ stage[r] = "queued"
  /\ holder' = r /\ waiting' = NoRun
  /\ stage' = [stage EXCEPT ![r] = entry[r]]
  /\ runner' = Fresh(now)
  /\ UNCHANGED <<world, events, entry, input, attempt, gate, evidence, approved, log>>

Start(r) ==
  /\ holder = NoRun /\ waiting = r /\ stage[r] = "queued"
  /\ holder' = r /\ waiting' = NoRun
  /\ stage' = [stage EXCEPT ![r] = entry[r]]
  /\ runner' = Fresh(now)
  /\ UNCHANGED <<world, events, entry, input, attempt, gate, evidence, approved, log>>

\* The run ends in stage t; its next attempt may start again at job e.
Conclude(r, t, e) ==
  /\ stage' = [stage EXCEPT ![r] = t] /\ entry' = [entry EXCEPT ![r] = e]
  /\ holder' = NoRun /\ UNCHANGED waiting

-----------------------------------------------------------------------------
(* The source gate, the plan job and the approval.                         *)

ReviewPasses(in) ==
  IF in.exception
    THEN review[in.sha] = "founder" /\ in.phase = "foundation" /\ now <= FounderExpiry
    ELSE review[in.sha] = "independent"

Qualified(expires) == now < expires /\ expires <= now + QualLife

GatePasses(r) ==
  LET in == input[r] IN
  /\ ReviewPasses(in)
  /\ in.phase = "adopt" => ~in.risk /\ in.analysis = {}
  /\ qual.sha = in.sha /\ Qualified(qual.expires)
  /\ main = in.sha

IdentityPasses(r) == contract = gate[r].contract /\ Qualified(gate[r].wif)

\* Mutant: the plan trusts the observation (-refresh=false).
UnrefreshedPlan(r) == PlanOf(runner.obs, runner.obs, managed, Sought(r), input[r].phase)

\* OpenTofu refreshes from the live organization, later than the observation.
FreshPlan(r) == PlanOf(runner.obs, live, managed, Sought(r), input[r].phase)

\* An update needs its object and a creation needs it missing.
Doable(c) == (c.before = Absent) <=> (live[c.obj] = Absent)
Undone == Effects(runner.plan) \ runner.done

\* Mutant: only the addresses of the two plans are compared.
SameAddresses(r) == {c.obj : c \in FreshPlan(r)} = {c.obj : c \in Reviewed(r).plan}

\* cmp of the reviewed and the recomputed plan digest.
SamePlan(r) == FreshPlan(r) = Reviewed(r).plan

\* Mutant: the exception's expiry is left to the source gate.
ReceiptOfAnyAge(r) == TRUE

\* A founder receipt is refused after the exception expires.
ReceiptUnexpired(r) == gate[r].mode = "founder" => now <= FounderExpiry

\* Mutant: exit code 2, changes still pending, is taken for success.
ConvergedOrPending(r) == TRUE

\* tofu plan -detailed-exitcode with the same variables and targets.
Converged(r) == IF input[r].phase = "adopt"
                  THEN \A c \in runner.plan : live[c.obj] = c.after
                  ELSE Effects(FreshPlan(r)) = {}

\* What each step requires of the world to succeed.
Holds(r) ==
  /\ stage[r] = "gate" => GatePasses(r)
  /\ stage[r] = "plan-identity" => IdentityPasses(r)
  /\ stage[r] \in {"plan-observe", "reobserve"} => PreflightPasses(input[r], live)
  /\ stage[r] = "plan-create" => /\ Plannable(FreshPlan(r), input[r].phase)
                                 /\ Eligible(input[r], FreshPlan(r))
  /\ stage[r] = "apply-identity" => /\ IdentityPasses(r)
                                    /\ main = Sought(r)
                                    /\ Current(Reviewed(r), now)
  /\ stage[r] = "verify" => Current(Reviewed(r), now)
  /\ stage[r] = "replan" => SamePlan(r) /\ ReceiptUnexpired(r)
  /\ stage[r] = "compare" => /\ Eligible(input[r], runner.plan)
                             /\ runner.obs = Reviewed(r).obs
  /\ stage[r] = "expiry" => now < Reviewed(r).expires
  /\ stage[r] = "source" => main = Sought(r)
  /\ stage[r] = "apply" => \A c \in Undone : Doable(c)
  /\ stage[r] = "provider" => Converged(r)
  /\ stage[r] = "live" => PreflightPasses(input[r], live)

\* Step from of run r succeeds and hands over to step to.
Step(r, from, to) == stage[r] = from /\ Holds(r) /\ stage' = [stage EXCEPT ![r] = to]
Same == UNCHANGED <<world, events, queue, entry, input, attempt>>

\* Reviews are read before main; nothing later reads either again in this job,
\* so a change in between is one that comes right after.
PassGate(r) ==
  /\ Step(r, "gate", "plan-identity")
  /\ gate' = [gate EXCEPT ![r] = [contract |-> contract, wif |-> qual.expires,
                                  mode |-> IF input[r].exception THEN "founder" ELSE "independent"]]
  /\ runner' = Fresh(now)
  /\ Same /\ UNCHANGED <<evidence, approved, log>>

PlanIdentity(r) ==
  /\ Step(r, "plan-identity", "plan-observe")
  /\ Same /\ UNCHANGED <<gate, evidence, approved, runner, log>>

PlanObserve(r) ==
  /\ Step(r, "plan-observe", "plan-create") /\ runner' = [runner EXCEPT !.obs = live]
  /\ Same /\ UNCHANGED <<gate, evidence, approved, log>>

\* The plan is classified, bound into evidence, signed and uploaded under
\* this run attempt; the runner and its binary plan are gone afterwards.
PlanCreate(r) ==
  /\ Step(r, "plan-create", "approval")
  /\ evidence' = [evidence EXCEPT ![r][attempt[r]] =
       [signed |-> TRUE, plan |-> FreshPlan(r), obs |-> runner.obs,
        created |-> now, expires |-> now + EvidenceLife]]
  /\ Same /\ UNCHANGED <<gate, approved, runner, log>>

\* The infrastructure-apply environment: a reviewer releases or rejects the job.
Approve(r) ==
  /\ Step(r, "approval", "apply-identity")
  /\ approved' = approved \cup {<<r, attempt[r]>>} /\ runner' = Fresh(now)
  /\ Same /\ UNCHANGED <<gate, evidence, log>>

Reject(r) ==
  /\ stage[r] = "approval" /\ Conclude(r, "failed", "approval")
  /\ UNCHANGED <<world, events, input, attempt, gate, evidence, approved, runner, log>>

-----------------------------------------------------------------------------
(* The apply job: authenticate the evidence, recompute, compare, apply.    *)

ThisPermit(r) == <<r, attempt[r]>>
Kept == UNCHANGED <<gate, evidence, approved>>

ApplyIdentity(r) ==
  /\ Step(r, "apply-identity", "verify") /\ Same /\ Kept /\ UNCHANGED <<runner, log>>

VerifyEvidence(r) ==
  /\ Step(r, "verify", "reobserve") /\ Same /\ Kept /\ UNCHANGED <<runner, log>>

Reobserve(r) ==
  /\ Step(r, "reobserve", "replan") /\ runner' = [runner EXCEPT !.obs = live]
  /\ Same /\ Kept /\ UNCHANGED log

\* The recomputed plan has the reviewed digest; a founder receipt is consumed
\* by a marker file of this runner.
Replan(r) ==
  /\ Step(r, "replan", "compare")
  /\ runner' = [runner EXCEPT !.plan = FreshPlan(r), !.replanned = events]
  /\ consumed' = IF gate[r].mode = "founder" THEN consumed \cup {ThisPermit(r)} ELSE consumed
  /\ Same /\ Kept /\ UNCHANGED <<diag, opened, wrote>>

CompareEvidence(r) ==
  /\ Step(r, "compare", "expiry") /\ Same /\ Kept /\ UNCHANGED <<runner, log>>

CheckExpiry(r) ==
  /\ Step(r, "expiry", "source") /\ Same /\ Kept /\ UNCHANGED <<runner, log>>

\* The last look at main, then the started marker.
CheckSource(r) ==
  /\ Step(r, "source", "apply")
  /\ runner' = [runner EXCEPT !.started = TRUE] /\ opened' = opened \cup {ThisPermit(r)}
  /\ Same /\ Kept /\ UNCHANGED <<diag, consumed, wrote>>

\* tofu apply of the local saved plan, one object at a time in any order.
ApplyChange(r, c) ==
  /\ stage[r] = "apply" /\ c \in Undone /\ Doable(c)
  /\ live' = IF c.before = c.after THEN live ELSE [live EXCEPT ![c.obj] = c.after]
  /\ wrote' = IF live' = live THEN wrote ELSE wrote \cup {ThisPermit(r)}
  /\ runner' = [runner EXCEPT !.done = @ \cup {c}]
  /\ UNCHANGED <<main, managed, now, review, contract, qual, events, queue, runs,
                 diag, consumed, opened>>

FinishApply(r) ==
  /\ Step(r, "apply", "provider") /\ Undone = {}
  /\ managed' = Recorded(managed, runner.done)
  /\ Kept /\ UNCHANGED <<main, live, now, review, contract, qual, events, queue,
                         entry, input, attempt, runner, log>>

CheckProvider(r) ==
  /\ Step(r, "provider", "live") /\ runner' = [runner EXCEPT !.checked = events]
  /\ Same /\ Kept /\ UNCHANGED log

CheckLive(r) ==
  /\ Step(r, "live", "receipt") /\ Same /\ Kept /\ UNCHANGED <<runner, log>>

WriteReceipt(r) ==
  /\ Step(r, "receipt", "diagnose") /\ runner' = [runner EXCEPT !.outcome = "success"]
  /\ Same /\ Kept /\ UNCHANGED log

\* Mutant: only a failed apply is flagged, not a cancelled one.
DiagnoseFailuresOnly(r) ==
  LET ok == runner.outcome = "success" IN
  /\ stage[r] = "diagnose"
  /\ \/ runner.outcome = "skipped" /\ diag' = diag
     \/ diag' = diag \cup {[permit |-> ThisPermit(r),
                            status |-> IF ok THEN "succeeded" ELSE "failed",
                            unverified |-> runner.started /\ runner.outcome = "failure"]}
  /\ Conclude(r, IF ok THEN "succeeded" ELSE "failed", IF ok THEN "gate" ELSE "approval")
  /\ UNCHANGED <<world, events, input, attempt, gate, evidence, approved, runner,
                 consumed, opened, wrote>>

\* Mutant: the step outcome is published as the status.
DiagnoseRawOutcome(r) ==
  /\ stage[r] = "diagnose"
  /\ diag' = diag \cup {[permit |-> ThisPermit(r), status |-> runner.outcome,
                         unverified |-> runner.started /\ runner.outcome # "success"]}
  /\ Conclude(r, "failed", "approval")
  /\ UNCHANGED <<world, events, input, attempt, gate, evidence, approved, runner,
                 consumed, opened, wrote>>

\* The terminal diagnostic.  When the attempt never began it is not uploaded if
\* an identity step failed, and is if the step after them did.
Diagnose(r) ==
  LET ok == runner.outcome = "success" IN
  /\ stage[r] = "diagnose"
  /\ \/ runner.outcome = "skipped" /\ diag' = diag
     \/ diag' = diag \cup {[permit |-> ThisPermit(r),
                            status |-> IF ok THEN "succeeded" ELSE "failed",
                            unverified |-> runner.started /\ ~ok]}
  /\ Conclude(r, IF ok THEN "succeeded" ELSE "failed", IF ok THEN "gate" ELSE "approval")
  /\ UNCHANGED <<world, events, input, attempt, gate, evidence, approved, runner,
                 consumed, opened, wrote>>

-----------------------------------------------------------------------------
(* Failure, cancellation, timeout and loss of the runner.                  *)

\* OpenTofu saves what it did to the state even when it stops early.
StopApply(r) ==
  managed' = IF stage[r] = "apply" THEN Recorded(managed, runner.done) ELSE managed

\* Only the apply job has always() steps; the others end the run.
Stop(r, outcome) ==
  IF stage[r] = "gate" \/ stage[r] \in PlanJob \/ stage[r] = "approval"
    THEN /\ Conclude(r, "failed", IF stage[r] = "gate" THEN "gate" ELSE
                                  IF stage[r] = "approval" THEN "approval" ELSE "plan-identity")
         /\ UNCHANGED runner
    ELSE /\ stage' = [stage EXCEPT ![r] = "diagnose"]
         /\ runner' = [runner EXCEPT !.outcome =
                         IF stage[r] = "apply-identity" THEN "skipped" ELSE outcome]
         /\ UNCHANGED <<entry, queue>>

\* A step fails because what it requires does not hold, or on its own.
Fail(r) ==
  /\ stage[r] \in Running \ {"diagnose"}
  /\ IF Holds(r) THEN Disturb ELSE UNCHANGED events
  /\ Stop(r, "failure") /\ StopApply(r)
  /\ UNCHANGED <<main, live, now, review, contract, qual,
                 input, attempt, gate, evidence, approved, log>>

\* An operator cancels the run, or the job reaches its timeout-minutes.
Interrupt(r) ==
  /\ stage[r] \in Active \ {"diagnose"}
  /\ IF Overdue THEN UNCHANGED events ELSE Disturb
  /\ Stop(r, "cancelled") /\ StopApply(r)
  /\ UNCHANGED <<main, live, now, review, contract, qual,
                 input, attempt, gate, evidence, approved, log>>

\* The runner dies: no further step runs, nothing is uploaded, and what was
\* being applied may or may not have reached the OpenTofu state.
LoseRunner(r) ==
  /\ stage[r] \in Running /\ Disturb
  /\ managed' = managed \/ StopApply(r)
  /\ Conclude(r, "failed", IF stage[r] = "gate" THEN "gate" ELSE
                           IF stage[r] \in PlanJob THEN "plan-identity" ELSE "approval")
  /\ UNCHANGED <<main, live, now, review, contract, qual,
                 input, attempt, gate, evidence, approved, runner, log>>

-----------------------------------------------------------------------------
World == \/ AdvanceMain \/ RotateContract \/ Qualify \/ Tick
         \/ \E o \in Obj, v \in Val : OutsideEdit(o, v)
         \/ \E s \in Sha : WithdrawReview(s)

GateAndPlan(r) == PassGate(r) \/ PlanIdentity(r) \/ PlanObserve(r) \/ PlanCreate(r)

Recompute(r) == \/ ApplyIdentity(r) \/ VerifyEvidence(r) \/ Reobserve(r) \/ Replan(r)
                \/ CompareEvidence(r) \/ CheckExpiry(r) \/ CheckSource(r)

Mutate(r) == \/ \E c \in runner.plan : ApplyChange(r, c)
             \/ FinishApply(r) \/ CheckProvider(r) \/ CheckLive(r)
             \/ WriteReceipt(r) \/ Diagnose(r)

\* What GitHub's runners do by themselves, failing steps included.
Progress(r) == Start(r) \/ GateAndPlan(r) \/ Recompute(r) \/ Mutate(r) \/ Fail(r)

Next ==
  \/ World
  \/ \E r \in Run :
       \/ \E f \in Offer, a \in BOOLEAN : Dispatch(r, f, a)
       \/ \E all \in BOOLEAN : Rerun(r, all)
       \/ Approve(r) \/ Reject(r) \/ Progress(r)
       \/ Interrupt(r) \/ LoseRunner(r)

Spec == Init /\ [][Next]_vars

\* Runners keep working, and an unanswered approval is rejected by GitHub
\* after thirty days; nobody has to dispatch, approve or re-run anything.
Fairness == \A r \in Run : WF_vars(Progress(r)) /\ WF_vars(Approve(r) \/ Reject(r))
FairSpec == Spec /\ Fairness

-----------------------------------------------------------------------------
(* Properties.                                                             *)

\* The concurrency group admits one run at a time, an approval it waits for
\* included, whatever is dispatched, re-run, superseded, lost or cancelled.
OneRunAtATime == \A r \in Run : stage[r] \in Active => r = holder

\* An object changes only by hand or by a change the evidence signed in this
\* very run attempt lists, although the plan applied was computed much later.
ReviewedWritesOnly ==
  [][\A o \in Obj : live'[o] # live[o] =>
       \/ events' < events
       \/ /\ holder \in Run /\ Reviewed(holder).signed
          /\ \E c \in Undone \cap Reviewed(holder).plan : c.obj = o /\ c.after = live'[o]]_vars

\* The workflow never makes a prohibited change, never changes an object under
\* adopt, and expands a privilege or removes an object only as acknowledged.
AuthorisedWritesOnly ==
  [][\A o \in Obj : live'[o] # live[o] =>
       \/ events' < events
       \/ \E c \in Writes(Reviewed(holder).plan) :
            /\ c.obj = o /\ c.after = live'[o] /\ c \notin Prohibited
            /\ input[holder].phase # "adopt"
            /\ c \in Expanding => input[holder].risk
            /\ c \in Removals(Reviewed(holder).plan) =>
                 input[holder].analysis = Reviewed(holder).plan]_vars

\* Expired evidence cannot be applied, except that a job that checked it in
\* time may still be writing until its own timeout-minutes run out.
LateWriteBound ==
  [][live' # live /\ events' = events =>
       now < Reviewed(holder).expires + JobTimeout]_vars

\* If nothing disturbed the world since the plan was recomputed, every write
\* replaces exactly the value the plan showed.
LastLook ==
  [][\A o \in Obj :
       live'[o] # live[o] /\ events' = events /\ events = runner.replanned =>
         \E c \in Undone : c.obj = o /\ c.before = live[o] /\ c.after = live'[o]]_vars

\* A published diagnostic of an attempt that changed an object says either that
\* the attempt succeeded or that the mutation is unverified.
DiagnosticHonest ==
  \A d \in diag : d.permit \in wrote => d.status = "succeeded" \/ d.unverified

\* A run that reports success, in a world undisturbed since its provider check,
\* leaves every object it planned to keep as planned and, beyond adopt, nothing
\* to do.  A removed object that someone recreates before that check is no
\* longer in the OpenTofu state and goes unnoticed.
SuccessMeansConverged ==
  \A r \in Run :
    stage[r] = "diagnose" /\ runner.outcome = "success" /\ runner.checked = events =>
      /\ \A c \in Reviewed(r).plan : c.after # Absent => live[c.obj] = c.after
      /\ input[r].phase # "adopt" => Effects(FreshPlan(r)) = {}

\* An object changes under the founder exception only after the attempt's own
\* receipt was consumed, and no later than a job that consumed it in time may
\* run, however late the approval came and whatever was re-run.
FounderWriteBound ==
  [][live' # live /\ events' = events /\ gate[holder].mode = "founder" =>
       ThisPermit(holder) \in consumed /\ now <= FounderExpiry + JobTimeout]_vars

\* Every queued run ends: succeeded, failed, or superseded while it waited.
RunsConclude == \A r \in Run : stage[r] = "queued" ~> stage[r] \in Terminal

-----------------------------------------------------------------------------
(* The inductive strengthening the proofs use.                             *)

Compared == {"expiry", "source", "apply", "provider", "live", "receipt"}
Recomputed == {"compare"} \cup Compared
Mutating == {"apply", "provider", "live", "receipt"}
Unfinished == {"idle", "queued"} \cup Active

\* What the apply job knows of the evidence at each of its steps.
KnowsEvidence(r) ==
  /\ stage[r] \in Attempted => Reviewed(r).signed /\ runner.since < Reviewed(r).expires
  /\ stage[r] \in Recomputed => runner.plan = Reviewed(r).plan
  /\ stage[r] \in Recomputed /\ gate[r].mode = "founder" =>
       ThisPermit(r) \in consumed /\ runner.since <= FounderExpiry
  /\ stage[r] \in Compared => Eligible(input[r], runner.plan)
EvidenceBound == \A r \in Run : KnowsEvidence(r)

\* A running job is within its timeout.
WithinTimeout ==
  \A r \in Run : stage[r] \in Running => runner.since <= now /\ now <= runner.since + JobTimeout

\* A permit appears in the histories only once its attempt gets there.
Logged(r) ==
  /\ \A a \in Attempt : a > attempt[r] =>
       <<r, a>> \notin wrote /\ \A d \in diag : d.permit # <<r, a>>
  /\ stage[r] \in Unfinished => \A d \in diag : d.permit # ThisPermit(r)
  /\ stage[r] \in Unfinished /\ ThisPermit(r) \in wrote =>
       stage[r] \in Mutating \cup {"diagnose"} /\ runner.started
  /\ stage[r] \in Mutating => runner.started
LogBound == \A r \in Run : Logged(r)

Inductive == OneRunAtATime /\ EvidenceBound /\ WithinTimeout /\ LogBound /\ DiagnosticHonest

-----------------------------------------------------------------------------
(* Refinement: a permit is a run attempt, its window the apply step.        *)

Bindings == {[permit |-> p, sha |-> Sought(p[1]), plan |-> evidence[p[1]][p[2]].plan] :
               p \in {q \in Permit : evidence[q[1]][q[2]].signed}}
Applying == {r \in Run : stage[r] = "apply"}

Governed == INSTANCE GovernedChange WITH
  NoPermit <- NoRun, reviewed <- Bindings, spent <- opened,
  window <- IF Applying = {} THEN NoRun ELSE ThisPermit(holder)

\* Whatever happens around it, the workflow changes the organization only
\* through windows that GovernedChange allows.
ChangesAreGoverned == Governed!Spec

=============================================================================
