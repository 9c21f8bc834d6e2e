------------------------- MODULE DriftDetection_proofs -------------------------
(***************************************************************************)
(* Proofs about DriftDetection for any number of runs, issues and          *)
(* disturbances, any lag of the search index and either rollout phase.     *)
(***************************************************************************)
EXTENDS DriftDetection, WellFoundedInduction, TLAPS

-----------------------------------------------------------------------------
(* The inductive invariant                                                 *)

Occupied == {"critical", "diagnose"} \cup JobStep \cup ReportStep

\* The run in a job holds the concurrency group; the waiting run is queued.
GroupBound ==
  /\ \A r \in Run : stage[r] \in Occupied => r = holder
  /\ waiting # NoRun => stage[waiting] = "queued"

\* Only full runs get past the critical check.
KindBound == \A r \in Run : stage[r] \in Occupied \ {"critical"} => kind[r] = "full"

\* What a run has found out about the organization and about the issues.
KnownBound ==
  /\ job.broken = "none" /\ job.diff = 0 => job.saw = "enforced"
  /\ job.broken # "none" => job.how # "success"
  /\ \A i \in indexed : issue[i] # "none"
  /\ job.known \subseteq indexed

Satisfied == job.broken = "none" /\ {job.preflight, job.diff, job.doctor, job.provider} = {0}

\* What the steps of the report job rely on of the steps before.
ReportBound ==
  \A r \in Run :
    /\ stage[r] \in ReportStep /\ result = "success" => Satisfied
    /\ stage[r] = "close" => result = "success"
    /\ stage[r] \in {"update", "edit", "create"} => result # "success"
    /\ stage[r] \in {"view", "update", "edit", "close"} =>
         job.found \in Issue /\ issue[job.found] # "none"
    /\ stage[r] = "create" => job.found = 0 /\ job.known = {}
    /\ stage[r] \in ReportStep \ {"search"} => events <= job.searched
    /\ stage[r] = "edit" /\ job.searched = events => issue[job.found] = "OPEN"

DriftInv == DriftTypeOK /\ GroupBound /\ KindBound /\ KnownBound /\ ReportBound

-----------------------------------------------------------------------------
(* Helpers                                                                 *)

\* A non-empty set of numbers has a least one.
LEMMA Least ==
  ASSUME NEW T, T \subseteq Nat, T # {}
  PROVE  \E x \in T : \A y \in T : x <= y
<1>1. \E x \in T : \A y \in T : ~(<<y, x>> \in OpToRel(<, Nat))
  BY NatLessThanWellFounded, WFMin, Zenon
<1>2. PICK x \in T : \A y \in T : ~(<<y, x>> \in OpToRel(<, Nat))
  BY <1>1
<1>3. \A y \in T : ~(y < x)
  BY <1>2 DEF OpToRel
<1>4. QED
  BY <1>3

\* The search returns an issue the index holds, or nothing when it holds none.
LEMMA FindFinds ==
  ASSUME indexed \subseteq Issue
  PROVE  /\ indexed = {} => Find = 0
         /\ indexed # {} => Find \in indexed /\ Find # 0
<1>1. CASE indexed = {}
  BY <1>1 DEF Find, Smallest
<1>2. CASE indexed # {}
  <2>1. indexed \subseteq Nat /\ \A i \in indexed : i # 0
    BY ConstantsAssumption DEF Issue
  <2>2. \E i \in indexed : \A k \in indexed : i <= k
    BY <1>2, <2>1, Least
  <2>3. Find = CHOOSE i \in indexed : \A k \in indexed : i <= k
    BY <1>2 DEF Find, Smallest
  <2>4. QED
    BY <1>2, <2>1, <2>2, <2>3
<1>3. QED
  BY <1>1, <1>2

\* The stages are all different.
LEMMA Stages ==
  /\ Stage = {"idle", "queued", "critical", "diagnose", "done", "superseded", "setup",
              "authorities", "observe", "provider", "search", "view", "update", "close", "edit", "create"}
  /\ Occupied = {"critical", "diagnose", "setup", "authorities", "observe", "provider",
                 "search", "view", "update", "close", "edit", "create"}
BY DEF Stage, Occupied, JobStep, ReportStep

\* A fresh job, as Start makes it and Finish leaves it.
LEMMA FreshJob ==
  ASSUME NEW known, known \subseteq Issue
  PROVE  /\ NewJob(known) \in Job
         /\ NewJob(known).known = known /\ NewJob(known).saw = "enforced"
         /\ NewJob(known).broken = "none"
BY ConstantsAssumption DEF NewJob, Job, Outcome, Exit, Org, JobStep

\* The exit codes of the tools.
LEMMA Exits ==
  ASSUME NEW o \in Org
  PROVE  /\ DiffExit(o) \in Exit /\ PreflightExits(o) \subseteq Exit
         /\ DoctorExits(o) \subseteq Exit /\ ProviderExits(o) \subseteq Exit
         /\ DiffExit(o) = 0 => o = "enforced"
BY DEF DiffExit, PreflightExits, DoctorExits, ProviderExits, Exit

-----------------------------------------------------------------------------
LEMMA DriftInit == Init => DriftInv
<1> SUFFICES ASSUME Init PROVE DriftInv
  OBVIOUS
<1>1. job \in Job /\ job.known = {} /\ job.saw = "enforced" /\ job.broken = "none"
  BY FreshJob DEF Init
<1>2. DriftTypeOK
  BY <1>1, ConstantsAssumption DEF Init, DriftTypeOK, Stage, Kind, Outcome
<1>3. \A r \in Run : stage[r] = "idle"
  BY DEF Init
<1>4. GroupBound /\ KindBound /\ ReportBound
  BY <1>3, Stages DEF Init, GroupBound, KindBound, ReportBound, ReportStep
<1>5. KnownBound
  BY <1>1 DEF Init, KnownBound
<1>6. QED
  BY <1>2, <1>4, <1>5 DEF DriftInv

\* A change of the world: the run in a report may have to search again.
LEMMA StepWorld ==
  ASSUME DriftInv,
         (\E o \in Org : ChangeOrg(o)) \/ (\E i \in Issue : TouchIssue(i) \/ Index(i))
  PROVE  DriftInv'
<1>1. /\ stage' = stage /\ kind' = kind /\ job' = job /\ result' = result /\ diag' = diag
      /\ holder' = holder /\ waiting' = waiting
  BY DEF ChangeOrg, TouchIssue, Index, Outside, queue
<1>2. /\ org' \in Org /\ events' \in Nat /\ issue' \in [Issue -> {"none", "OPEN", "CLOSED"}]
      /\ indexed' \subseteq Issue /\ indexed \subseteq indexed'
      /\ \A i \in Issue : issue'[i] # "none" <=> issue[i] # "none"
      /\ \A i \in indexed' : issue'[i] # "none"
      /\ events' < events \/ (events' = events /\ issue' = issue)
  <2>1. CASE \E o \in Org : ChangeOrg(o)
    BY <2>1 DEF ChangeOrg, Disturb, DriftInv, DriftTypeOK, KnownBound
  <2>2. CASE \E i \in Issue : TouchIssue(i)
    BY <2>2 DEF TouchIssue, Disturb, DriftInv, DriftTypeOK, KnownBound
  <2>3. CASE \E i \in Issue : Index(i)
    BY <2>3 DEF Index, DriftInv, DriftTypeOK, KnownBound
  <2>4. QED
    BY <2>1, <2>2, <2>3
<1>3. DriftTypeOK'
  BY <1>1, <1>2 DEF DriftInv, DriftTypeOK
<1>4. GroupBound' /\ KindBound' /\ KnownBound'
  BY <1>1, <1>2 DEF DriftInv, GroupBound, KindBound, KnownBound
<1>5. ReportBound'
  <2>1. job.searched \in Nat /\ events \in Nat
    BY DEF DriftInv, DriftTypeOK, Job
  <2>2. QED
    BY <1>1, <1>2, <2>1, Stages DEF DriftInv, ReportBound, Satisfied, ReportStep
<1>6. QED
  BY <1>3, <1>4, <1>5 DEF DriftInv

\* A run waits, or replaces the run that waits; it starts.
LEMMA StepQueue ==
  ASSUME DriftInv, NEW r \in Run, (\E k \in Kind : Schedule(r, k)) \/ Start(r)
  PROVE  DriftInv'
<1>1. CASE \E k \in Kind : Schedule(r, k)
  <2>1. PICK k \in Kind : Schedule(r, k)
    BY <1>1
  <2>2. /\ stage[r] = "idle" /\ kind' = [kind EXCEPT ![r] = k] /\ waiting' = r
        /\ stage' = [q \in Run |-> IF q = r THEN "queued" ELSE
                                   IF q = waiting THEN "superseded" ELSE stage[q]]
        /\ org' = org /\ issue' = issue /\ indexed' = indexed /\ events' = events
        /\ holder' = holder /\ job' = job /\ result' = result /\ diag' = diag
    BY <2>1 DEF Schedule, world
  <2>3. /\ stage' \in [Run -> Stage] /\ kind' \in [Run -> Kind]
        /\ \A q \in Run : stage'[q] \in Occupied => stage'[q] = stage[q] /\ kind'[q] = kind[q]
        /\ stage'[r] = "queued"
    BY <2>2, Stages DEF DriftInv, DriftTypeOK
  <2>4. DriftTypeOK'
    BY <2>2, <2>3 DEF DriftInv, DriftTypeOK
  <2>5. GroupBound' /\ KindBound' /\ KnownBound'
    BY <2>2, <2>3 DEF DriftInv, GroupBound, KindBound, KnownBound
  <2>6. ReportBound'
    <3>1. \A q \in Run : stage'[q] \in ReportStep => stage'[q] = stage[q]
      BY <2>3 DEF Occupied
    <3>2. QED
      BY <2>2, <3>1 DEF DriftInv, ReportBound, Satisfied, ReportStep
  <2>7. QED
    BY <2>4, <2>5, <2>6 DEF DriftInv
<1>2. CASE Start(r)
  <2>1. /\ holder = NoRun /\ waiting = r /\ stage[r] = "queued"
        /\ holder' = r /\ waiting' = NoRun /\ job' = NewJob(indexed)
        /\ stage' = [stage EXCEPT ![r] = IF kind[r] = "hourly" THEN "critical" ELSE "setup"]
        /\ org' = org /\ issue' = issue /\ indexed' = indexed /\ events' = events
        /\ kind' = kind /\ result' = result /\ diag' = diag
    BY <1>2 DEF Start, world
  <2>2. \A q \in Run : stage[q] \notin Occupied
    BY <2>1, ConstantsAssumption DEF DriftInv, GroupBound
  <2>3. job' \in Job /\ job'.known = indexed /\ job'.saw = "enforced" /\ job'.broken = "none"
    BY <2>1, FreshJob DEF DriftInv, DriftTypeOK
  <2>4. /\ stage' \in [Run -> Stage] /\ stage'[r] \in {"critical", "setup"}
        /\ stage'[r] = "setup" => kind[r] = "full"
        /\ \A q \in Run : q # r => stage'[q] \notin Occupied
    BY <2>1, <2>2, Stages DEF DriftInv, DriftTypeOK, Kind
  <2>5. DriftTypeOK'
    BY <2>1, <2>3, <2>4 DEF DriftInv, DriftTypeOK
  <2>6. GroupBound' /\ KindBound' /\ KnownBound'
    BY <2>1, <2>3, <2>4 DEF DriftInv, GroupBound, KindBound, KnownBound
  <2>7. ReportBound'
    BY <2>4 DEF ReportBound, Occupied, ReportStep
  <2>8. QED
    BY <2>5, <2>6, <2>7 DEF DriftInv
<1>3. QED
  BY <1>1, <1>2

-----------------------------------------------------------------------------
(* The running job                                                         *)

\* A run that ends leaves nobody in a job.
LEMMA Ends ==
  ASSUME DriftInv, NEW r \in Run, stage[r] \in Occupied, Finish(r),
         org' = org, indexed' = indexed, kind' = kind, events' \in Nat,
         issue' \in [Issue -> {"none", "OPEN", "CLOSED"}],
         \A i \in Issue : issue[i] # "none" => issue'[i] # "none",
         diag' \subseteq [status : {"clean", "drift", "operational_error"}, result : Outcome]
  PROVE  DriftInv'
<1>1. /\ stage' = [stage EXCEPT ![r] = "done"] /\ holder' = NoRun /\ waiting' = waiting
      /\ job' = NewJob({}) /\ result' = "success"
  BY DEF Finish, GoTo
<1>2. job' \in Job /\ job'.known = {} /\ job'.saw = "enforced" /\ job'.broken = "none"
  BY <1>1, FreshJob
<1>3. /\ stage' \in [Run -> Stage] /\ stage'[r] = "done"
      /\ \A q \in Run : q # r => stage'[q] = stage[q] /\ stage'[q] \notin Occupied
  BY <1>1, Stages DEF DriftInv, DriftTypeOK, GroupBound
<1>4. \A q \in Run : stage'[q] \notin Occupied
  BY <1>3, Stages
<1>5. DriftTypeOK'
  BY <1>1, <1>2, <1>3 DEF DriftInv, DriftTypeOK, Outcome
<1>6. GroupBound'
  <2>1. waiting # NoRun => waiting \in Run /\ waiting # r
    BY Stages DEF DriftInv, DriftTypeOK, GroupBound
  <2>2. QED
    BY <1>1, <1>3, <1>4, <2>1 DEF DriftInv, GroupBound
<1>7. KindBound' /\ KnownBound' /\ ReportBound'
  BY <1>2, <1>4 DEF DriftInv, DriftTypeOK, KindBound, KnownBound, ReportBound, Occupied, ReportStep
<1>8. QED
  BY <1>5, <1>6, <1>7 DEF DriftInv

\* A run that goes on is the only one in a job; what is left to show is what
\* its next step relies on.
LEMMA GoesOn ==
  ASSUME DriftInv, NEW r \in Run, NEW to \in Occupied \ {"critical"},
         stage[r] \in Occupied \ {"critical"}, GoTo(r, to),
         holder' = holder, waiting' = waiting, org' = org, indexed' = indexed, kind' = kind,
         events' \in Nat, job' \in Job, job'.known = job.known,
         job'.broken = "none" /\ job'.diff = 0 => job'.saw = "enforced",
         job'.broken # "none" => job'.how # "success",
         result' \in Outcome,
         issue' \in [Issue -> {"none", "OPEN", "CLOSED"}],
         \A i \in Issue : issue[i] # "none" => issue'[i] # "none",
         diag' \subseteq [status : {"clean", "drift", "operational_error"}, result : Outcome],
         /\ to \in ReportStep /\ result' = "success" => Satisfied'
         /\ to = "close" => result' = "success"
         /\ to \in {"update", "edit", "create"} => result' # "success"
         /\ to \in {"view", "update", "edit", "close"} =>
              job'.found \in Issue /\ issue'[job'.found] # "none"
         /\ to = "create" => job'.found = 0 /\ job'.known = {}
         /\ to \in ReportStep \ {"search"} => events' <= job'.searched
         /\ to = "edit" /\ job'.searched = events' => issue'[job'.found] = "OPEN"
  PROVE  DriftInv'
<1>1. /\ stage' \in [Run -> Stage] /\ stage'[r] = to
      /\ \A q \in Run : q # r => stage'[q] = stage[q] /\ stage'[q] \notin Occupied
  BY Stages DEF GoTo, DriftInv, DriftTypeOK, GroupBound
<1>2. DriftTypeOK'
  BY <1>1 DEF DriftInv, DriftTypeOK
<1>3. waiting # NoRun => waiting \in Run /\ waiting # r
  BY Stages DEF DriftInv, DriftTypeOK, GroupBound
<1>4. GroupBound' /\ KindBound' /\ KnownBound'
  BY <1>1, <1>3 DEF DriftInv, DriftTypeOK, GroupBound, KindBound, KnownBound
<1>5. ReportBound'
  <2> SUFFICES ASSUME NEW q \in Run, stage'[q] \in ReportStep PROVE q = r
    BY <1>1 DEF ReportBound, ReportStep
  <2>1. QED
    BY <1>1 DEF Occupied
<1>6. QED
  BY <1>2, <1>4, <1>5 DEF DriftInv

LEMMA StepCritical ==
  ASSUME DriftInv, NEW r \in Run, Critical(r)
  PROVE  DriftInv'
<1>1. /\ stage[r] = "critical" /\ Finish(r) /\ org' = org /\ indexed' = indexed /\ kind' = kind
      /\ events' = events /\ issue' = issue /\ diag' = diag
  BY DEF Critical, world
<1>2. QED
  BY <1>1, Stages, Ends DEF DriftInv, DriftTypeOK

\* The steps of the drift job, done or broken.
LEMMA StepDetect ==
  ASSUME DriftInv, NEW r \in Run,
         \/ PassSetup(r) \/ PassAuthorities(r) \/ Observe(r) \/ Provider(r)
         \/ \E how \in {"failure", "cancelled"} : Break(r, how)
  PROVE  DriftInv'
<1>1. /\ holder' = holder /\ waiting' = waiting /\ org' = org /\ indexed' = indexed /\ kind' = kind
      /\ issue' = issue /\ diag' = diag /\ result' = result /\ events' \in Nat
  <2>1. events \in Nat
    BY DEF DriftInv, DriftTypeOK
  <2>2. CASE PassSetup(r) \/ PassAuthorities(r) \/ Observe(r) \/ Provider(r)
    <3>1. Quiet
      BY <2>2 DEF PassSetup, PassAuthorities, Observe, Provider
    <3>2. QED
      BY <2>1, <3>1 DEF Quiet, world, queue
  <2>3. CASE \E how \in {"failure", "cancelled"} : Break(r, how)
    <3>1. Disturb /\ UNCHANGED <<world, queue, kind, result, diag>>
      BY <2>3 DEF Break
    <3>2. QED
      BY <2>1, <3>1 DEF Disturb, world, queue
  <2>4. QED
    BY <2>2, <2>3
<1>2. org \in Org /\ job \in Job
  BY DEF DriftInv, DriftTypeOK
<1>3. /\ job.broken = "none" /\ job.diff = 0 => job.saw = "enforced"
      /\ job.broken # "none" => job.how # "success"
  BY DEF DriftInv, KnownBound
<1>4. PICK to \in {"authorities", "observe", "provider", "diagnose"} :
         stage[r] \in JobStep /\ GoTo(r, to)
  BY DEF PassSetup, PassAuthorities, Observe, Provider, Break, JobStep
<1>5. /\ job' \in Job /\ job'.known = job.known
      /\ job'.broken = "none" /\ job'.diff = 0 => job'.saw = "enforced"
      /\ job'.broken # "none" => job'.how # "success"
  <2>1. CASE PassSetup(r) \/ PassAuthorities(r)
    BY <2>1, <1>2, <1>3 DEF PassSetup, PassAuthorities
  <2>2. CASE Observe(r)
    <3>1. PICK p \in PreflightExits(org), d \in DoctorExits(org) :
             job' = [job EXCEPT !.preflight = p, !.diff = DiffExit(org), !.doctor = d, !.saw = org]
      BY <2>2 DEF Observe
    <3>2. p \in Exit /\ d \in Exit /\ DiffExit(org) \in Exit /\ (DiffExit(org) = 0 => org = "enforced")
      BY <1>2, Exits
    <3>3. /\ job' \in Job /\ job'.known = job.known /\ job'.saw = org /\ job'.diff = DiffExit(org)
          /\ job'.broken = job.broken /\ job'.how = job.how
      BY <1>2, <3>1, <3>2 DEF Job
    <3>4. QED
      BY <1>3, <3>2, <3>3
  <2>3. CASE Provider(r)
    <3>1. PICK x \in ProviderExits(org) : job' = [job EXCEPT !.provider = x]
      BY <2>3 DEF Provider
    <3>2. x \in Exit
      BY <1>2, Exits
    <3>3. QED
      BY <1>2, <1>3, <3>1, <3>2 DEF Job
  <2>4. CASE \E how \in {"failure", "cancelled"} : Break(r, how)
    <3>1. PICK how \in {"failure", "cancelled"} : Break(r, how)
      BY <2>4
    <3>2. PICK j \in Job : j.known = job.known /\ Broken(j, stage[r], how)
      <4>1. CASE Broken(job, stage[r], how)
        BY <1>2, <4>1
      <4>2. CASE \E p \in PreflightExits(org), d \in {-1, DiffExit(org)} :
                   Broken([job EXCEPT !.preflight = p, !.diff = d], stage[r], how)
        <5>1. PICK p \in PreflightExits(org), d \in {-1, DiffExit(org)} :
                   Broken([job EXCEPT !.preflight = p, !.diff = d], stage[r], how)
          BY <4>2
        <5>2. p \in Exit /\ d \in Exit
          BY <1>2, Exits DEF Exit
        <5>3. [job EXCEPT !.preflight = p, !.diff = d] \in Job
          BY <1>2, <5>2 DEF Job
        <5>4. [job EXCEPT !.preflight = p, !.diff = d].known = job.known
          BY <1>2 DEF Job
        <5>5. QED
          BY <5>1, <5>3, <5>4
      <4>3. CASE \E x \in ProviderExits(org) : Broken([job EXCEPT !.provider = x], stage[r], how)
        <5>1. PICK x \in ProviderExits(org) : Broken([job EXCEPT !.provider = x], stage[r], how)
          BY <4>3
        <5>2. x \in Exit
          BY <1>2, Exits
        <5>3. [job EXCEPT !.provider = x] \in Job
          BY <1>2, <5>2 DEF Job
        <5>4. [job EXCEPT !.provider = x].known = job.known
          BY <1>2 DEF Job
        <5>5. QED
          BY <5>1, <5>3, <5>4
      <4>4. QED
        BY <3>1, <4>1, <4>2, <4>3 DEF Break
    <3>3. stage[r] \in JobStep
      BY <3>1 DEF Break
    <3>5. job' \in Job /\ job'.known = job.known /\ job'.broken = stage[r]
      BY <3>2, <3>3 DEF Job, Outcome, Broken
    <3>6. job'.how # "success"
      BY <3>1, <3>2, <3>3 DEF Job, Outcome, Broken
    <3>7. QED
      BY <3>3, <3>5, <3>6 DEF JobStep
  <2>5. QED
    BY <2>1, <2>2, <2>3, <2>4
<1>6. to \in Occupied \ {"critical"} /\ stage[r] \in Occupied \ {"critical"} /\ to \notin ReportStep
  BY <1>4 DEF Occupied, JobStep, ReportStep
<1>7. QED
  BY <1>1, <1>4, <1>5, <1>6, GoesOn DEF DriftInv, DriftTypeOK, ReportStep

\* The drift job ends; a lost runner ends it too.
LEMMA StepEnds ==
  ASSUME DriftInv, NEW r \in Run, Diagnose(r) \/ LoseRunner(r)
  PROVE  DriftInv'
<1>1. /\ stage[r] \in JobStep \cup {"diagnose"}
      /\ org' = org /\ indexed' = indexed /\ issue' = issue /\ kind' = kind /\ events' \in Nat
  BY DEF Diagnose, LoseRunner, Disturb, world, DriftInv, DriftTypeOK
<1>2. PICK res \in Outcome :
        /\ EndJob(r, res) /\ (res = "success" => Satisfied)
        /\ diag' = diag \/ \E s \in {"clean", "drift", "operational_error"} :
                              diag' = {[status |-> s, result |-> res]}
  <2>1. CASE Diagnose(r)
    <3>1. Result(job) \in Outcome /\ (Result(job) = "success" => Satisfied)
      BY DEF Result, Satisfied, Outcome, DriftInv, DriftTypeOK, Job, KnownBound
    <3>2. Status(job) \in {"clean", "drift", "operational_error"}
      BY DEF Status
    <3>3. QED
      BY <2>1, <3>1, <3>2 DEF Diagnose
  <2>2. CASE LoseRunner(r)
    BY <2>2 DEF LoseRunner, Outcome
  <2>3. QED
    BY <2>1, <2>2
<1>3. /\ GoTo(r, "search") /\ result' = res
      /\ holder' = holder /\ waiting' = waiting /\ job' = job
  BY <1>2 DEF EndJob, Reports, queue
<1>4. diag' \subseteq [status : {"clean", "drift", "operational_error"}, result : Outcome]
  BY <1>2 DEF DriftInv, DriftTypeOK
<1>5. stage[r] \in Occupied \ {"critical"} /\ "search" \in Occupied \ {"critical"}
  BY <1>1 DEF Occupied, JobStep, ReportStep
<1>6. Satisfied' <=> Satisfied
  BY <1>3 DEF Satisfied
<1>7. QED
  BY <1>1, <1>2, <1>3, <1>4, <1>5, <1>6, GoesOn DEF DriftInv, DriftTypeOK, KnownBound, ReportStep

\* The search finds an issue the index holds, or clears the run to create one.
LEMMA StepSearch ==
  ASSUME DriftInv, NEW r \in Run, Search(r)
  PROVE  DriftInv'
<1>1. /\ stage[r] = "search" /\ org' = org /\ indexed' = indexed /\ issue' = issue
      /\ kind' = kind /\ events' = events /\ diag' = diag
  BY DEF Search, Still
<1>2. CASE Finish(r)
  BY <1>1, <1>2, Ends, Stages DEF DriftInv, DriftTypeOK
<1>3. CASE ~Finish(r)
  <2>1. /\ ~(Find = 0 /\ result = "success") /\ GoTo(r, IF Find = 0 THEN "create" ELSE "view")
        /\ job' = [job EXCEPT !.found = Find, !.searched = events]
        /\ holder' = holder /\ waiting' = waiting /\ result' = result
    BY <1>3 DEF Search, queue
  <2>2. /\ indexed \subseteq Issue /\ events \in Nat
        /\ \A i \in indexed : issue[i] # "none"
        /\ job.known \subseteq indexed
        /\ job.broken = "none" /\ job.diff = 0 => job.saw = "enforced"
        /\ job.broken # "none" => job.how # "success"
        /\ result = "success" => Satisfied
    BY <1>1 DEF DriftInv, DriftTypeOK, KnownBound, ReportBound, ReportStep
  <2>3. Find \in {0} \cup Issue
    BY <2>2, FindFinds
  <2>4. /\ job' \in Job /\ job'.known = job.known /\ job'.found = Find /\ job'.searched = events
        /\ job'.broken = job.broken /\ job'.how = job.how /\ job'.saw = job.saw /\ job'.diff = job.diff
        /\ job'.preflight = job.preflight /\ job'.doctor = job.doctor /\ job'.provider = job.provider
    BY <2>1, <2>2, <2>3 DEF Job, DriftInv, DriftTypeOK
  <2>5. Satisfied' <=> Satisfied
    BY <2>4 DEF Satisfied
  <2>6. CASE Find = 0
    <3>1. job.known = {} /\ result # "success" /\ GoTo(r, "create")
      BY <2>1, <2>2, <2>6, FindFinds
    <3>2. QED
      BY <1>1, <2>1, <2>2, <2>4, <2>6, <3>1, GoesOn, Stages DEF DriftInv, DriftTypeOK
  <2>7. CASE Find # 0
    <3>1. Find \in Issue /\ issue[Find] # "none" /\ GoTo(r, "view")
      BY <2>1, <2>2, <2>7, FindFinds
    <3>2. QED
      BY <1>1, <2>1, <2>2, <2>4, <2>5, <3>1, GoesOn, Stages DEF DriftInv, DriftTypeOK, ReportStep
  <2>8. QED
    BY <2>6, <2>7
<1>4. QED
  BY <1>2, <1>3

\* The other calls of the report job: each leaves the issue it found as the
\* next one expects it.
LEMMA StepReport ==
  ASSUME DriftInv, NEW r \in Run,
         View(r) \/ Reopen(r) \/ Edit(r) \/ Close(r) \/ Create(r) \/ FailReport(r)
  PROVE  DriftInv'
<1>1. /\ stage[r] \in ReportStep /\ stage[r] \in Occupied \ {"critical"}
      /\ org' = org /\ indexed' = indexed
      /\ kind' = kind /\ diag' = diag /\ events' \in Nat
  BY DEF View, Reopen, Edit, Close, Create, FailReport, Still, Disturb, world, ReportStep,
         Occupied, DriftInv, DriftTypeOK
<1>2. /\ issue \in [Issue -> {"none", "OPEN", "CLOSED"}] /\ job \in Job
      /\ diag \subseteq [status : {"clean", "drift", "operational_error"}, result : Outcome]
  BY DEF DriftInv, DriftTypeOK
<1>3. /\ issue' \in [Issue -> {"none", "OPEN", "CLOSED"}]
      /\ \A i \in Issue : issue[i] # "none" => issue'[i] # "none"
  <2>1. CASE View(r) \/ Edit(r) \/ FailReport(r)
    BY <1>2, <2>1 DEF View, Edit, FailReport, world
  <2>2. CASE Reopen(r)
    BY <1>2, <2>2 DEF Reopen
  <2>3. CASE Close(r)
    BY <1>2, <2>3 DEF Close
  <2>4. CASE Create(r)
    BY <1>2, <2>4 DEF Create
  <2>5. QED
    BY <2>1, <2>2, <2>3, <2>4
<1>4. CASE Finish(r)
  BY <1>1, <1>2, <1>3, <1>4, Ends
<1>5. CASE ~Finish(r)
  <2>1. /\ holder' = holder /\ waiting' = waiting /\ job' = job /\ result' = result /\ events' = events
        /\ View(r) \/ Reopen(r)
    BY <1>5 DEF View, Reopen, Edit, Close, Create, FailReport, Keep, Still, queue
  <2>2. /\ job.broken = "none" /\ job.diff = 0 => job.saw = "enforced"
        /\ job.broken # "none" => job.how # "success"
        /\ stage[r] \in ReportStep /\ result = "success" => Satisfied
        /\ stage[r] \in {"view", "update"} => job.found \in Issue /\ issue[job.found] # "none"
        /\ stage[r] = "update" => result # "success"
        /\ stage[r] \in {"view", "update"} => events <= job.searched
    BY DEF DriftInv, KnownBound, ReportBound, ReportStep
  <2>3. Satisfied' <=> Satisfied
    BY <2>1 DEF Satisfied
  <2>4. result \in Outcome
    BY DEF DriftInv, DriftTypeOK
  <2>5. CASE View(r)
    <3>1. PICK to \in {"update", "edit", "close"} :
            /\ GoTo(r, to)
            /\ to \in {"update", "edit"} => result # "success"
            /\ to = "close" => result = "success"
            /\ to = "edit" => issue[job.found] # "CLOSED"
      BY <1>5, <2>5 DEF View
    <3>2. stage[r] = "view" /\ issue' = issue
      BY <2>5 DEF View
    <3>3. to \in Occupied \ {"critical"} /\ to \in ReportStep
      BY <3>1 DEF Occupied, ReportStep
    <3>4. to = "edit" => issue[job.found] = "OPEN"
      BY <1>2, <2>2, <3>1, <3>2
    <3>5. QED
      BY <1>1, <1>2, <2>1, <2>2, <2>3, <2>4, <3>1, <3>2, <3>3, <3>4, GoesOn
  <2>6. CASE Reopen(r)
    <3>1. /\ stage[r] = "update" /\ GoTo(r, "edit") /\ issue' = [issue EXCEPT ![job.found] = "OPEN"]
      BY <2>6 DEF Reopen
    <3>2. job.found \in Issue /\ issue'[job.found] = "OPEN"
      BY <1>2, <2>2, <3>1
    <3>3. "edit" \in Occupied \ {"critical"} /\ "edit" \in ReportStep
      BY DEF Occupied, ReportStep
    <3>4. QED
      BY <1>1, <1>2, <1>3, <2>1, <2>2, <2>3, <2>4, <3>1, <3>2, <3>3, GoesOn
  <2>7. QED
    BY <2>1, <2>5, <2>6
<1>6. QED
  BY <1>4, <1>5

LEMMA Stutter == ASSUME DriftInv, UNCHANGED vars PROVE DriftInv'
<1>1. /\ org' = org /\ issue' = issue /\ indexed' = indexed /\ events' = events
      /\ holder' = holder /\ waiting' = waiting /\ stage' = stage /\ kind' = kind
      /\ job' = job /\ result' = result /\ diag' = diag
  BY DEF vars, world, queue
<1>2. DriftTypeOK' /\ GroupBound' /\ KindBound' /\ KnownBound'
  BY <1>1 DEF DriftInv, DriftTypeOK, GroupBound, KindBound, KnownBound
<1>3. Satisfied' <=> Satisfied
  BY <1>1 DEF Satisfied
<1>4. ReportBound'
  BY <1>1, <1>3 DEF DriftInv, ReportBound
<1>5. QED
  BY <1>2, <1>4 DEF DriftInv

LEMMA DriftStep == DriftInv /\ [Next]_vars => DriftInv'
<1> SUFFICES ASSUME DriftInv, [Next]_vars PROVE DriftInv'
  OBVIOUS
<1>1. CASE UNCHANGED vars
  BY <1>1, Stutter
<1>2. CASE (\E o \in Org : ChangeOrg(o)) \/ (\E i \in Issue : TouchIssue(i) \/ Index(i))
  BY <1>2, StepWorld
<1>3. ASSUME NEW r \in Run, (\E k \in Kind : Schedule(r, k)) \/ Start(r)
      PROVE  DriftInv'
  BY <1>3, StepQueue
<1>4. ASSUME NEW r \in Run,
             \/ PassSetup(r) \/ PassAuthorities(r) \/ Observe(r) \/ Provider(r)
             \/ \E how \in {"failure", "cancelled"} : Break(r, how)
      PROVE  DriftInv'
  BY <1>4, StepDetect
<1>5. ASSUME NEW r \in Run, Critical(r) \/ Diagnose(r) \/ LoseRunner(r) PROVE DriftInv'
  BY <1>5, StepCritical, StepEnds
<1>6. ASSUME NEW r \in Run, Report(r) \/ FailReport(r) PROVE DriftInv'
  BY <1>6, StepSearch, StepReport DEF Report
<1>7. QED
  BY <1>1, <1>2, <1>3, <1>4, <1>5, <1>6 DEF Next, Progress, Detect

-----------------------------------------------------------------------------
(* What a step may never do                                                *)

\* The steps that change an issue.
LEMMA IssueMoves ==
  ASSUME DriftTypeOK, [Next]_vars, issue' # issue
  PROVE  \/ events' < events /\ \E i \in Issue : TouchIssue(i)
         \/ \E r \in Run : Reopen(r) \/ Close(r) \/ Create(r)
<1> USE DEF world
<1>1. ~ UNCHANGED vars
  BY DEF vars
<1>2. ~ \E o \in Org : ChangeOrg(o)
  BY DEF ChangeOrg
<1>3. ~ \E i \in Issue : Index(i)
  BY DEF Index
<1>4. ASSUME NEW i \in Issue, TouchIssue(i) PROVE events' < events
  BY <1>4 DEF TouchIssue, Disturb, DriftTypeOK
<1>5. ASSUME NEW r \in Run
      PROVE  /\ ~ \E k \in Kind : Schedule(r, k)
             /\ ~ \E how \in {"failure", "cancelled"} : Break(r, how)
             /\ ~ Start(r) /\ ~ Critical(r) /\ ~ Detect(r) /\ ~ LoseRunner(r) /\ ~ FailReport(r)
             /\ ~ Search(r) /\ ~ View(r) /\ ~ Edit(r)
  BY DEF Schedule, Break, Start, Critical, Detect, PassSetup, PassAuthorities, Observe, Provider,
         Diagnose, LoseRunner, FailReport, Search, View, Edit, Quiet
<1>6. QED
  BY <1>1, <1>2, <1>3, <1>4, <1>5 DEF Next, Progress, Report

LEMMA RecoveryStep ==
  ASSUME DriftInv, [Next]_vars, NEW i \in Issue, issue[i] = "OPEN", issue'[i] = "CLOSED",
         ~(events' < events)
  PROVE  /\ kind[holder] = "full" /\ job.broken = "none" /\ job.saw = "enforced"
         /\ {job.preflight, job.diff, job.doctor, job.provider} = {0}
<1>1. PICK r \in Run : Reopen(r) \/ Close(r) \/ Create(r)
  BY IssueMoves DEF DriftInv
<1>2. issue \in [Issue -> {"none", "OPEN", "CLOSED"}]
  BY DEF DriftInv, DriftTypeOK
<1>3. ~Reopen(r) /\ ~Create(r)
  BY <1>2 DEF Reopen, Create
<1>4. stage[r] = "close"
  BY <1>1, <1>3 DEF Close
<1>5. r = holder /\ kind[r] = "full" /\ result = "success"
  BY <1>4, Stages DEF DriftInv, GroupBound, KindBound, ReportBound
<1>6. Satisfied
  BY <1>4, <1>5 DEF DriftInv, ReportBound, ReportStep
<1>7. QED
  BY <1>5, <1>6 DEF Satisfied, DriftInv, KnownBound

LEMMA FailureStep ==
  ASSUME DriftInv, [Next]_vars, holder # NoRun, holder' = NoRun, stage[holder] \in ReportStep,
         result # "success", events' = events, job.searched = events
  PROVE  \E i \in Issue : issue'[i] = "OPEN" /\ job.found \in {0, i}
<1>1. events \in Nat /\ holder \in Run
  BY DEF DriftInv, DriftTypeOK
<1>2. PICK r \in Run : r = holder /\ (Edit(r) \/ Create(r))
  <2>1. ~ UNCHANGED vars /\ (\A o \in Org : ~ChangeOrg(o)) /\ (\A i \in Issue : ~TouchIssue(i) /\ ~Index(i))
    BY DEF vars, queue, ChangeOrg, TouchIssue, Index, Outside
  <2>2. PICK r \in Run :
          \/ \E k \in Kind : Schedule(r, k)
          \/ \E how \in {"failure", "cancelled"} : Break(r, how)
          \/ Progress(r) \/ LoseRunner(r) \/ FailReport(r)
    BY <2>1 DEF Next
  <2>3. ~(\E k \in Kind : Schedule(r, k)) /\ ~(\E how \in {"failure", "cancelled"} : Break(r, how))
    BY DEF Schedule, Break, queue
  <2>4. ~LoseRunner(r) /\ ~FailReport(r)
    BY <1>1 DEF LoseRunner, FailReport, Disturb
  <2>5. ~Start(r)
    BY DEF Start
  <2>6. ~Critical(r)
    BY Stages DEF Critical, DriftInv, GroupBound, ReportStep
  <2>7. ~PassSetup(r) /\ ~PassAuthorities(r) /\ ~Observe(r) /\ ~Provider(r)
    BY DEF PassSetup, PassAuthorities, Observe, Provider, Quiet, queue
  <2>8. ~Diagnose(r)
    BY Stages DEF Diagnose, DriftInv, GroupBound, ReportStep
  <2>9. ~Search(r)
    BY DEF Search, queue, Finish
  <2>10. ~View(r) /\ ~Reopen(r)
    BY DEF View, Reopen, Keep, queue
  <2>11. ~Close(r)
    BY DEF Close, DriftInv, ReportBound
  <2>12. Edit(r) \/ Create(r)
    BY <2>2, <2>3, <2>4, <2>5, <2>6, <2>7, <2>8, <2>9, <2>10, <2>11 DEF Progress, Detect, Report
  <2>13. r = holder
    BY <2>12, Stages DEF Edit, Create, DriftInv, GroupBound
  <2>14. QED
    BY <2>12, <2>13
<1>3. CASE Edit(r)
  <2>1. stage[r] = "edit" /\ issue' = issue
    BY <1>3 DEF Edit
  <2>2. QED
    BY <2>1 DEF DriftInv, ReportBound
<1>4. CASE Create(r)
  <2>1. stage[r] = "create" /\ job.found = 0
    BY <1>4 DEF Create, DriftInv, ReportBound
  <2>2. PICK i \in Issue : issue' = [issue EXCEPT ![i] = "OPEN"]
    BY <1>4 DEF Create
  <2>3. issue'[i] = "OPEN"
    BY <2>2 DEF DriftInv, DriftTypeOK
  <2>4. QED
    BY <2>1, <2>3
<1>5. QED
  BY <1>2, <1>3, <1>4

LEMMA DuplicateStep ==
  ASSUME DriftInv, [Next]_vars, NEW i \in Issue, issue[i] = "none", issue'[i] # "none"
  PROVE  job.known = {}
<1>1. issue \in [Issue -> {"none", "OPEN", "CLOSED"}]
  BY DEF DriftInv, DriftTypeOK
<1>2. ~ \E k \in Issue : TouchIssue(k)
  BY <1>1 DEF TouchIssue
<1>3. PICK r \in Run : Reopen(r) \/ Close(r) \/ Create(r)
  BY <1>2, IssueMoves DEF DriftInv
<1>4. ~Reopen(r) /\ ~Close(r)
  BY <1>1 DEF Reopen, Close, DriftInv, ReportBound
<1>5. QED
  BY <1>3, <1>4 DEF Create, DriftInv, ReportBound

-----------------------------------------------------------------------------
(* Theorems                                                                *)

\* The invariant holds in every reachable state.
THEOREM DriftInvariant == Spec => []DriftInv
<1>1. Init => DriftInv
  BY DriftInit
<1>2. DriftInv /\ [Next]_vars => DriftInv'
  BY DriftStep
<1>3. QED
  BY <1>1, <1>2, PTL DEF Spec

\* Every state of the workflow is well formed.
THEOREM DriftTyped == Spec => []DriftTypeOK
<1>1. DriftInv => DriftTypeOK
  BY DEF DriftInv
<1>2. QED
  BY <1>1, DriftInvariant, PTL

\* The workflow closes an issue only for a full run that saw the organization
\* enforced and every tool satisfied, whatever broke or was touched before.
THEOREM RecoveryCloses == Spec => OnlyRecoveryCloses
<1> DEFINE A == \A i \in Issue : issue[i] = "OPEN" /\ issue'[i] = "CLOSED" =>
                  \/ events' < events
                  \/ /\ kind[holder] = "full" /\ job.broken = "none" /\ job.saw = "enforced"
                     /\ {job.preflight, job.diff, job.doctor, job.provider} = {0}
<1>1. DriftInv /\ [Next]_vars => A
  BY RecoveryStep
<1>2. QED
  BY <1>1, DriftInvariant, PTL DEF Spec, OnlyRecoveryCloses

\* A report of a failure that nobody interferes with leaves the issue it found,
\* or the one it created, open.
THEOREM FailureLeaves == Spec => FailureLeavesOpenIssue
<1> DEFINE A == holder # NoRun /\ holder' = NoRun /\ stage[holder] \in ReportStep
                  /\ result # "success" /\ events' = events /\ job.searched = events =>
                  \E i \in Issue : issue'[i] = "OPEN" /\ job.found \in {0, i}
<1>1. DriftInv /\ [Next]_vars => A
  BY FailureStep
<1>2. QED
  BY <1>1, DriftInvariant, PTL DEF Spec, FailureLeavesOpenIssue

\* No run files an issue beside one that was searchable when it started.
THEOREM NoDuplicates == Spec => NoDuplicateOfKnownIssue
<1> DEFINE A == \A i \in Issue : issue[i] = "none" /\ issue'[i] # "none" => job.known = {}
<1>1. DriftInv /\ [Next]_vars => A
  BY DuplicateStep
<1>2. QED
  BY <1>1, DriftInvariant, PTL DEF Spec, NoDuplicateOfKnownIssue
=============================================================================
