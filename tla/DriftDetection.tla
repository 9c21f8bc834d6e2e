---------------------------- MODULE DriftDetection ----------------------------
(***************************************************************************)
(* The drift-detection workflow: hourly runs look at the critical controls *)
(* only, nightly and manual runs observe everything, publish a diagnostic  *)
(* and reconcile one issue that a search for its marker finds.  Both kinds *)
(* share one concurrency group.  GitHub's search index lags behind the     *)
(* issues, people touch organization and issues at any moment, and steps   *)
(* fail, are cancelled or lose their runner.                               *)
(*                                                                         *)
(* Abstractions.  The organization is as enforced, as foundation leaves it *)
(* (rulesets held), or drifted.  An exit code not written is -1.  The      *)
(* steps before the workflow authorities are one step: a diagnostic is     *)
(* uploaded only when all of them succeeded.                               *)
(***************************************************************************)
EXTENDS Integers

CONSTANTS
  Run, NoRun,   \* workflow runs
  Phase,        \* GHCFG_ROLLOUT_PHASE
  Exposed,      \* whether GitHub exposes every control the catalog declares
  MaxIssue, MaxEvents \* bounds on issues created and on disturbances

Org == {"enforced", "held", "drifted"}
Kind == {"hourly", "full"}
Issue == 1..MaxIssue
Exit == {-1, 0, 1, 2}
Outcome == {"success", "failure", "cancelled"}
JobStep == {"setup", "authorities", "observe", "provider"}
ReportStep == {"search", "view", "update", "close", "edit", "create"}
Stage == {"idle", "queued", "critical", "diagnose", "done", "superseded"} \cup JobStep \cup ReportStep
Job == [broken : {"none"} \cup JobStep, how : Outcome,
        preflight : Exit, diff : Exit, doctor : Exit, provider : Exit, saw : Org,
        known : SUBSET Issue, searched : Nat, found : {0} \cup Issue]

ASSUME ConstantsAssumption ==
  /\ NoRun \notin Run /\ Phase \in {"foundation", "enforce"} /\ Exposed \in BOOLEAN
  /\ MaxIssue \in Nat /\ MaxEvents \in Nat

VARIABLES
  org,             \* the live organization
  issue, indexed,  \* the marked issues, and those a search returns
  events,          \* disturbances still allowed (a bound)
  holder, waiting, \* the concurrency group github-governance-drift
  stage, kind,     \* each run
  job, result,     \* step outcomes and files of the running job; needs.drift.result
  diag             \* the diagnostic published last, if any

world == <<org, issue, indexed>>
queue == <<holder, waiting>>
vars  == <<world, events, queue, stage, kind, job, result, diag>>

NewJob(known) ==
  [broken |-> "none", how |-> "success", preflight |-> -1, diff |-> -1, doctor |-> -1,
   provider |-> -1, saw |-> "enforced", known |-> known, searched |-> 0, found |-> 0]

DriftTypeOK ==
  /\ org \in Org /\ events \in Nat
  /\ issue \in [Issue -> {"none", "OPEN", "CLOSED"}] /\ indexed \subseteq Issue
  /\ holder \in Run \cup {NoRun} /\ waiting \in Run \cup {NoRun}
  /\ stage \in [Run -> Stage] /\ kind \in [Run -> Kind]
  /\ job \in Job /\ result \in Outcome
  /\ diag \subseteq [status : {"clean", "drift", "operational_error"}, result : Outcome]

Init ==
  /\ org \in Org /\ issue = [i \in Issue |-> "none"] /\ indexed = {}
  /\ events = MaxEvents /\ holder = NoRun /\ waiting = NoRun
  /\ stage = [r \in Run |-> "idle"] /\ kind = [r \in Run |-> "full"]
  /\ job = NewJob({}) /\ result = "success" /\ diag = {}

-----------------------------------------------------------------------------
(* The world and the queue.                                                *)

Disturb == events > 0 /\ events' = events - 1
Outside == UNCHANGED <<queue, stage, kind, job, result, diag>>

ChangeOrg(o) ==
  /\ Disturb /\ o # org /\ org' = o /\ Outside /\ UNCHANGED <<issue, indexed>>

\* Someone closes or reopens a marked issue.
TouchIssue(i) ==
  /\ Disturb /\ issue[i] # "none"
  /\ issue' = [issue EXCEPT ![i] = IF @ = "OPEN" THEN "CLOSED" ELSE "OPEN"]
  /\ Outside /\ UNCHANGED <<org, indexed>>

\* The search index catches up with an issue.
Index(i) ==
  /\ issue[i] # "none" /\ i \notin indexed /\ indexed' = indexed \cup {i}
  /\ Outside /\ UNCHANGED <<org, issue, events>>

\* A cron or a person starts a run; it replaces the run that waits for the group.
Schedule(r, k) ==
  /\ stage[r] = "idle" /\ (waiting # NoRun => holder # NoRun) /\ kind' = [kind EXCEPT ![r] = k] /\ waiting' = r
  /\ stage' = [q \in Run |-> IF q = r THEN "queued" ELSE
                            IF q = waiting THEN "superseded" ELSE stage[q]]
  /\ UNCHANGED <<world, events, holder, job, result, diag>>

Start(r) ==
  /\ holder = NoRun /\ waiting = r /\ stage[r] = "queued"
  /\ holder' = r /\ waiting' = NoRun /\ job' = NewJob(indexed)
  /\ stage' = [stage EXCEPT ![r] = IF kind[r] = "hourly" THEN "critical" ELSE "setup"]
  /\ UNCHANGED <<world, events, kind, result, diag>>

GoTo(r, to) == stage' = [stage EXCEPT ![r] = to]
Finish(r) ==
  GoTo(r, "done") /\ holder' = NoRun /\ UNCHANGED waiting
    /\ job' = NewJob({}) /\ result' = "success"
Keep == UNCHANGED <<queue, job, result>>

\* The hourly run fails on critical drift; nothing is reconciled after it.
Critical(r) ==
  /\ stage[r] = "critical" /\ Finish(r)
  /\ UNCHANGED <<world, events, kind, diag>>

-----------------------------------------------------------------------------
(* The drift job of a full run.                                            *)

Quiet == UNCHANGED <<world, events, queue, kind, result, diag>>

PassSetup(r) == stage[r] = "setup" /\ GoTo(r, "authorities") /\ Quiet /\ UNCHANGED job
PassAuthorities(r) == stage[r] = "authorities" /\ GoTo(r, "observe") /\ Quiet /\ UNCHANGED job

\* Exit codes the tools can give for organization o.  The diff and the doctor
\* compare with the whole catalog, which the enforce preflight demands already
\* holds, and take a control that GitHub does not expose for drift; the
\* provider plan only sees what OpenTofu manages.
DiffExit(o) == IF o = "enforced" /\ Exposed THEN 0 ELSE 2
PreflightExits(o) == IF Phase = "enforce" /\ DiffExit(o) # 0 THEN {2} ELSE {0, 2}
DoctorExits(o) == IF DiffExit(o) = 0 THEN {0, 1, 2} ELSE {1, 2}
ProviderExits(o) ==
  {1} \cup IF o = (IF Phase = "foundation" THEN "held" ELSE "enforced") THEN {0}
           ELSE IF o = "drifted" THEN {0, 2} ELSE {2}

Observe(r) ==
  /\ stage[r] = "observe" /\ GoTo(r, "provider")
  /\ \E p \in PreflightExits(org), d \in DoctorExits(org) :
       job' = [job EXCEPT !.preflight = p, !.diff = DiffExit(org), !.doctor = d, !.saw = org]
  /\ Quiet

Provider(r) ==
  /\ stage[r] = "provider" /\ GoTo(r, "diagnose")
  /\ \E x \in ProviderExits(org) : job' = [job EXCEPT !.provider = x]
  /\ Quiet

\* A step fails or is cancelled; the exit codes it had written stay written.
Broken(j, s, how) == job' = [j EXCEPT !.broken = s, !.how = how]

Break(r, how) ==
  /\ stage[r] \in JobStep /\ Disturb /\ GoTo(r, "diagnose")
  /\ \/ Broken(job, stage[r], how)
     \/ /\ stage[r] = "observe"
        /\ \E p \in PreflightExits(org), d \in {-1, DiffExit(org)} :
             Broken([job EXCEPT !.preflight = p, !.diff = d], stage[r], how)
     \/ /\ stage[r] = "provider"
        /\ \E x \in ProviderExits(org) : Broken([job EXCEPT !.provider = x], stage[r], how)
  /\ UNCHANGED <<world, queue, kind, result, diag>>

\* The status of the published diagnostic: it looks at the outcomes of these
\* steps, not at that of the step that fetches the authorities.
Watched == {"setup", "observe", "provider"}
Status(j) ==
  IF j.broken \in Watched \/ j.provider = 1 \/ j.doctor = 1 THEN "operational_error"
  ELSE IF 2 \in {j.preflight, j.diff, j.provider, j.doctor} THEN "drift" ELSE "clean"

\* Mutant: the workflow has no step that fails on drift.
StepsResult(j) == IF j.broken = "none" THEN "success" ELSE j.how

\* Mutant: the job reports a timeout by its own name.
NamedResult(j) == IF j.broken = "none" THEN "success" ELSE
                  IF j.how = "cancelled" THEN "timed_out" ELSE "failure"

Result(j) ==
  IF j.broken # "none" THEN j.how
  ELSE IF {j.preflight, j.diff, j.provider, j.doctor} = {0} THEN "success" ELSE "failure"

\* Mutant: without always() the report only follows a drift job that succeeded.
ReportsSuccess(res) == res = "success"

\* needs.drift.result is anything but skipped once a full run has started.
Reports(res) == res \in Outcome

EndJob(r, res) ==
  IF Reports(res) THEN GoTo(r, "search") /\ result' = res /\ UNCHANGED <<queue, job>>
  ELSE Finish(r)

Diagnose(r) ==
  /\ stage[r] = "diagnose" /\ EndJob(r, Result(job))
  /\ diag' = IF job.broken = "setup" THEN diag
             ELSE {[status |-> Status(job), result |-> Result(job)]}
  /\ UNCHANGED <<world, events, kind>>

LoseRunner(r) ==
  /\ stage[r] \in JobStep \cup {"diagnose"} /\ Disturb /\ EndJob(r, "failure")
  /\ UNCHANGED <<world, kind, diag>>

-----------------------------------------------------------------------------
(* The report job, one API call at a time.                                 *)

Still == UNCHANGED <<org, indexed, events, kind, diag>>
Smallest(S) == IF S = {} THEN 0 ELSE CHOOSE i \in S : \A k \in S : i <= k

\* Mutant: closed issues are not searched.
FindOpen == Smallest({i \in indexed : issue[i] = "OPEN"})

Find == Smallest(indexed)

Search(r) ==
  /\ stage[r] = "search"
  /\ IF Find = 0 /\ result = "success" THEN Finish(r)
     ELSE /\ GoTo(r, IF Find = 0 THEN "create" ELSE "view")
          /\ job' = [job EXCEPT !.found = Find, !.searched = events]
          /\ UNCHANGED <<queue, result>>
  /\ Still /\ UNCHANGED issue

\* Mutant: a closed issue is updated but not reopened.
ViewWithoutReopen(r) ==
  /\ stage[r] = "view"
  /\ IF result # "success" THEN GoTo(r, "edit") /\ Keep
     ELSE IF issue[job.found] = "OPEN" THEN GoTo(r, "close") /\ Keep
     ELSE Finish(r)
  /\ Still /\ UNCHANGED issue

View(r) ==
  /\ stage[r] = "view"
  /\ IF result # "success"
       THEN GoTo(r, IF issue[job.found] = "CLOSED" THEN "update" ELSE "edit") /\ Keep
     ELSE IF issue[job.found] = "OPEN" THEN GoTo(r, "close") /\ Keep
     ELSE Finish(r)
  /\ Still /\ UNCHANGED issue

Reopen(r) ==
  /\ stage[r] = "update" /\ issue' = [issue EXCEPT ![job.found] = "OPEN"]
  /\ GoTo(r, "edit") /\ Keep /\ Still

Edit(r) == stage[r] = "edit" /\ Finish(r) /\ Still /\ UNCHANGED issue

Close(r) ==
  /\ stage[r] = "close" /\ issue' = [issue EXCEPT ![job.found] = "CLOSED"]
  /\ Finish(r) /\ Still

Create(r) ==
  /\ stage[r] = "create"
  /\ \E i \in Issue : /\ issue[i] = "none" /\ \A k \in 1..(i - 1) : issue[k] # "none"
                      /\ issue' = [issue EXCEPT ![i] = "OPEN"]
  /\ Finish(r) /\ Still

\* An API call of the report fails, or the report is cancelled.
FailReport(r) ==
  /\ stage[r] \in ReportStep /\ Disturb /\ Finish(r)
  /\ UNCHANGED <<world, kind, diag>>

-----------------------------------------------------------------------------
Report(r) == Search(r) \/ View(r) \/ Reopen(r) \/ Edit(r) \/ Close(r) \/ Create(r)
Detect(r) == PassSetup(r) \/ PassAuthorities(r) \/ Observe(r) \/ Provider(r) \/ Diagnose(r)
Progress(r) == Start(r) \/ Critical(r) \/ Detect(r) \/ Report(r)

Next ==
  \/ \E o \in Org : ChangeOrg(o)
  \/ \E i \in Issue : TouchIssue(i) \/ Index(i)
  \/ \E r \in Run :
       \/ \E k \in Kind : Schedule(r, k)
       \/ \E how \in {"failure", "cancelled"} : Break(r, how)
       \/ Progress(r) \/ LoseRunner(r) \/ FailReport(r)

Spec == Init /\ [][Next]_vars

\* Runners keep working; crons, people and the index owe nothing.
FairSpec == Spec /\ \A r \in Run : WF_vars(Progress(r))

-----------------------------------------------------------------------------
(* Properties.                                                             *)

\* The workflow closes an issue only for a full run that saw the organization
\* enforced and every tool satisfied; hourly and broken runs never do.
OnlyRecoveryCloses ==
  [][\A i \in Issue : issue[i] = "OPEN" /\ issue'[i] = "CLOSED" =>
       \/ events' < events
       \/ /\ kind[holder] = "full" /\ job.broken = "none" /\ job.saw = "enforced"
          /\ {job.preflight, job.diff, job.doctor, job.provider} = {0}]_vars

\* A report of anything but success that nobody interferes with ends with the
\* issue it found, or a new one, open.
FailureLeavesOpenIssue ==
  [][holder # NoRun /\ holder' = NoRun /\ stage[holder] \in ReportStep
       /\ result # "success" /\ events' = events /\ job.searched = events =>
       \E i \in Issue : issue'[i] = "OPEN" /\ job.found \in {0, i}]_vars

\* However late the search index is, no run files an issue beside one that was
\* searchable when the run started, open or closed.
NoDuplicateOfKnownIssue ==
  [][\A i \in Issue : issue[i] = "none" /\ issue'[i] # "none" => job.known = {}]_vars

\* Once the world is left alone, a full run that starts while the organization
\* is not as the catalog enforces it ends with an open issue.
DriftSurfaces ==
  \A r \in Run : stage[r] = "setup" /\ org # "enforced" /\ events = 0
                   ~> \E i \in Issue : issue[i] = "OPEN"
===============================================================================
