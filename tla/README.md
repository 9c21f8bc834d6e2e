# Verification of github-config

This directory models the control flow of github-config: how a reviewed
desired state of the `mindclade` GitHub organization is planned, approved,
applied and watched. Everything is TLA+ in this directory; TLC checks the models on
small instances, and TLAPS proves the safety properties of every stateful part,
and that the apply workflow implements its abstract promise, for every instance. `PROJECT.json` lists the runs, the mutants that show each
property can fail, the lines of source every definition translates, the
hazards of the code, and the theorems.

## 1. The system

github-config is a compiler (`compiler/`, Go), an OpenTofu configuration
(`opentofu/`), Rego policy (`policy/`), a desired state (`config/`) and the
GitHub Actions workflows that run them (`.github/workflows/`). Two workflows
hold the state of the system; the compiler's commands are functions the
workflows call between reads of a world that keeps changing.

| Component | State | Operations | Hard behaviour |
|---|---|---|---|
| protected-apply workflow (`protected-apply.yml`) | run stage, job outputs, evidence artifacts, environment approval, runner files, founder marker; the concurrency group | gate, plan, approve, re-verify, recompute, apply, verify, diagnose | interleaving with merges and hand edits, stale checks, cancellation and timeout inside the apply, runner loss, re-runs of a job with outputs of an earlier attempt, expiry |
| OpenTofu configuration and state | state file, lock, live organization | import, refresh, plan, apply in any order | partial apply, state lost with its runner, phases that hold rulesets back |
| drift-detection workflow (`drift-detection.yml`) | runs, step outcomes, diagnostic, the drift issue | hourly critical run, full run, issue report | failed and cancelled steps, the outcome of one job read by another, an eventually consistent search, superseded runs |
| observer (`internal/diff`) | one observation under construction | paginated reads with retries, inventory proofs, projection | a read that is not atomic over a changing organization, retries under a budget, unknown sections |
| diff (`internal/diff`) | none | compare desired and observed projections | unknown values, truncation, redaction |
| plan evidence (`internal/evidence`) | none (a signed document) | Build, Verify, VerifyAuthenticated, dependency analysis | classification of every change against catalog and observation, partial applies of a plan judged as a whole, bindings to attempt and time |
| preflight and validation (`internal/validation`) | none | PreflightReport, adoption bindings, property migration, founder qualification | phase-dependent preconditions, people with several accounts, settings made by hand, a migration over several rollouts |
| catalog (`internal/catalog`) | none | strict decoding and cross-reference checks | total over its input, no behaviour |
| workflow contract (`internal/workflowcontract`) | none | load, check every job, walk the calls | recursion and permissions through nested calls that GitHub expands later, missing or stale checkouts |
| doctor (`internal/doctor`) | two output files | run the contract, observe, compose, write twice | precedence of incomplete over drift, failing writes, a kill between the two outputs |
| rendering (`internal/rendering`) | output files | atomic write, canonical JSON, redaction | crash between temporary file and rename |
| founder bypass (`internal/founderbypass`) | none | policy validation | none beyond its effect on the gate |
| Rego policy, CI usage report, Renovate, pull-request workflow, authority sync | none of this system's | | |

How they interact: a dispatch names a commit, a phase (`adopt`, `foundation`,
`enforce`), whether the founder exception is used, a risk acknowledgement and
optionally a dependency analysis. The gate job reads reviews and variables, the
plan job compiles, observes, passes preflight, plans, classifies and signs
evidence; an environment approval releases the apply job, which reads all of
it again, compares digests, applies the saved plan and verifies. Drift
detection shares nothing with it but the organization.

### What makes each part correct

- Apply: only what was reviewed in this attempt is written, only while it was
  authorised, only in time; a published diagnostic owns up to a mutation; a
  success means convergence; one run at a time; every run ends.
- Drift: an issue is closed only by a recovery; a failure leaves an open one;
  persistent drift surfaces; the search lag does not multiply issues it need
  not.
- Observer: an inventory declared complete is complete; an unread section is
  never taken for a conforming one, and for an empty one only where an error
  says so (the rulesets).
- Evidence and preflight: a plan is eligible only if no part of it takes a
  protection away or opens one, if new rights and removals were acknowledged
  for that plan, if an adoption writes nothing, and if the people it relies on
  remain; a document that Build emits is one the verifier takes, but for two
  demands that only the verifier makes.
- Workflow contract: a valid report is about the runs GitHub expands from the
  files later: they end, stay within the granted permissions and within the
  reviewed revisions.
- Doctor: a verdict is what both outputs say, and rests on complete information
  or names the authority that nobody read.

`PROJECT.json` "hazards" lists what can go wrong at which line, with the
property that would notice.

## 2. Modules

| Module | Models |
|---|---|
| `ProtectedApply` | the protected-apply workflow over the organization, OpenTofu's state, the clock and the concurrency group |
| `GovernedChange` | the promise of that workflow without jobs, runners or clocks: a permit is bound to one plan, released, opened once while main is the plan's commit, and only its plan is written |
| `ProtectedApply_proofs` | theorems about `ProtectedApply`: types, one run, reviewed, authorised and timely writes |
| `ProtectedApply_settled` | theorems about what the apply knew when it planned and when it checked |
| `ProtectedApply_governed` | the theorem that `ProtectedApply` implements `GovernedChange` |
| `DriftDetection` | the drift-detection workflow and its issue |
| `DriftDetection_proofs` | theorems about `DriftDetection` |
| `Observer` | one observation of a changing organization, and the drift report made of it |
| `Observer_proofs` | theorems about `Observer` |
| `WorkflowContract` | the workflow contract, the pin checks of the catalog, and the nested calls GitHub expands from checked files |
| `WorkflowContract_proofs` | theorems about `WorkflowContract` |
| `Doctor` | the doctor command on top of `WorkflowContract`, with its two outputs |
| `Doctor_proofs` | theorems about `Doctor`, and that it implements `WorkflowContract` on the variables of the contract |
| `PlanClassifier` | the classes of a planned change, and of a plan (pure operators) |
| `Preflight` | the blockers of the activation preflight, and what is imported (pure operators) |
| `PlanEvidence` | the way from a reviewed catalog to a change on GitHub: observe, plan, build, verify, apply; composes the two above |
| `PlanEvidence_proofs` | theorems about `PlanEvidence` |
| `MC...` | the instances TLC checks, and the properties stated from documentation |

### ProtectedApply

State: `main`, `live`, `managed`, `now`, `review`, `contract`, `qual` are the
world (protected main, organization objects, addresses in the OpenTofu state,
the clock, merged reviews, Actions variables). `holder` and `waiting` are the
concurrency group. Each run has a `stage`, `entry` (where its next attempt
starts), `input`, `attempt`, `gate` outputs, `evidence` per attempt and
membership in `approved`. `runner` holds the files and outcomes of the job now
running and is made afresh with it. `diag` is what was published; `consumed`,
`opened`, `wrote` are histories of receipts, apply starts and writers.

A stage is a point of the workflow between two reads of the shared world; a
step action (`PassGate` ... `WriteReceipt`) takes a run to the next stage if
`Holds` lets it, and `Fail` takes the failing edge. A step that reads the world
in one place is one action; the long "Recompute, verify, and apply" script is
one action per re-read (`VerifyEvidence`, `Reobserve`, `Replan`,
`CompareEvidence`, `CheckExpiry`, `CheckSource`, `ApplyChange`, `FinishApply`,
`CheckProvider`, `CheckLive`, `WriteReceipt`). `ApplyChange` writes one object,
in any order, so that failures, cancellation and hand edits fall inside an
apply. `Diagnose` stands for the `always()` steps.

An object is one value, a digest is the value it is taken of, and a plan is a
set of `[obj, before, after, import]`. Rosters, digests of contracts and
signatures are reduced to whether they still agree. `Target` is the phase rule
of `modules/ruleset/main.tf`: rulesets are held in evaluation mode under
`foundation` and keep their observed mode under `adopt`.

Choices worth knowing:

- The gate reads reviews, variables and main in one action. Nothing later in
  that job reads them again, so a change between those reads is the same as one
  just after.
- The OpenTofu state lock is not modelled: the concurrency group already
  admits one apply, and a lock left behind by a lost runner makes the next
  step fail, which `Fail` covers.
- The best-effort observation after a failed apply only decorates the
  diagnostic and is left out.
- A pending run that a person cancels ends like one that was superseded.
- A removed object that somebody recreates before the provider check is no
  longer in the OpenTofu state, so that check does not see it;
  `SuccessMeansConverged` says so, and the live diff that follows is modelled
  by what it compares.

### DriftDetection

State: `org` (as enforced, as foundation leaves it, drifted), the marked
`issue`s and those `indexed` by search, the concurrency group, each run's
`stage` and `kind`, the `job` (which step broke, exit codes, what the
observation saw, what the search found), `result` (needs.drift.result) and the
last published `diag`. The drift job has the steps whose outcome matters
(`setup`, `authorities`, `observe`, `provider`); `Break` and `LoseRunner` end
any of them. The report job is one action per API call, so that people and the
index interleave with it. Exit codes are those the tools may give for the
organization; the diff compares with the whole catalog, so that in phase
`foundation` it reports drift for the rulesets that phase holds back. `Exposed` says whether GitHub exposes every control the catalog
declares. Today it does not (see `GapPart` below), and with `Exposed = FALSE`
the diff is 2 whatever the organization is; the runs take `TRUE`, the only
value under which a recovery exists to be distinguished from a failure.

### Observer

State: `repos` and `live` are the organization (its repository list, one value
per endpoint); `scope`, `todo`, `phase` are where `Observe` is in its fixed
order of reads; `attempt` and `waited` belong to the read going on; `total`,
`page`, `listed` are the count of the organization record and the
enumeration; `seen` and `errors` are what was read and the capability errors.
`steady`, `was` and `counted` are histories. Every read answers (`Read...`),
is retried (`Retry`, after a wait of backoff and jitter or a longer instructed
one, within the budget of `doRead`) or is given up (`GiveUp`: the observation
fails, or the part stays unknown with an error, by the kind of the part).
The context deadline of the command makes reads fail, which `GiveUp` covers.

What a read that is given up means depends on the part, and an instance names
an endpoint or two of each kind: `FatalPart` (Actions policy, teams, members,
grants) ends the observation; `SoftPart` (organization rulesets, OIDC,
environments, ...) stays unknown with an error; `DroppedPart` (the rulesets of a
repository) does too, but the projection skips them, so that they count as
absent; `GapPart` (the `runner_policy` fields that no endpoint exposes) is never
read and always unknown. How a soft part is read and projected varies:

- `EnabledPart` (vulnerability alerts and the like): `checkEnabled` takes a 404
  for "off" and records no error, whether the setting is off, the repository is
  gone or the token may not see it. This is the action `NotFound`. The
  projection pools the setting over the declared repositories, and it counts as
  on only if it is on in each of them.
- `PooledPart`: one field for all repositories, unknown if it was not read in
  one of those listed.
- `RulesetPart` and `UndeclaredPart` (organization rulesets the catalog declares
  and those it does not): the undeclared ones are projected only if every
  ruleset was read. One that was not read hides them all, with its own error.

`SilenceMeansSeen` and `CompleteMeansSeen` name these exceptions: a report may be
silent about an undeclared ruleset only beside an error that names a ruleset,
and a setting that was not found may never have been off, but then the report
shows a difference. An observation begins with everything as declared or
everything different, so that a vanished difference can be told from one that
was never there.

Because of `GapPart` no report is clean at this commit: `diff` exits 2, preflight of
`enforce` fails and drift detection reports drift. README.md:500 of the
repository calls these provider gaps intentional, so this is no finding.
`ProtectedApply` abstracts from it: its preflight compares the values that can
be observed.

### WorkflowContract and Doctor

State of the contract: the `world` an invocation sees (files of every commit,
pins, checkouts, flags, environment), the `files` it loaded, the status of each
authority (`checked`), the `violations`, the depth-first walk (`colour`,
`stack`, `todo`, `rank`), and, once a report is there, one run that GitHub
expands from a checked file: the `chain` of nested calls, the permissions its
outermost job `grant`s, and whether it went `outside` the loaded files. `Load`
and `Check` are one action each, since nothing else runs meanwhile; the walk
is one action per visit so that its order is free. `Trigger` and `NestedCall`
are GitHub's rules: a called workflow cannot be given more than its caller had.

A `uses` is one of five things: a file named relative to the caller's, a `./`
path (inside the repository or not, canonical or not), a workflow of some
repository at a commit, an action at a commit, or a reference with no commit.
The contract judges the `uses` of a job and of a step by different rules. The
catalog has one rule for every `uses` (`UsePinned`): any path inside the
repository, any owner, repository and commit of its allow-list, and the declared
workflows of the shared repository at its implementation pin. It therefore
accepts job calls that the contract refuses, and the shared workflow in a step.
`CatalogAndContractAgree` is about what both have a rule for; `OnlyCatalogCalls`
and `OnlyCatalogSteps` name the rest. The catalog looks only at the files of its
inventory (`LocalInventory`), the contract at all local files. The templates of
workflows that the catalog also scans, and the shape of the YAML, are left out.

`Doctor` adds the program counter, the observation, the report in memory, the
temporary file, the two outputs on `disk` and the exit status. A write is
create, fill, rename; each may fail, the process may be killed between any
two, and the command may be started again over what the disk then holds. The
two output paths are taken to be distinct; the command does not demand it.
Output to the terminal is not modelled.

An authority with no root given is missing evidence. A checkout under the root
that is absent or at another commit is a mismatch instead: its files are not
read, and the doctor may still say "drift" (not "healthy"). `VerdictMeansKnown`
says so.

### PlanClassifier, Preflight and PlanEvidence

A resource is a record of the fields the classifier looks at; boolean fields
that are true are the members of its set `on`; `Absent` stands for nothing. A
change has an address (type and key), `before`, `after`, its action, whether
its address is canonical and whether any value is still unknown.
`PlanClassifier!Classes` translates `classifyChange` with everything it calls: the
write contract, the after-state the catalog demands for each type, revocations
and retirements, and the semantic classes of protections, rulesets, environment
gates, Actions policy, OIDC subjects, visibility and grants.
`Preflight!PreflightBlockers` is `PreflightReport`.

`PlanEvidence` runs them. State: what GitHub holds (`live`), the addresses in
OpenTofu's state (`managed`), the `catalog` on main, and one `run` with its
observation, imports and plan, its `evidence` and its `step`. `Merge`, `Edit`,
`Observe`, `Plan`, `Build`, `Verify`, `Apply` and `Abandon` are its actions. The
plan is not trusted: OpenTofu may propose any of the changes a `World` offers,
also ones that the catalog does not ask for, with unknown values, under odd
addresses or actions, since the classifier is there to refuse them. `Apply`
does any part of the plan and stops.

A `World` is one estate: the catalogs reviewers may merge, the resources, the
edits somebody may make by hand, the health of observations, the identities
that build evidence, the hours at which it is verified. The signatures and
file digests are left out: a document stands for its content.

Choices worth knowing:

- Hand edits come between runs or between observation and plan. What happens
  between the plan and its apply is `ProtectedApply`'s subject, where the plan
  is computed again and compared.
- The observer's verdict that the managed state is converged is free. What the
  verdict means is `Observer`'s subject; here more is explored than can happen.
- The catalog moves only between runs, since a run works on one commit.
- Of the bindings `verify-evidence` demands four are kept: reference, workflow,
  commit and qualification. The commit also stands for the workflow's, the
  qualification for the digests and the token issuer; those are compared in the
  same way. An App id is a number and its text, since `Build` compares texts and
  the verifier numbers.
- `EvidenceRoundTrips` says that what `Build` emits is what the verifier takes
  unless `VerifierOnly` holds: a founder projection whose workflow is not the
  one on main, or two App ids that are one number in two texts.
- The bound on the number of changes in a document is left out.
- The seven repositories of the founder exception and its expiry are constants.
- A change of the two flags that trust GitHub's own and verified actions is
  judged only where both sides hold the block of an allow-list (`HoldLists`):
  the comparison of lists in the code needs a known boolean on either side.
- What GitHub holds, what may be edited by hand and what may be planned are
  resources of their type (`WellFormed`): they have the arguments the provider
  requires. `ResourceAssumption` says so, for the proofs.
- The adoption plan is made by the workflow with `-target` for the imports
  only, and a step of the workflow counts writes once more. Both are left out,
  so `AdoptChangesNothing` rests on the evidence alone.

## 3. Runs

| Run | Instance | Shows |
|---|---|---|
| `apply_faults` | one run, one attempt, two objects of three values, two commits, every phase, founder or not, acknowledged or not, two disturbances | the diagnostic is honest, success means convergence, writes are reviewed, authorised, late only by a job timeout, and replace what the plan showed |
| `apply_reruns` | one founder run, two attempts (whole or failed job only), three ticks, one disturbance | the workflow refines `GovernedChange`; founder writes end with the exception |
| `apply_concludes` | two runs, one disturbance, weak fairness | one run at a time, and every queued run ends |
| `drift_issue` | three runs, hourly or full, one disturbance, any search lag, two issues | the issue life cycle, and drift surfaces |
| `observe_changing` | either scope, three repositories one per page, an endpoint of each kind, everything as declared at first or nothing, refusals and settings not found, three attempts and three ticks of waiting per read, two changes | what a complete inventory, a complete observation and a silent report are worth; every observation ends |
| `contract_and_doctor` | three files of two jobs: every graph of two calls per file, every placement of permissions along a chain of two calls, every form of reference in a job and in a step, in a file of the inventory and outside it, every combination of pins, checkouts, flags and candidate; the doctor with seven observations and two invocations over one disk | what a valid report promises about the runs expanded later, what an exit status promises about the outputs, and that every invocation ends |
| `plan_evidence` | nineteen estates, each around one kind of resource, two administrators with a third account of one of them, all three phases | what an eligible plan can do to rights, protections, visibility, administrators, removals and property values, wherever its apply stops |
| `plan_orphans` | the migration estate with a catalog that drops a legacy value in the preserve phase | violated: see below |
| `observe_critical` | a critical observation nobody disturbs | violated: see below |
| `enforce_activates` | an undisturbed enforce run after foundation | violated: see below |
| `founder_single_use` | a founder run and its re-run | violated: see below |
| `drift_diagnostic` | a failing step | violated: see below |

Why the bounds suffice. Two disturbances put one before and one after any
check (edit, then edit back; cancel, then lose the runner), which is what a
stale read needs. Two objects give a partial apply; one of them is a ruleset
and one is a team, declared by the first commit and removed by the second, so
creations, updates, removals, expansions, imports and held-back rulesets all
occur. Two commits make main move once past the reviewed one. Lifetimes of one
tick against a clock of two or three make evidence, qualification and exception
expire inside a run. Two runs are what a group with one running and one
waiting place needs to be contended; three are needed before one is replaced
while another runs, as in `drift_issue`. The histories keep no counters, so a
larger bound repeats these cases. In `apply_reruns` main does not move, to keep
the re-runs within reach: that an apply starts only while main is the plan's
commit rests on the theorem `Governance`. In `observe_changing` two changes are what a
count of entries would need to be fooled (a repository created before the page
just read, then deleted: one is read twice, one never), three pages are one
more than the list needs, so that a third repository exceeds the page limit,
and the read budget can be exhausted by attempts, by backoff and by an
instructed wait.

In `contract_and_doctor` three files are the least with a circle that does not
contain its entry, met again through a second caller; two calls to a file give
diamonds. In `plan_evidence` each estate offers at least one change up, down,
away and back for the fields its type is judged by, and catalogs that want each
of them or none, so that each class is reached by a change the catalog asks for
and by one it does not; two writable resources give a plan that is applied by
half. Runs are not counted: an estate may go through any number of them, and
every state it can get into is explored.

`CHECK_DEADLOCK FALSE` in every run but `plan_evidence` and `plan_orphans`: a
workflow run, observation or command that ended with no disturbance, attempt or
tick left is a legitimate end of the model.

### Where the code and its documentation disagree

- `enforce_activates`: the README says `enforce` activates qualified
  protections; preflight refuses `enforce` unless the managed state already
  equals the desired one, which `foundation` prevents for rulesets.
- `founder_single_use`: the receipt of the founder exception is called
  single-use; its consumption is a marker on the runner of one attempt, so a
  re-run mints and consumes another. What does hold is `FounderWriteBound`.
- `drift_diagnostic`: the step that fetches the workflow authorities is not
  among the outcomes the diagnostic looks at; when it fails everything after
  it is skipped and the diagnostic says `clean`. The job still fails and the
  issue is still opened (`DriftSurfaces`, `FailureLeavesOpenIssue`).
- `observe_critical`: the critical scope reads nothing of any repository, but
  the rulesets it compares include merge queues, which the projection takes
  from the rulesets of the repositories. None read counts as no queue, so the
  hourly run reports drift of `merge_queue` in every branch ruleset that
  declares one, however the organization is.
- `plan_orphans`: legacy values of a custom property are to be kept until an
  observation proves that no repository holds them. Code demands that only in
  phase `retire`; a reviewed catalog that stays in `preserve` with a legacy
  value less is planned, eligible and applied while a repository holds it.
  `plan_evidence` shows that `MigrationNeverOrphans` does hold if reviewers
  keep the legacy values until then.

Met while modelling, with no run of their own:

- `Build` takes any workflow reference, while the verifier of a founder
  projection demands the protected-apply workflow on main
  (plan_evidence.go:816), and `Build` compares App ids as texts
  (plan_evidence.go:1034), the verifier as numbers (plan_evidence.go:716). A
  document may be emitted that the verifier refuses, never the reverse. The gate
  of the workflow (protected-apply.yml:126) keeps the first from happening.
- The catalog accepts job calls that the contract refuses (a path that is not
  beside the caller's file, a workflow of an allowed repository), and a shared
  workflow as a step. The contract is the stricter one, so what is wrong is
  found, but only by the command that runs it.
- The doctor's exit status is documented as 1 whenever evidence is incomplete,
  with precedence over drift (README.md:213). A checkout that is absent under a
  given authority root is not counted as incomplete (doctor.go:88): it is a
  mismatch of a contract that is then invalid, and the exit status is 2 although
  nobody read that authority. `VerdictMeansKnown` states what is left.
- A repository deleted while it is observed may leave an observation that is
  complete and holds "off" for a setting that never was (github_diff.go:1112).
  The report then shows a difference in that setting beside the missing
  repository.
- A nightly drift run that waits behind a full run is replaced by the next
  hourly one, since both share one concurrency group (drift-detection.yml:17);
  README.md:197 calls the full run nightly.
- A required workflow that is swapped or removed in an enforced ruleset is
  classified as a routine write (plan_evidence.go:2005), while SECURITY.md:51
  has protection weakening denied. `ProtectionsHold` leaves
  `required_workflows` out for that reason.
- The creator gate of a tag ruleset gains its bypass actors when enforcement
  activates it, which is a protection weakening, so that such a plan is never
  eligible, while README.md:301 says that `enforce` activates protections.
- SECURITY.md:53 admits delete-only revocations; README.md:284 also admits
  governed retirements, which is what the code does.
- Moving from local actions only to selected third-party pins is a routine
  write; README.md:296 asks for an acknowledgement of what gives more. For that
  reason `RightsGrowAcknowledged` and `ProtectionsHold` compare what an
  allow-list admits and whom it trusts only where there is one before and after.
- The founder exemption of public visibility can never apply: the estate the
  exception is bound to has no public repository (theorem `NothingPublic`).
- A setting that is neither in the state nor what the catalog wants is not
  imported and is planned as a creation, so that lowering it is judged as an
  expansion at most. `ProtectionsHold` is about managed or imported resources.
- `VerifyAuthenticated` takes evidence built without App identities if its
  bindings agree; the workflow always supplies them.

### Fairness

`ProtectedApply` assumes weak fairness of each run's own progress (GitHub
starts a waiting run, runners execute the next step or fail it) and of the
answer to an approval, which GitHub itself rejects after thirty days. Nobody
has to dispatch, approve, re-run or edit anything. `DriftDetection` assumes
weak fairness of each run's progress; crons, people and the search index owe
nothing. `Observer` assumes that a request is answered or times out, which
the HTTP client's 20 seconds and the context deadline ensure. `Doctor` assumes
weak fairness of its one process: it goes on as long as it can. `PlanEvidence`
assumes none; it is about safety only.

## 4. Proofs

Every proof is checked to its last leaf and rests on nothing but the named
assumptions of the module it is about, which TLC evaluates in the runs. The
theorems hold for every value of the constants that satisfies them: any number
of runs, objects, files, repositories or issues, any catalog, lifetime and
bound.

### The apply workflow

From `ConstantsAssumption` of `ProtectedApply` (types of the constants, at least
one commit and one attempt, a `NoRun` that is neither a run nor a permit):

| Theorem | Module | Property |
|---|---|---|
| `TypeCorrect` | `_proofs` | `TypeOK` |
| `SingleRun` | `_proofs` | `OneRunAtATime` |
| `InductiveInvariant` | `_proofs` | `Inductive` |
| `HonestDiagnostics` | `_proofs` | `DiagnosticHonest` |
| `OnlyReviewedWrites` | `_proofs` | `ReviewedWritesOnly` |
| `OnlyAuthorisedWrites` | `_proofs` | `AuthorisedWritesOnly` |
| `WritesInTime` | `_proofs` | `LateWriteBound` |
| `FounderWritesBounded` | `_proofs` | `FounderWriteBound` |
| `PlanFits` | `_settled` | `FitInv` |
| `LookedLast` | `_settled` | `LastLook` |
| `SuccessHolds` | `_settled` | `SuccessMeansConverged` |
| `PermitsInOrder` | `_governed` | `GovernedInv` |
| `Governance` | `_governed` | `ChangesAreGoverned` |

The argument. None of these properties is inductive: each speaks of the moment
of a write or of a publication, and what makes it true was checked several
steps earlier. `Inductive` carries those checks forward. `EvidenceBound` says,
for each stage of the apply job, what has been established by then: the
evidence was signed in this attempt and was current when the job began; from
`compare` on the runner's plan is the reviewed one and a founder's receipt was
consumed in time; from `expiry` on the plan is eligible. `WithinTimeout` says
the running job began no more than `JobTimeout` ago, which turns "was current
when the job began" into a bound on late writes. Both need `OneRunAtATime`,
since one runner's files are compared with one run's evidence. `LogBound` says
that a permit enters the histories only once its attempt gets there, and that
an attempt that wrote and is not finished still has its started marker, which
is what the diagnostic publishes; from it `DiagnosticHonest` follows. The
action properties then follow from `Inductive` and one lemma: the only steps
that change `live` are a hand edit and `ApplyChange`.

`FitInv` adds what the apply knows of the organization. From `compare` to
`apply`, as long as no event happened since the plan was recomputed, what the
plan shows and has not done yet is what is live: a plan has one change for an
object (lemma `PlanShape`), so the write of one change leaves the others
right. From the provider check on, as long as no event happened since, that
check still holds. For phases beyond `adopt` the check is that a fresh plan has
no effects, and `ConvergedSettles` derives from the way a plan is made that
every object kept by the reviewed plan then has its planned value.

`GovernedInv` orders the permits: an attempt that has no evidence yet was not
approved and opened no window, one still at the approval was not approved, one
before its apply opened no window, later attempts have done none of it, and an
idle run signed nothing; and the waiting run is queued. `Governance` maps the
evidence of every attempt to a binding and the apply stage to the open window,
and shows of each action which abstract step it is: `PlanCreate` reviews,
`Approve` approves, `CheckSource` opens, `ApplyChange` writes, whatever ends
the apply stage closes (success, failure, cancellation or the loss of the
runner), and the rest is a merge, a hand edit or a stutter.

### Drift detection

From `ConstantsAssumption` of `DriftDetection`:

| Theorem | Property |
|---|---|
| `DriftInvariant` | `DriftInv` |
| `DriftTyped` | `DriftTypeOK` |
| `RecoveryCloses` | `OnlyRecoveryCloses` |
| `FailureLeaves` | `FailureLeavesOpenIssue` |
| `NoDuplicates` | `NoDuplicateOfKnownIssue` |

`DriftInv` has four parts besides the types: only the holder of the group is
in a job (`GroupBound`), only full runs get past the critical checks
(`KindBound`), a diff of zero was taken of an enforced organization and what was
searchable when a run started still is (`KnownBound`), and what each step of the report relies on (`ReportBound`): a result of
success means that no step broke and every exit code was zero, an issue is
closed only on success and written only on failure, the issue at hand exists,
and no disturbance came back that the search had seen. `FailureLeaves` needs
the last one: a report is answerable for an issue only if nobody interfered
since it searched.

### Observer

From `ConstantsAssumption` of `Observer` (types, and that a listing the check
starts from names a repository once):

| Theorem | Property |
|---|---|
| `ObserverInductive` | `Inductive` of that module |
| `CompleteInventories` | `CompleteInventoryMissesNothing` |
| `SilentReports` | `SilenceMeansSeen` |
| `ObserverTyped` | `ObserverTypeOK` |
| `CompleteObservations` | `CompleteMeansSeen` |

The invariant keeps the listing free of repetitions under creation and
deletion (lemmas `ListingInsert`, `ListingRemove`), so that the number in the
organization record is the cardinality of the counted set; a finite set with
as many elements as another that contains it is that set. What was read was
live when it was read or is the "off" of a setting that was not found (`Got`),
unknown values differ from declared ones, and what is left out of the projection
has an error or lies outside the scope or the list, which gives `SilentReports`.
`CompleteObservations` needs more: `CoverBound` says that
nothing is lost from the list of reads still to do, so that as long as no read
was given up every part of the scope is known or still listed, those of the
repositories from the end of the enumeration on.

### Plan evidence

From `AbsentAssumption`, `PhasesAssumption`, `FounderAssumption` (the estate the
exception is bound to has no public repository), `WorldAssumption` (when hands
may edit, what addresses look like), `ResourceAssumption` (resources have the
arguments their type requires) and `CatalogAssumption` (finitely many people,
the two phases of a migration):

| Theorem | Property |
|---|---|
| `PlanEvidence_proofs!Invariant` | `IInv` |
| `RunsCurrent` | `Current` |
| `PlanTyped` | `PlanTypeOK` |
| `RoundTrips` | `EvidenceRoundTrips` |
| `AdoptionIsReadOnly` | `AdoptChangesNothing` |
| `RemovalsReviewed` | `RemovalsAreReviewed` |
| `NothingPublic` | `NothingGoesPublic` |
| `RightsAcknowledged` | `RightsGrowAcknowledged` |
| `ProtectionsKept` | `ProtectionsHold` |
| `QuorumSurvives` | `AdminQuorumSurvives`, if `PeopleLeftAlone` |
| `MigrationOrphansNothing` | `MigrationNeverOrphans`, if `LegacyKept` |

`IInv` says what a run's documents stand for at each step: a verified plan is
the run's own, its decision is the one `Build` takes on it, a deletion has an
empty `after`, and a `before` is what is live or nothing. `Current` says what the
run may still rely on when it acts: the observation is what GitHub holds but
for what hands may edit between observation and plan, the preflight passed on
that observation with the catalog that is still on main, and a change of a
managed or imported address was planned from what is live there. Nothing is
assumed of the catalogs or of what OpenTofu proposes beyond the form of
resources, so the results hold of plans that the catalog does not ask for.

The properties of an apply then follow from the decision. An address that an
apply leaves other than it was was written by a change of the plan, none of
whose classes is fundamental (`VerifiedClasses`, `CleanWrite`, `AppliedChange`):
it is a creation, possible only where nothing is managed, or an update within
the write contract, and it was acknowledged if it is an expansion. What such an
update does is a statement about the classifier alone. `UpdateGivesNoMore` goes
through every right and `UpdateProtectsNoLess` through every protection and
opening: either a rule compares that field, whatever the type, or the rule is
about one type, and then the write contract lets no other type change the field
(`DifferingPath`, `PathOwners`). The second half is where the proof needs the
provider's required arguments: the rules on lists compare nothing where one
side has no list, so a ruleset that had no conditions at all could be given
exclusions unnoticed.

`QuorumSurvives` starts from the count of the preflight. Each administrator
counted was observed, and is live if nobody edits memberships meanwhile
(`PeopleLeftAlone`); a deletion of that membership is a revocation only if the
catalog dropped the person, any other write must give the role the catalog
names (`AdminKept`), so the people counted are among those who are left.

`MigrationOrphansNothing` spans rollouts, so it needs an invariant of its own:
`ValuesCirculate`, that a repository holds only what it held at first, what
somebody may set by hand, or what a catalog merged so far assigns. `LegacyKept`
is what reviewers owe, since no code demands it: each catalog allows what it
assigns, in the preserve phase it allows or lists as legacy everything in
circulation, and later it assigns a value to each repository that holds one. A new definition then allows
what stays (`DefinitionKeeps`): in the preserve phase by that duty, after it
because preflight-time convergence is demanded by the classifier
(`AssignmentsConverged`) and still true. That GitHub refuses a value which is
not defined covers the assignments an apply writes before the definition.

Both hypotheses are about `World` alone and are evaluated by TLC in every run
of `MCPlanEvidence`: the estates of `plan_evidence` satisfy them, and that of
`plan_orphans` does not satisfy `LegacyKept`, which is why its run is violated.

### Workflow contract and doctor

From `ContractConstants` of `WorkflowContract` and `DoctorConstants` of `Doctor`:

| Theorem | Property |
|---|---|
| `WorkflowContract_proofs!Invariant` | `IInv` |
| `ContractTyped` | `ContractTypeOK` |
| `NoRecursion` | `CallsNeverRecur` |
| `GrantsCover` | `GrantCoversEveryDepth` |
| `StaysReviewed` | `RequiredMeansClosed` |
| `OnePinRule` | `CatalogAndContractAgree` |
| `CyclesExact` | `CyclesFoundExactly` |
| `DoctorRunsContract` | every run of `Doctor` is a run of `WorkflowContract` |
| `DoctorInvariant` | `DoctorInv` |
| `NeverHalf` | `OutputsWhole` |
| `ExitPublished` | `ExitMeansPublished` |
| `VerdictKnown` | `VerdictMeansKnown` |

The walk is depth-first and GitHub's expansion is not, so what a run needs is
an order: `WalkSound` says that finished files have ranks, that the files on
the stack call one another from bottom to top, and that a finished file calls
only files of smaller rank unless a circle was reported. A chain of calls then
descends in rank (`ChainSound`), hence enters no file twice. `CyclesReal` is the
converse, that what is reported is a circle. `CheckSound` says what the absence
of a violation at one call means; by induction along the chain, which is part of
the invariant, the outermost grant covers what is required at every depth. `OnePinRule` goes
through the five kinds of reference: a violation at one the catalog accepted is
at a reference only the catalog has a rule for.

`DoctorInv` says where the command stands, that an output is whole because it
arrives by rename, that Markdown is written after JSON of the same
invocation (`WritesOrdered`), and that a report is judged from the checks at
hand (`Judged`). It uses the contract's invariant by way of the refinement.
`VerdictKnown` splits on how each authority was checked: with a root given, one
that was not read left a mismatch, which makes the contract invalid and rules
out "healthy".

### What is only model-checked

- Liveness (`RunsConclude`, `DriftSurfaces`, `ObservationEnds`, `CommandEnds`):
  its proof needs ENABLED, which the prover does not reason about.
- What the pure operators compute where no property of an apply depends on it:
  OIDC subjects, deployment policies, property semantics and the preflight
  blockers other than the quorum are run by `plan_evidence` and not reasoned
  about.

Every invariant and action property of the passing runs is also a theorem.

## 5. Not modelled, and why

- Comparison (`internal/diff`): the recursive comparison of two JSON trees,
  its truncation and redaction, the projections of split rulesets, nested lists
  that carry a total count. `Observer` compares parts as values. These are
  functions of documents without state; what they get wrong is found by a unit
  test.
- Review gate (`protected-apply.yml:222`): the selection of the latest review of
  each user is one flag in `ProtectedApply`. Reviews are read once; nothing in
  the code promises to notice one that is withdrawn later.
- Founder bypass evidence: a validator of one document, whose effect is the
  founder mode of `ProtectedApply` and the founder exemption of
  `PlanClassifier`.
- Catalog: strict YAML decoding, JSON schemas and most cross-references are
  total functions of their input; the checks of pins and checkouts, which
  share a rule with the workflow contract, are in `WorkflowContract`.
- OpenTofu: providers, the state lock and its encryption. An import, a plan and
  an apply are modelled by what they read and write.
- Command line: parsing of flags and the commands that only render.
- Canonical JSON, redaction and the wording of reports.
- The Rego rules (stateless, and evaluated by a tool that is not part of the
  repository), Renovate, the pull-request workflow, the CI usage report and the
  authority sync tool: none keeps state of this system.

Worth doing next: `Comparison` as operators checked against a reference over
small trees; the review gate as a sequence of reviews with comments between
them; an abstract specification of `PlanEvidence`, whose steps are acknowledged
expansions, reviewed removals and protective writes.
