-------------------------- MODULE WorkflowContract --------------------------
(***************************************************************************)
(* The workflow contract: `github-configctl workflow-contract` loads the   *)
(* workflow files of the reviewed authorities and of a candidate, checks   *)
(* every job of every file, walks the graph of reusable calls and reports  *)
(* "valid" or "invalid".  What a valid report promises is about code that  *)
(* runs later, so the model goes on: GitHub expands the calls of a job of  *)
(* a checked workflow, one nested call at a time.                          *)
(*                                                                         *)
(* A workflow file is a value of `world.source`, indexed by the key the    *)
(* code builds (repository, name, exact revision); a permission is a level *)
(* per scope, 0 none, 1 read, 2 write.  A `uses`, of a job or of a step,   *)
(* is one of five kinds of reference: the text decides which, its place    *)
(* does not, and the catalog and the contract each read it their own way.  *)
(***************************************************************************)
EXTENDS Naturals, Sequences, FiniteSets

CONSTANTS
  Repository, Name, Revision, Job, Scope, Input, Source, Commit,
  AllScope,     \* the scopes that read-all and write-all stand for
  Local,        \* github-config, the repository the command runs in
  Shared,       \* .github, whose reusable workflows have a pin of their own
  SharedCode,   \* the second checkout of it, .github-implementation
  LocalInventory,  \* the canonical workflows of github-config
  Nothing,      \* no revision, no file, no reference
  Worlds        \* what the command can be started on

Key == [repository: Repository, name: Name, revision: Revision]

Level == 0..2
Permissions == [Scope -> Level]

(* The value of a permissions key: a word, or a map from scopes to levels. *)
IsPermissionValue(value) ==
  /\ DOMAIN value = {"text", "map"}
  /\ DOMAIN value.map \subseteq Scope

(* A workflow file beside the caller's; any other local path; a workflow file of
   a repository of the organization at a commit; any other source at a commit;
   and what is at no commit.  `inside` is the catalog's test of a local path,
   `canonical` the contract's. *)
Use == [kind: {"relative"}, name: Name]
         \cup [kind: {"path"}, inside: BOOLEAN, canonical: BOOLEAN]
         \cup [kind: {"pinned"}, repository: Repository, name: Name, revision: Revision]
         \cup [kind: {"action"}, source: Source, commit: Commit]
         \cup [kind: {"floating"}]

Step == [uses: Use, needs: Permissions]

IsJob(job) ==
  /\ job.uses \in Use \cup {Nothing}
  /\ job.permissions # Nothing => IsPermissionValue(job.permissions)
  /\ job.steps \subseteq Step
  /\ job.with \subseteq Input
  /\ job.inherit \in BOOLEAN

IsWorkflow(file) ==
  /\ file.callable \in BOOLEAN
  /\ file.inputs \subseteq Input /\ file.required \subseteq file.inputs
  /\ IsPermissionValue(file.permissions)
  /\ \A j \in Job : IsJob(file.jobs[j])

Authority == [state: {"reviewed", "blocked"}, revision: Revision \cup {Nothing},
              implementation: Revision \cup {Nothing}, workflows: SUBSET Name]

(* What one invocation sees: the files of every commit (`source`), the
   ActionsPolicy (`allowed`, `authority`), the managed repositories, the
   checkouts on disk (`head`), the flags and the two variables of the
   environment. *)
IsWorld(w) ==
  /\ DOMAIN w.source \subseteq Key /\ IsFiniteSet(DOMAIN w.source)
  /\ \A key \in DOMAIN w.source : IsWorkflow(w.source[key])
  /\ DOMAIN w.allowed \subseteq Source \cup Repository
  /\ DOMAIN w.authority \subseteq Repository \ {Local}
  /\ \A r \in DOMAIN w.authority : w.authority[r] \in Authority
  /\ w.managed \subseteq Repository
  /\ w.head \in [Repository \cup {SharedCode} -> Revision \cup {Nothing}]
  /\ {w.authorityRoot, w.requireAuthorities, w.environmentRoot, w.environmentRequires}
       \subseteq BOOLEAN
  /\ w.candidate \in Repository \cup {Nothing}
  /\ w.candidateHead \in Revision \cup {Nothing}

ASSUME ContractConstants ==
  /\ {Local, Shared} \subseteq Repository
  /\ AllScope \subseteq Scope /\ LocalInventory \subseteq Name
  /\ Nothing \notin Repository \cup Revision \cup Commit \cup Use \cup Key
  /\ \A w \in Worlds : IsWorld(w)

VARIABLES
  world,        \* fixed by the invocation
  phase,        \* "load", "check", "walk", then "valid", "invalid" or "error"
  files,        \* the keys of the index
  checked,      \* repository -> status of its authority
  violations,   \* the codes reported so far, each with its place
  colour,       \* 0 unvisited, 1 on the stack, 2 finished
  stack,        \* the keys being visited
  todo,         \* the jobs of a visited key not looked at yet
  rank,         \* history: the order in which keys were finished
  chain,        \* the nested calls GitHub has expanded, outermost first
  grant,        \* the permissions of the outermost calling job
  outside       \* the last call left the files the report was made from

vars == <<world, phase, files, checked, violations, colour, stack, todo, rank,
          chain, grant, outside>>

-----------------------------------------------------------------------------
(* Permissions *)

LevelOf(text) == IF text = "write" THEN 2 ELSE IF text = "read" THEN 1 ELSE 0

ParsePermissions(value) ==
  [s \in Scope |->
     CASE value.text = "map" -> IF s \in DOMAIN value.map THEN LevelOf(value.map[s]) ELSE 0
       [] value.text = "write-all" /\ s \in AllScope -> 2
       [] value.text = "read-all" /\ s \in AllScope -> 1
       [] OTHER -> 0]

JobOf(key, j) == world.source[key].jobs[j]

(* The permissions a job runs with: its own, else the file's. *)
Effective(key, j) ==
  ParsePermissions(IF JobOf(key, j).permissions = Nothing
                   THEN world.source[key].permissions ELSE JobOf(key, j).permissions)

(* The levels whose maximum is the permission a called file requires. *)
Required(key, s) ==
  {ParsePermissions(world.source[key].permissions)[s]}
    \cup {Effective(key, j)[s] : j \in Job}
    \cup UNION {{step.needs[s] : step \in JobOf(key, j).steps} : j \in Job}

-----------------------------------------------------------------------------
(* References *)

(* Nothing stands for no key: a job calls a workflow file beside its own, or one
   of the organization at an exact commit, and nothing else. *)
Resolve(key, use) ==
  CASE use # Nothing /\ use.kind = "relative" -> [key EXCEPT !.name = use.name]
    [] use # Nothing /\ use.kind = "pinned" ->
         [repository |-> use.repository, name |-> use.name, revision |-> use.revision]
    [] OTHER -> Nothing

Callee(key, j) == Resolve(key, JobOf(key, j).uses)

(* The commit an authority's workflows are called at, and where it is on disk. *)
Pin(r) ==
  IF r = Shared THEN world.authority[r].implementation ELSE world.authority[r].revision
CheckoutHead(r) == world.head[IF r = Shared THEN SharedCode ELSE r]

AtReviewedPin(key) ==
  /\ key.repository \in DOMAIN world.authority
  /\ world.authority[key.repository].state = "reviewed"
  /\ key.revision = Pin(key.repository)

MatchesAuthority(callee, caller) ==
  \/ callee.repository = caller.repository /\ callee.revision = caller.revision
  \/ AtReviewedPin(callee)

(* A repository whose checkout was loaded must hold what is called from it; the
   candidate's own files replace nothing a caller elsewhere expects. *)
ExpectedLoaded(callee, caller) ==
  \/ callee.repository = caller.repository /\ callee.revision = caller.revision
  \/ callee.repository \in DOMAIN checked /\ checked[callee.repository] = "checked"

-----------------------------------------------------------------------------
(* The catalog is compiled first and checks the pins of the canonical files on
   its own; when it refuses there is no report. *)

AllowedPin(source, commit) ==
  source \in DOMAIN world.allowed /\ world.allowed[source] = commit

(* The contract's rule for the `uses` of a step. *)
ActionAllowed(use) ==
  \/ use.kind = "relative"
  \/ use.kind = "path" /\ use.canonical
  \/ use.kind = "pinned" /\ AllowedPin(use.repository, use.revision)
  \/ use.kind = "action" /\ AllowedPin(use.source, use.commit)

FilesAt(repository, revision) ==
  {key \in DOMAIN world.source : key.repository = repository /\ key.revision = revision}

Inventory(r, revision) ==
  {[repository |-> r, name |-> n, revision |-> revision] :
     n \in world.authority[r].workflows}

ReviewedAuthorities == {r \in DOMAIN world.authority : world.authority[r].state = "reviewed"}

AuthorityWellFormed(r) ==
  LET declared == world.authority[r] IN
  /\ (declared.state = "reviewed") <=> (declared.revision # Nothing)
  /\ IF r = Shared THEN declared.implementation \notin {Nothing, declared.revision}
                   ELSE declared.implementation = Nothing

CatalogCheckouts ==
  world.environmentRoot =>
    \A r \in ReviewedAuthorities :
      /\ world.head[r] = world.authority[r].revision
      /\ r = Shared => world.head[SharedCode] = world.authority[r].implementation

(* A checkout without a workflow directory is a fixture, and is passed over. *)
LocalCatalogFiles ==
  IF FilesAt(Local, world.head[Local]) = {} THEN {}
  ELSE {[repository |-> Local, name |-> n, revision |-> world.head[Local]] : n \in LocalInventory}

CatalogFiles ==
  LocalCatalogFiles
    \cup (IF world.environmentRoot
          THEN UNION {Inventory(r, world.authority[r].revision) : r \in ReviewedAuthorities}
               \cup (IF Shared \in ReviewedAuthorities
                     THEN Inventory(Shared, world.authority[Shared].implementation) ELSE {})
          ELSE {})

(* Whatever is no workflow of the shared repository, in a job or in a step. *)
OrdinaryUse(use) ==
  \/ use.kind = "relative"
  \/ use.kind = "path" /\ use.inside
  \/ use.kind = "pinned" /\ use.repository # Shared /\ AllowedPin(use.repository, use.revision)
  \/ use.kind = "action" /\ AllowedPin(use.source, use.commit)

DeclaredShared(use) ==
  /\ use.kind = "pinned" /\ use.repository = Shared
  /\ Shared \in ReviewedAuthorities
  /\ use.name \in world.authority[Shared].workflows

UseNamed(use) ==   \* mutant: any commit of a declared shared workflow
  OrdinaryUse(use) \/ DeclaredShared(use)

(* The catalog's one rule for every `uses` of a file. *)
UsePinned(use) ==
  \/ OrdinaryUse(use)
  \/ DeclaredShared(use) /\ use.revision = world.authority[Shared].implementation

UsesOf(key) ==
  {JobOf(key, j).uses : j \in {i \in Job : JobOf(key, i).uses # Nothing}}
    \cup UNION {{step.uses : step \in JobOf(key, j).steps} : j \in Job}

CatalogAccepts ==
  /\ \A r \in DOMAIN world.authority : AuthorityWellFormed(r)
  /\ world.environmentRequires =>
       world.environmentRoot /\ ReviewedAuthorities = DOMAIN world.authority
  /\ CatalogCheckouts
  /\ \A key \in CatalogFiles :
       key \in DOMAIN world.source /\ \A use \in UsesOf(key) : UsePinned(use)

-----------------------------------------------------------------------------
(* Loading *)

LocalHead == IF world.candidate = Local THEN world.candidateHead ELSE world.head[Local]

AuthorityStatus(r) ==
  LET declared == world.authority[r] IN
  CASE declared.state # "reviewed" -> "blocked"
    [] declared.state = "reviewed" /\ ~world.authorityRoot ->
         IF world.requireAuthorities THEN "missing" ELSE "not_provided"
    [] OTHER -> IF CheckoutHead(r) = Pin(r) THEN "checked" ELSE "mismatch"

Remote == DOMAIN world.authority \ {Local}

AuthorityFiles ==
  UNION {Inventory(r, Pin(r)) : r \in {x \in Remote : AuthorityStatus(x) = "checked"}}

HasOverlay == world.candidate \notin {Nothing, Local}

OverlayFiles == FilesAt(world.candidate, world.candidateHead)

(* No checkout at an exact commit has no files either. *)
LoadFails ==
  \/ ~CatalogAccepts
  \/ FilesAt(Local, LocalHead) = {}
  \/ ~(AuthorityFiles \subseteq DOMAIN world.source)
  \/ HasOverlay /\ (world.candidate \notin world.managed \/ OverlayFiles = {})

LoadedFiles ==
  LET base == FilesAt(Local, LocalHead) \cup AuthorityFiles
      replaced == {key \in base : /\ key.repository = world.candidate
                                  /\ key.revision = world.candidateHead}
  IN IF HasOverlay THEN (base \ replaced) \cup OverlayFiles ELSE base

AuthorityMismatchesOnly ==   \* mutant: a required checkout that is absent is not reported
  {<<"AUTHORITY_REVISION_MISMATCH", r>> :
     r \in {x \in Remote : AuthorityStatus(x) = "mismatch"}}

AuthorityViolations ==
  {<<"AUTHORITY_UNAVAILABLE", r>> : r \in {x \in Remote : AuthorityStatus(x) = "missing"}}
    \cup {<<"AUTHORITY_REVISION_MISMATCH", r>> :
            r \in {x \in Remote : AuthorityStatus(x) = "mismatch"}}

Load ==
  /\ phase = "load"
  /\ IF LoadFails
       THEN /\ phase' = "error"
            /\ UNCHANGED <<files, checked, violations>>
       ELSE /\ phase' = "check"
            /\ files' = LoadedFiles
            /\ checked' = [r \in Remote \cup {Local} |->
                             IF r = Local THEN "checked" ELSE AuthorityStatus(r)]
            /\ violations' = AuthorityViolations
  /\ UNCHANGED <<world, colour, stack, todo, rank, chain, grant, outside>>

-----------------------------------------------------------------------------
(* Checking every file on its own *)

ParameterViolations(key, j, callee) ==
  LET interface == world.source[callee]
      given == JobOf(key, j).with
  IN {<<"REUSABLE_UNKNOWN_INPUT", key, j, i>> : i \in given \ interface.inputs}
       \cup {<<"REUSABLE_REQUIRED_INPUT_MISSING", key, j, i>> :
               i \in interface.required \ given}

CeilingOfAnyGrant(key, j, callee) ==   \* mutant: any grant of the scope will do
  {<<"REUSABLE_PERMISSION_CEILING", key, j, s>> :
     s \in {x \in Scope : Effective(key, j)[x] = 0 /\ \E level \in Required(callee, x) : level > 0}}

CeilingViolations(key, j, callee) ==
  {<<"REUSABLE_PERMISSION_CEILING", key, j, s>> :
     s \in {x \in Scope : \E level \in Required(callee, x) : Effective(key, j)[x] < level}}

LoadedCallViolations(key, j, callee) ==
  IF ~world.source[callee].callable
  THEN {<<"REUSABLE_WORKFLOW_CALL_UNDECLARED", key, j, callee>>}
  ELSE ParameterViolations(key, j, callee) \cup CeilingViolations(key, j, callee)
         \cup (IF JobOf(key, j).inherit
               THEN {<<"SECRETS_INHERIT_FORBIDDEN", key, j, callee>>} ELSE {})

ResolvedCallViolations(key, j, callee) ==
  (IF MatchesAuthority(callee, key) THEN {}
   ELSE {<<"REUSABLE_WORKFLOW_AUTHORITY_MISMATCH", key, j, callee>>})
    \cup (CASE callee \in files -> LoadedCallViolations(key, j, callee)
            [] callee \notin files /\ ExpectedLoaded(callee, key) ->
                 {<<"REUSABLE_WORKFLOW_UNRESOLVED", key, j, callee>>}
            [] OTHER -> {})

CallViolations(key, j) ==
  CASE JobOf(key, j).uses = Nothing -> {}
    [] JobOf(key, j).uses # Nothing /\ Callee(key, j) = Nothing ->
         {<<"REUSABLE_WORKFLOW_PIN_INVALID", key, j, Nothing>>}
    [] OTHER -> ResolvedCallViolations(key, j, Callee(key, j))

StepViolations(key, j) ==
  {<<"ACTION_REFERENCE", key, j, step.uses>> :
     step \in {x \in JobOf(key, j).steps : ~ActionAllowed(x.uses)}}
    \cup {<<"SEMANTIC_PERMISSION_MISSING", key, j, step.uses>> :
            step \in {x \in JobOf(key, j).steps :
                        \E s \in Scope : Effective(key, j)[s] < x.needs[s]}}

FileViolations(key) == UNION {CallViolations(key, j) \cup StepViolations(key, j) : j \in Job}

Check ==
  /\ phase = "check"
  /\ phase' = "walk"
  /\ violations' = violations \cup UNION {FileViolations(key) : key \in files}
  /\ UNCHANGED <<world, files, checked, colour, stack, todo, rank, chain, grant, outside>>

-----------------------------------------------------------------------------
(* The walk over the graph of reusable calls *)

Top == stack[Len(stack)]

WalkUnchanged == UNCHANGED <<world, files, checked, chain, grant, outside>>

StartVisit(key) ==
  /\ phase = "walk" /\ stack = <<>>
  /\ key \in files /\ colour[key] = 0
  /\ colour' = [colour EXCEPT ![key] = 1]
  /\ stack' = Append(stack, key)
  /\ todo' = [todo EXCEPT ![key] = Job]
  /\ UNCHANGED <<phase, violations, rank>> /\ WalkUnchanged

VisitJobBlind(j) ==   \* mutant: a file that calls itself is taken for a finished one
  /\ phase = "walk" /\ stack # <<>> /\ j \in todo[Top]
  /\ LET callee == Callee(Top, j)
         rest == [todo EXCEPT ![Top] = @ \ {j}]
     IN IF callee \in files /\ colour[callee] = 0
        THEN /\ colour' = [colour EXCEPT ![callee] = 1]
             /\ stack' = Append(stack, callee)
             /\ todo' = [rest EXCEPT ![callee] = Job]
             /\ UNCHANGED violations
        ELSE /\ violations' = violations \cup
                  (IF callee \in files \ {Top} /\ colour[callee] = 1
                   THEN {<<"REUSABLE_WORKFLOW_CYCLE", callee>>} ELSE {})
             /\ todo' = rest
             /\ UNCHANGED <<colour, stack>>
  /\ UNCHANGED <<phase, rank>> /\ WalkUnchanged

(* One job of the file on top of the stack. *)
VisitJob(j) ==
  /\ phase = "walk" /\ stack # <<>> /\ j \in todo[Top]
  /\ LET callee == Callee(Top, j)
         rest == [todo EXCEPT ![Top] = @ \ {j}]
     IN IF callee \in files /\ colour[callee] = 0
        THEN /\ colour' = [colour EXCEPT ![callee] = 1]
             /\ stack' = Append(stack, callee)
             /\ todo' = [rest EXCEPT ![callee] = Job]
             /\ UNCHANGED violations
        ELSE /\ violations' = violations \cup
                  (IF callee \in files /\ colour[callee] = 1
                   THEN {<<"REUSABLE_WORKFLOW_CYCLE", callee>>} ELSE {})
             /\ todo' = rest
             /\ UNCHANGED <<colour, stack>>
  /\ UNCHANGED <<phase, rank>> /\ WalkUnchanged

PopVisit ==   \* mutant: the popped file is not marked as finished
  /\ phase = "walk" /\ stack # <<>> /\ todo[Top] = {}
  /\ stack' = SubSeq(stack, 1, Len(stack) - 1)
  /\ UNCHANGED <<phase, colour, violations, todo, rank>> /\ WalkUnchanged

FinishVisit ==
  /\ phase = "walk" /\ stack # <<>> /\ todo[Top] = {}
  /\ colour' = [colour EXCEPT ![Top] = 2]
  /\ rank' = [rank EXCEPT ![Top] = Cardinality({key \in files : colour[key] = 2})]
  /\ stack' = SubSeq(stack, 1, Len(stack) - 1)
  /\ UNCHANGED <<phase, violations, todo>> /\ WalkUnchanged

Report ==
  /\ phase = "walk" /\ stack = <<>>
  /\ \A key \in files : colour[key] = 2
  /\ phase' = IF violations = {} THEN "valid" ELSE "invalid"
  /\ UNCHANGED <<violations, colour, stack, todo, rank>> /\ WalkUnchanged

-----------------------------------------------------------------------------
(* GitHub expands the reusable calls of a run of a checked file. *)

Call(key, j) ==
  LET callee == Callee(key, j) IN
  /\ callee # Nothing
  /\ IF callee \in files
       THEN chain' = Append(IF chain = <<>> THEN <<key>> ELSE chain, callee) /\ UNCHANGED outside
       ELSE outside' = TRUE /\ UNCHANGED chain
  /\ UNCHANGED <<world, phase, files, checked, violations, colour, stack, todo, rank>>

Trigger(key, j) ==
  /\ phase = "valid" /\ chain = <<>> /\ ~outside /\ key \in files
  /\ Call(key, j)
  /\ grant' = Effective(key, j)

NestedCall(j) ==
  /\ chain # <<>> /\ ~outside
  /\ Call(chain[Len(chain)], j)
  /\ UNCHANGED grant

-----------------------------------------------------------------------------
Unvisited == [key \in Key |-> 0]
NoJobs == [key \in Key |-> {}]
NoGrant == [s \in Scope |-> 0]

Init ==
  /\ world \in Worlds
  /\ phase = "load"
  /\ files = {} /\ checked = <<>> /\ violations = {}
  /\ colour = Unvisited /\ rank = Unvisited /\ todo = NoJobs
  /\ stack = <<>> /\ chain = <<>>
  /\ grant = NoGrant
  /\ outside = FALSE

(* The command keeps nothing between invocations. *)
Invoke(w) ==
  /\ world' = w
  /\ phase' = "load"
  /\ files' = {} /\ checked' = <<>> /\ violations' = {}
  /\ colour' = Unvisited /\ rank' = Unvisited /\ todo' = NoJobs
  /\ stack' = <<>> /\ chain' = <<>>
  /\ grant' = NoGrant
  /\ outside' = FALSE

Validate ==
  \/ Load
  \/ Check
  \/ \E key \in Key : StartVisit(key)
  \/ \E j \in Job : VisitJob(j)
  \/ FinishVisit
  \/ Report

Run ==
  \/ \E key \in Key, j \in Job : Trigger(key, j)
  \/ \E j \in Job : NestedCall(j)

Next == Validate \/ Run \/ \E w \in Worlds : Invoke(w)
Spec == Init /\ [][Next]_vars

-----------------------------------------------------------------------------
ContractTypeOK ==
  /\ phase \in {"load", "check", "walk", "valid", "invalid", "error"}
  /\ files \subseteq Key
  /\ colour \in [Key -> 0..2]
  /\ stack \in Seq(files)
  /\ todo \in [Key -> SUBSET Job]
  /\ rank \in [Key -> Nat]
  /\ chain \in Seq(files)
  /\ grant \in Permissions
  /\ outside \in BOOLEAN
  /\ \A key \in Key : colour[key] = 1 <=> \E i \in DOMAIN stack : stack[i] = key

Reported == phase \in {"valid", "invalid"}

(* A non-empty set of files each of which calls another of the set. *)
Cyclic ==
  \E S \in SUBSET files :
    S # {} /\ \A key \in S : \E j \in Job : Callee(key, j) \in S

(* The walk reports a cycle exactly when the loaded files call one another in a
   circle, whatever the order in which files and jobs are visited
   (validateCycles). *)
CyclesFoundExactly ==
  Reported => ((\E key \in files : <<"REUSABLE_WORKFLOW_CYCLE", key>> \in violations) <=> Cyclic)

(* No file is entered twice by the nested calls of a run whose files the report
   calls valid. *)
CallsNeverRecur == \A i, k \in 1..Len(chain) : i # k => chain[i] # chain[k]

(* However deep a call is nested, what the called file's jobs and actions
   require is granted by the job the run started from, although every call is
   checked against its direct caller only (validateReusableCall). *)
GrantCoversEveryDepth ==
  \A i \in 2..Len(chain), s \in Scope : \A level \in Required(chain[i], s) : level <= grant[s]

Reviewed(key) ==
  \/ key.repository = Local /\ key.revision = LocalHead
  \/ key.repository = world.candidate /\ key.revision = world.candidateHead
  \/ AtReviewedPin(key)

(* With --require-authorities a valid report means that a run never leaves the
   loaded files, that every file it enters is at a reviewed revision (or the
   candidate's) and that every action of it is one of the allowed pins or lies
   at a canonical path beside it. *)
RequiredMeansClosed ==
  /\ outside => ~world.requireAuthorities
  /\ \A i \in 1..Len(chain) :
       /\ Reviewed(chain[i])
       /\ \A j \in Job : \A step \in JobOf(chain[i], j).steps : ActionAllowed(step.uses)

PinCodes == {"REUSABLE_WORKFLOW_PIN_INVALID", "REUSABLE_WORKFLOW_AUTHORITY_MISMATCH",
             "ACTION_REFERENCE"}

(* What only the catalog has a rule for: it judges every reference alike, while
   the contract knows two forms of call and takes no shared workflow for an
   action. *)
OnlyCatalogCalls(use) ==
  use.kind \in {"path", "action"} \/ (use.kind = "pinned" /\ use.repository # Shared)
OnlyCatalogSteps(use) ==
  (use.kind = "path" /\ ~use.canonical) \/ (use.kind = "pinned" /\ use.repository = Shared)

(* The catalog and the contract check pins with code of their own.  Where both
   have a rule (a call of a file beside the caller's or of a shared workflow, a
   step at a canonical path or at an allowed pin) the contract refuses nothing
   that the catalog accepted (validateCanonicalWorkflowPins, validateReusableCall,
   validateActionReference). *)
CatalogAndContractAgree ==
  \A v \in violations : v[1] \in PinCodes /\ v[2] \in CatalogFiles =>
    IF v[1] = "ACTION_REFERENCE" THEN OnlyCatalogSteps(v[4])
                                 ELSE OnlyCatalogCalls(JobOf(v[2], v[3]).uses)

Ended == Reported \/ phase = "error"
=============================================================================
