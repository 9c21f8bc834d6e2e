----------------------- MODULE WorkflowContract_proofs -----------------------
(***************************************************************************)
(* Proofs about WorkflowContract for every set of repositories, files,     *)
(* permissions, pins and checkouts, and any graph of reusable calls.       *)
(***************************************************************************)
EXTENDS WorkflowContract, FiniteSetTheorems, SequenceTheorems, WellFoundedInduction, TLAPS

-----------------------------------------------------------------------------
(* The inductive invariant: what a phase may rely on of the phases before. *)

Loaded == {"check", "walk", "valid", "invalid"}
Checked == {"walk", "valid", "invalid"}

\* What loading leaves: the reviewed files, and no authority left out unnoticed.
LoadSound ==
  phase \in Loaded =>
    /\ CatalogAccepts
    /\ files \subseteq DOMAIN world.source
    /\ \A key \in files : Reviewed(key)
    /\ DOMAIN checked = Remote \cup {Local} /\ checked[Local] = "checked"
    /\ \A r \in Remote : checked[r] = AuthorityStatus(r)
    /\ \A r \in Remote : checked[r] = "mismatch" => <<"AUTHORITY_REVISION_MISMATCH", r>> \in violations
    /\ violations = {} => \A r \in Remote : checked[r] \notin {"missing", "mismatch"}

\* A call that was checked without a violation, and an action that was.
CallSound(key, j) ==
  \A callee \in Key : callee = Callee(key, j) =>
    /\ MatchesAuthority(callee, key)
    /\ IF callee \in files
       THEN \A s \in Scope : \A level \in Required(callee, s) : level <= Effective(key, j)[s]
       ELSE ~ExpectedLoaded(callee, key)

ActionsSound(key, j) == \A action \in JobOf(key, j).steps : ActionAllowed(action.uses)

CheckSound ==
  phase \in Checked /\ violations = {} =>
    \A key \in files, j \in Job : CallSound(key, j) /\ ActionsSound(key, j)

Finished == {key \in files : colour[key] = 2}

\* The walk so far, as long as it met no cycle: a finished file calls files that
\* were finished before it, and a file on the stack waits for the one above it.
FinishedRanked ==
  /\ \A key \in Finished : rank[key] < Cardinality(Finished)
  /\ \A key \in Finished, j \in Job : Callee(key, j) \in files =>
       Callee(key, j) \in Finished /\ rank[Callee(key, j)] < rank[key]

StackWaits ==
  \A i \in 1..Len(stack) : \A j \in Job \ todo[stack[i]] : Callee(stack[i], j) \in files =>
    \/ Callee(stack[i], j) \in Finished
    \/ i < Len(stack) /\ Callee(stack[i], j) = stack[i+1]

CycleMet == \E key \in files : <<"REUSABLE_WORKFLOW_CYCLE", key>> \in violations

StackCalls ==
  \A i \in 1..Len(stack) - 1 : \E j \in Job : Callee(stack[i], j) = stack[i+1]

WalkSound ==
  /\ phase \notin Checked => colour = Unvisited /\ stack = <<>>
  /\ \A key \in Key : colour[key] # 0 => key \in files
  /\ \A i, k \in 1..Len(stack) : i # k => stack[i] # stack[k]
  /\ ~CycleMet => FinishedRanked /\ StackWaits

CyclesReal == StackCalls /\ (CycleMet => Cyclic)

ReportSound ==
  /\ phase = "valid" => violations = {}
  /\ Reported => files = Finished

\* The nested calls of a run: each goes down the ranks of the walk and stays
\* below the grant of the first.
ChainSound ==
  /\ chain # <<>> => phase = "valid" /\ Len(chain) >= 2
  /\ \A i, k \in 1..Len(chain) : i < k => rank[chain[k]] < rank[chain[i]]
  /\ GrantCoversEveryDepth

OutsideSound == outside => ~world.requireAuthorities

IInv ==
  /\ ContractTypeOK /\ world \in Worlds
  /\ LoadSound /\ CatalogAndContractAgree /\ CheckSound
  /\ WalkSound /\ CyclesReal /\ ReportSound /\ ChainSound /\ OutsideSound

-----------------------------------------------------------------------------
(* What an invocation is started on does not change while it runs.         *)

LEMMA JobKept ==
  ASSUME world' = world, NEW key, NEW j
  PROVE  JobOf(key, j)' = JobOf(key, j)
BY DEF JobOf

LEMMA CalleeKept ==
  ASSUME world' = world, NEW key, NEW j
  PROVE  Callee(key, j)' = Callee(key, j)
BY JobKept DEF Callee, Resolve

LEMMA EffectiveKept ==
  ASSUME world' = world, NEW key, NEW j
  PROVE  Effective(key, j)' = Effective(key, j)
BY JobKept DEF Effective

LEMMA RequiredKept ==
  ASSUME world' = world, NEW key, NEW s
  PROVE  Required(key, s)' = Required(key, s)
<1>1. {Effective(key, j)[s] : j \in Job}' = {Effective(key, j)[s] : j \in Job}
  BY EffectiveKept
<1>2. UNION {{action.needs[s] : action \in JobOf(key, j).steps} : j \in Job}'
        = UNION {{action.needs[s] : action \in JobOf(key, j).steps} : j \in Job}
  BY JobKept
<1>3. QED
  BY <1>1, <1>2 DEF Required

LEMMA PinKept ==
  ASSUME world' = world, NEW key
  PROVE  /\ AtReviewedPin(key)' <=> AtReviewedPin(key)
         /\ Reviewed(key)' <=> Reviewed(key)
         /\ \A other : MatchesAuthority(key, other)' <=> MatchesAuthority(key, other)
<1>1. AtReviewedPin(key)' <=> AtReviewedPin(key)
  BY DEF AtReviewedPin, Pin
<1>2. QED
  BY <1>1 DEF Reviewed, MatchesAuthority, LocalHead

LEMMA ActionsKept ==
  ASSUME world' = world, NEW key, NEW j
  PROVE  ActionsSound(key, j)' <=> ActionsSound(key, j)
BY JobKept DEF ActionsSound, ActionAllowed, AllowedPin

LEMMA CatalogKept ==
  ASSUME world' = world
  PROVE  /\ CatalogFiles' = CatalogFiles
         /\ CatalogAccepts' <=> CatalogAccepts
         /\ Remote' = Remote
<1>1. ReviewedAuthorities' = ReviewedAuthorities
  BY DEF ReviewedAuthorities
<1>2. \A r, revision : FilesAt(r, revision)' = FilesAt(r, revision)
  BY DEF FilesAt
<1>3. \A r, revision : Inventory(r, revision)' = Inventory(r, revision)
  BY DEF Inventory
<1>4. CatalogFiles' = CatalogFiles
  BY <1>1, <1>2, <1>3 DEF CatalogFiles, LocalCatalogFiles
<1>5. \A use : UsePinned(use)' <=> UsePinned(use)
  BY <1>1 DEF UsePinned, OrdinaryUse, DeclaredShared, AllowedPin
<1>6. \A key : UsesOf(key)' = UsesOf(key)
  BY JobKept DEF UsesOf
<1>7. \A r : AuthorityWellFormed(r)' <=> AuthorityWellFormed(r)
  BY DEF AuthorityWellFormed
<1>8. CatalogCheckouts' <=> CatalogCheckouts
  BY <1>1 DEF CatalogCheckouts
<1>9. QED
  BY <1>1, <1>4, <1>5, <1>6, <1>7, <1>8 DEF CatalogAccepts, Remote

\* What was reported stays agreed upon while the invocation keeps its world.
LEMMA AgreeKept ==
  ASSUME CatalogAndContractAgree, world' = world,
         \A v \in violations' : v[1] \in PinCodes => v \in violations
  PROVE  CatalogAndContractAgree'
<1> SUFFICES ASSUME NEW v \in violations', v[1] \in PinCodes, v[2] \in CatalogFiles'
             PROVE  IF v[1] = "ACTION_REFERENCE" THEN OnlyCatalogSteps(v[4])
                                                 ELSE OnlyCatalogCalls(JobOf(v[2], v[3]).uses)'
  BY DEF CatalogAndContractAgree, OnlyCatalogSteps
<1>1. v \in violations /\ v[2] \in CatalogFiles
  BY CatalogKept
<1>2. JobOf(v[2], v[3])' = JobOf(v[2], v[3])
  BY JobKept
<1>3. QED
  BY <1>1, <1>2 DEF CatalogAndContractAgree, OnlyCatalogCalls

-----------------------------------------------------------------------------
(* Types                                                                   *)

LEMMA WorldType ==
  ASSUME NEW w \in Worlds
  PROVE  IsWorld(w)
BY ContractConstants

LEMMA NothingIsNoKey == Nothing \notin Key
BY ContractConstants

\* A reference resolves to a key of the program or to none.
LEMMA CalleeType ==
  ASSUME world \in Worlds, NEW key \in Key, key \in DOMAIN world.source, NEW j \in Job
  PROVE  /\ JobOf(key, j).uses \in Use \cup {Nothing}
         /\ Callee(key, j) \in Key \cup {Nothing}
<1>1. IsJob(world.source[key].jobs[j])
  BY WorldType DEF IsWorld, IsWorkflow
<1>2. JobOf(key, j).uses \in Use \cup {Nothing}
  BY <1>1 DEF JobOf, IsJob
<1> DEFINE use == JobOf(key, j).uses
<1>3. CASE use = Nothing \/ use.kind \in {"path", "action", "floating"}
  <2>1. Callee(key, j) = Nothing
    BY <1>3, Zenon DEF Callee, Resolve
  <2>2. QED
    BY <1>2, <2>1
<1>4. CASE use # Nothing /\ use.kind = "relative"
  <2>1. Callee(key, j) = [key EXCEPT !.name = use.name]
    BY <1>4, Zenon DEF Callee, Resolve
  <2>2. use \in [kind : {"relative"}, name : Name]
    BY <1>2, <1>4 DEF Use
  <2>3. use.name \in Name
    BY <2>2
  <2> HIDE DEF use
  <2>4. QED
    BY <1>2, <2>1, <2>3 DEF Key, use
<1>5. CASE use # Nothing /\ use.kind = "pinned"
  <2>1. Callee(key, j) = [repository |-> use.repository, name |-> use.name,
                          revision |-> use.revision]
    BY <1>5, Zenon DEF Callee, Resolve
  <2>2. use \in [kind : {"pinned"}, repository : Repository, name : Name, revision : Revision]
    BY <1>2, <1>5 DEF Use
  <2>3. use.repository \in Repository /\ use.name \in Name /\ use.revision \in Revision
    BY <2>2
  <2> HIDE DEF use
  <2>4. QED
    BY <1>2, <2>1, <2>3 DEF Key, use
<1>6. use = Nothing \/ use.kind \in {"relative", "path", "pinned", "action", "floating"}
  BY <1>2 DEF Use
<1>7. QED
  BY <1>2, <1>3, <1>4, <1>5, <1>6

\* A permission is a level, whatever was written.
LEMMA ParseType ==
  ASSUME NEW value, NEW s \in Scope
  PROVE  ParsePermissions(value)[s] \in Level
<1>1. \A text : LevelOf(text) \in Level
  BY DEF LevelOf, Level
<1>2. 0 \in Level /\ 1 \in Level /\ 2 \in Level
  BY DEF Level
<1>3. ParsePermissions(value)[s] =
        CASE value.text = "map" -> IF s \in DOMAIN value.map THEN LevelOf(value.map[s]) ELSE 0
          [] value.text = "write-all" /\ s \in AllScope -> 2
          [] value.text = "read-all" /\ s \in AllScope -> 1
          [] OTHER -> 0
  BY DEF ParsePermissions
<1>4. QED
  BY <1>1, <1>2, <1>3

LEMMA EffectiveType ==
  ASSUME NEW key, NEW j, NEW s \in Scope
  PROVE  Effective(key, j)[s] \in Level
BY ParseType DEF Effective

\* Every level a file requires is a level.
LEMMA RequiredType ==
  ASSUME world \in Worlds, NEW key \in Key, key \in DOMAIN world.source,
         NEW s \in Scope, NEW level \in Required(key, s)
  PROVE  level \in Nat
<1>1. ParsePermissions(world.source[key].permissions)[s] \in Level
  BY ParseType
<1>2. \A j \in Job : JobOf(key, j).steps \subseteq Step
  BY WorldType DEF IsWorld, IsWorkflow, IsJob, JobOf
<1>3. \A j \in Job : \A action \in JobOf(key, j).steps : action.needs[s] \in Level
  BY <1>2 DEF Step, Permissions
<1>4. level \in Level
  BY <1>1, <1>3, EffectiveType DEF Required
<1>5. QED
  BY <1>4 DEF Level

LEMMA FilesFinite ==
  ASSUME world \in Worlds, files \subseteq DOMAIN world.source
  PROVE  IsFiniteSet(Finished) /\ IsFiniteSet(files)
<1>1. IsFiniteSet(DOMAIN world.source)
  BY WorldType DEF IsWorld
<1>2. Finished \subseteq DOMAIN world.source
  BY DEF Finished
<1>3. QED
  BY <1>1, <1>2, FS_Subset

-----------------------------------------------------------------------------
(* Loading                                                                 *)

\* Whatever is loaded was reviewed, or is the candidate.
LEMMA LoadedIsReviewed ==
  ASSUME NEW key \in LoadedFiles
  PROVE  Reviewed(key)
<1>1. key \in FilesAt(Local, LocalHead) \/ key \in AuthorityFiles \/ key \in OverlayFiles
  BY DEF LoadedFiles
<1>2. CASE key \in FilesAt(Local, LocalHead)
  BY <1>2 DEF FilesAt, Reviewed
<1>3. CASE key \in OverlayFiles
  BY <1>3 DEF OverlayFiles, FilesAt, Reviewed
<1>4. CASE key \in AuthorityFiles
  <2>1. PICK r \in Remote : AuthorityStatus(r) = "checked" /\ key \in Inventory(r, Pin(r))
    BY <1>4 DEF AuthorityFiles
  <2>2. world.authority[r].state = "reviewed"
    BY <2>1, Zenon DEF AuthorityStatus
  <2>3. key.repository = r /\ key.revision = Pin(r)
    BY <2>1 DEF Inventory
  <2>4. QED
    BY <2>1, <2>2, <2>3 DEF Reviewed, AtReviewedPin, Remote
<1>5. QED
  BY <1>1, <1>2, <1>3, <1>4

LEMMA LoadedIsThere ==
  ASSUME ~LoadFails
  PROVE  LoadedFiles \subseteq DOMAIN world.source
BY DEF LoadFails, LoadedFiles, FilesAt, OverlayFiles

LEMMA StatusKept ==
  ASSUME world' = world, NEW r
  PROVE  AuthorityStatus(r)' = AuthorityStatus(r)
BY DEF AuthorityStatus, CheckoutHead, Pin

\* An authority that is reviewed and was not checked has a reason.
LEMMA StatusReason ==
  ASSUME NEW r, world.authority[r].state = "reviewed"
  PROVE  /\ AuthorityStatus(r) \in {"missing", "not_provided", "mismatch", "checked"}
         /\ AuthorityStatus(r) \notin {"missing", "not_provided"} => world.authorityRoot
         /\ AuthorityStatus(r) = "checked" => CheckoutHead(r) = Pin(r)
         /\ world.requireAuthorities => AuthorityStatus(r) # "not_provided"
BY Zenon DEF AuthorityStatus

-----------------------------------------------------------------------------
(* A fresh invocation                                                      *)

Fresh ==
  /\ world \in Worlds
  /\ phase = "load"
  /\ files = {} /\ checked = <<>> /\ violations = {}
  /\ colour = Unvisited /\ rank = Unvisited /\ todo = NoJobs
  /\ stack = <<>> /\ chain = <<>>
  /\ grant = NoGrant
  /\ outside = FALSE

LEMMA FreshType == Fresh => ContractTypeOK
<1> SUFFICES ASSUME Fresh PROVE ContractTypeOK
  OBVIOUS
<1>1. stack \in Seq(files) /\ chain \in Seq(files) /\ DOMAIN stack = {}
  BY EmptySeq DEF Fresh
<1>2. colour \in [Key -> 0..2] /\ rank \in [Key -> Nat] /\ \A key \in Key : colour[key] = 0
  BY DEF Fresh, Unvisited
<1>3. todo \in [Key -> SUBSET Job] /\ grant \in Permissions
  BY DEF Fresh, NoJobs, NoGrant, Permissions, Level
<1>4. \A key \in Key : colour[key] = 1 <=> \E i \in DOMAIN stack : stack[i] = key
  BY <1>1, <1>2
<1>5. QED
  BY <1>1, <1>2, <1>3, <1>4 DEF Fresh, ContractTypeOK

LEMMA FreshInv == Fresh => IInv
<1> SUFFICES ASSUME Fresh PROVE IInv
  OBVIOUS
<1>1. ContractTypeOK
  BY FreshType
<1>2. LoadSound /\ CheckSound /\ ReportSound /\ OutsideSound /\ CatalogAndContractAgree
  BY DEF Fresh, LoadSound, CheckSound, ReportSound, Reported, OutsideSound, CatalogAndContractAgree,
         Loaded, Checked
<1>3. Len(stack) = 0 /\ Len(chain) = 0 /\ \A key \in Key : colour[key] = 0
  BY DEF Fresh, Unvisited
<1>4. Finished = {}
  BY DEF Fresh, Finished
<1>5. WalkSound
  BY <1>3, <1>4 DEF Fresh, WalkSound, FinishedRanked, StackWaits
<1>6. ChainSound
  BY <1>3 DEF Fresh, ChainSound, GrantCoversEveryDepth
<1>7. CyclesReal
  BY <1>3 DEF Fresh, CyclesReal, StackCalls, CycleMet
<1>8. QED
  BY <1>1, <1>2, <1>5, <1>6, <1>7 DEF IInv, Fresh

-----------------------------------------------------------------------------
(* Load                                                                    *)

LEMMA LoadFilesType ==
  ASSUME world \in Worlds, ~LoadFails
  PROVE  LoadedFiles \subseteq Key
BY LoadedIsThere, WorldType DEF IsWorld

\* What an action leaves alone keeps what rests on it.
LEMMA GrantKept ==
  ASSUME GrantCoversEveryDepth, world' = world, chain' = chain, grant' = grant
  PROVE  GrantCoversEveryDepth'
BY RequiredKept DEF GrantCoversEveryDepth

LEMMA ChainKept ==
  ASSUME ChainSound, world' = world, chain' = chain, grant' = grant, rank' = rank,
         phase' = phase \/ chain = <<>>
  PROVE  ChainSound'
BY GrantKept DEF ChainSound

LEMMA OutsideKept ==
  ASSUME OutsideSound, world' = world, outside' = outside
  PROVE  OutsideSound'
BY DEF OutsideSound

LEMMA CyclicKept ==
  ASSUME world' = world, files' = files
  PROVE  Cyclic' <=> Cyclic
BY CalleeKept DEF Cyclic

LEMMA CyclesKept ==
  ASSUME CyclesReal, world' = world, files' = files, stack' = stack, CycleMet' => CycleMet
  PROVE  CyclesReal'
<1>1. StackCalls'
  BY CalleeKept DEF CyclesReal, StackCalls
<1>2. QED
  BY <1>1, CyclicKept DEF CyclesReal

LEMMA NoCycles ==
  ASSUME stack' = <<>>, ~CycleMet'
  PROVE  CyclesReal'
<1>1. Len(stack') = 0
  OBVIOUS
<1>2. QED
  BY <1>1 DEF CyclesReal, StackCalls

LEMMA FrozenWalk ==
  ASSUME IInv, world' = world, phase' = phase, files' = files, violations' = violations,
         colour' = colour, stack' = stack, todo' = todo, rank' = rank
  PROVE  WalkSound' /\ ReportSound' /\ CyclesReal'
<1> USE DEF IInv
<1>1. Finished' = Finished
  BY DEF Finished
<1>2. (CycleMet' <=> CycleMet) /\ (FinishedRanked => FinishedRanked') /\ (StackWaits => StackWaits')
  BY <1>1, CalleeKept DEF CycleMet, FinishedRanked, StackWaits
<1>3. WalkSound'
  BY <1>2 DEF WalkSound
<1>4. ReportSound'
  BY <1>1 DEF ReportSound, Reported
<1>5. QED
  BY <1>2, <1>3, <1>4, CyclesKept

LEMMA WalkIdle ==
  ASSUME colour' = Unvisited, stack' = <<>>, ContractTypeOK'
  PROVE  WalkSound'
<1>1. \A key \in Key : colour'[key] = 0
  BY DEF Unvisited
<1>2. Len(stack') = 0
  OBVIOUS
<1>3. ASSUME NEW key \in Finished' PROVE FALSE
  BY <1>1 DEF Finished, ContractTypeOK
<1>4. QED
  BY <1>1, <1>2, <1>3 DEF WalkSound, FinishedRanked, StackWaits

LEMMA ActionLoad == IInv /\ Load => IInv'
<1> SUFFICES ASSUME IInv, Load PROVE IInv'
  OBVIOUS
<1> USE DEF IInv
<1>1. /\ phase = "load" /\ phase' \in {"error", "check"}
      /\ world' = world /\ colour' = colour /\ stack' = stack /\ todo' = todo /\ rank' = rank
      /\ chain' = chain /\ grant' = grant /\ outside' = outside
  BY DEF Load
<1>2. chain = <<>> /\ stack = <<>> /\ colour = Unvisited
  BY <1>1 DEF ChainSound, WalkSound, Checked
<1>3. CASE LoadFails
  <2>1. phase' = "error" /\ files' = files /\ checked' = checked /\ violations' = violations
    BY <1>3 DEF Load
  <2>2. ContractTypeOK'
    BY <1>1, <2>1 DEF ContractTypeOK
  <2>3. LoadSound' /\ CheckSound' /\ ReportSound'
    BY <2>1 DEF LoadSound, CheckSound, ReportSound, Reported, Loaded, Checked
  <2>4. CatalogAndContractAgree'
    BY <1>1, <2>1, AgreeKept
  <2>5. WalkSound' /\ ChainSound' /\ OutsideSound'
    BY <1>1, <1>2, <2>2, WalkIdle, ChainKept, OutsideKept
  <2>6. CyclesReal'
    BY <1>1, <2>1, CyclesKept DEF CycleMet
  <2>7. QED
    BY <1>1, <2>2, <2>3, <2>4, <2>5, <2>6
<1>4. CASE ~LoadFails
  <2>1. /\ phase' = "check" /\ files' = LoadedFiles /\ violations' = AuthorityViolations
        /\ checked' = [r \in Remote \cup {Local} |->
                         IF r = Local THEN "checked" ELSE AuthorityStatus(r)]
    BY <1>4 DEF Load
  <2>2. ContractTypeOK'
    <3>1. files' \subseteq Key
      BY <1>4, <2>1, LoadFilesType
    <3>2. stack' \in Seq(files') /\ chain' \in Seq(files')
      BY <1>1, <1>2, EmptySeq
    <3>3. QED
      BY <1>1, <2>1, <3>1, <3>2 DEF ContractTypeOK
  <2>3. LoadSound'
    <3>1. CatalogAccepts'
      BY <1>1, <1>4, CatalogKept DEF LoadFails
    <3>2. files' \subseteq DOMAIN world'.source
      BY <1>1, <1>4, <2>1, LoadedIsThere
    <3>3. \A key \in files' : Reviewed(key)'
      BY <1>1, <2>1, LoadedIsReviewed, PinKept
    <3>4. DOMAIN checked' = Remote' \cup {Local} /\ checked'[Local] = "checked"
      BY <1>1, <2>1, CatalogKept
    <3>5. \A r \in Remote : checked'[r] = AuthorityStatus(r)
      BY <2>1 DEF Remote
    <3>6. \A r \in Remote' : checked'[r] = AuthorityStatus(r)'
      BY <1>1, <3>5, CatalogKept, StatusKept
    <3>7. \A r \in Remote' : checked'[r] = "mismatch" =>
                              <<"AUTHORITY_REVISION_MISMATCH", r>> \in violations'
      BY <1>1, <2>1, <3>5, CatalogKept DEF AuthorityViolations
    <3>8. ASSUME violations' = {}, NEW r \in Remote'
          PROVE  checked'[r] \notin {"missing", "mismatch"}
      BY <1>1, <2>1, <3>5, <3>8, CatalogKept DEF AuthorityViolations
    <3>9. QED
      BY <3>1, <3>2, <3>3, <3>4, <3>6, <3>7, <3>8 DEF LoadSound
  <2>4. CheckSound' /\ ReportSound'
    BY <2>1 DEF CheckSound, ReportSound, Reported, Checked
  <2>5. CatalogAndContractAgree'
    BY <2>1 DEF CatalogAndContractAgree, AuthorityViolations, PinCodes
  <2>6. WalkSound' /\ ChainSound' /\ OutsideSound'
    BY <1>1, <1>2, <2>2, WalkIdle, ChainKept, OutsideKept
  <2>7. CyclesReal'
    BY <1>1, <1>2, <2>1, NoCycles DEF CycleMet, AuthorityViolations
  <2>8. QED
    BY <1>1, <2>2, <2>3, <2>4, <2>5, <2>6, <2>7
<1>5. QED
  BY <1>3, <1>4

-----------------------------------------------------------------------------
(* Check                                                                   *)

\* A violation of a pin, in a file the catalog looked at, is of a reference that
\* only the catalog has a rule for.
LEMMA PinViolations ==
  ASSUME IInv, phase = "check", NEW key \in files, NEW v \in FileViolations(key),
         v[1] \in PinCodes, v[2] \in CatalogFiles
  PROVE  IF v[1] = "ACTION_REFERENCE" THEN OnlyCatalogSteps(v[4])
                                      ELSE OnlyCatalogCalls(JobOf(v[2], v[3]).uses)
<1> USE DEF IInv
<1>1. key \in Key /\ key \in DOMAIN world.source /\ CatalogAccepts
  BY DEF LoadSound, Loaded, ContractTypeOK
<1>2. PICK j \in Job : v \in CallViolations(key, j) \cup StepViolations(key, j)
  BY DEF FileViolations
<1>3. CASE v \in StepViolations(key, j)
  <2>1. PICK action \in JobOf(key, j).steps :
           ~ActionAllowed(action.uses) /\ v = <<"ACTION_REFERENCE", key, j, action.uses>>
    BY <1>3 DEF StepViolations, PinCodes
  <2>2. v[1] = "ACTION_REFERENCE" /\ v[2] = key /\ v[4] = action.uses
    BY <2>1
  <2>3. action.uses \in UsesOf(key)
    BY <2>1 DEF UsesOf
  <2>4. UsePinned(action.uses)
    BY <1>1, <2>2, <2>3 DEF CatalogAccepts
  <2>5. OnlyCatalogSteps(action.uses)
    BY <2>1, <2>4, Zenon DEF UsePinned, OrdinaryUse, DeclaredShared, ActionAllowed, OnlyCatalogSteps
  <2>6. QED
    BY <2>2, <2>5
<1>4. CASE v \in CallViolations(key, j)
  <2> DEFINE use == JobOf(key, j).uses
             callee == Callee(key, j)
  <2>1. use # Nothing
    BY <1>4 DEF CallViolations
  <2>2. /\ v[2] = key /\ v[3] = j /\ v[1] # "ACTION_REFERENCE"
        /\ callee = Nothing \/ ~MatchesAuthority(callee, key)
    <3>1. CASE callee = Nothing
      <4>1. CallViolations(key, j) = {<<"REUSABLE_WORKFLOW_PIN_INVALID", key, j, Nothing>>}
        BY <2>1, <3>1, Zenon DEF CallViolations
      <4>2. QED
        BY <1>4, <3>1, <4>1
    <3>2. CASE callee # Nothing
      <4>1. CallViolations(key, j) = ResolvedCallViolations(key, j, callee)
        BY <2>1, <3>2, Zenon DEF CallViolations
      <4>2. v \in (IF MatchesAuthority(callee, key) THEN {}
                  ELSE {<<"REUSABLE_WORKFLOW_AUTHORITY_MISMATCH", key, j, callee>>})
        <5>1. CASE callee \in files
          BY <1>4, <4>1, <5>1 DEF ResolvedCallViolations, LoadedCallViolations,
             ParameterViolations, CeilingViolations, PinCodes
        <5>2. CASE callee \notin files
          BY <1>4, <4>1, <5>2 DEF ResolvedCallViolations, PinCodes
        <5>3. QED
          BY <5>1, <5>2
      <4>3. QED
        BY <4>2
    <3>3. QED
      BY <3>1, <3>2
  <2>3. use \in Use
    BY <2>1, <1>1, CalleeType
  <2>4. use.kind \in {"relative", "path", "pinned", "action", "floating"}
    BY <2>3 DEF Use
  <2>5. UsePinned(use)
    <3>1. use \in UsesOf(key)
      BY <2>1 DEF UsesOf
    <3>2. QED
      BY <1>1, <2>2, <3>1 DEF CatalogAccepts
  <2>6. ASSUME use.kind = "relative" PROVE callee # Nothing /\ MatchesAuthority(callee, key)
    <3>1. callee = [key EXCEPT !.name = use.name]
      BY <2>1, <2>6, Zenon DEF Callee, Resolve
    <3>2. callee.repository = key.repository /\ callee.revision = key.revision
      BY <1>1, <3>1 DEF Key
    <3>3. callee \in Key
      BY <2>3, <2>6, <1>1, <3>1 DEF Key, Use
    <3>4. QED
      BY <3>2, <3>3, NothingIsNoKey DEF MatchesAuthority
  <2>7. ASSUME use.kind = "pinned", use.repository = Shared
        PROVE  callee # Nothing /\ MatchesAuthority(callee, key)
    <3>1. callee = [repository |-> use.repository, name |-> use.name, revision |-> use.revision]
      BY <2>1, <2>7, Zenon DEF Callee, Resolve
    <3>2. Shared \in ReviewedAuthorities /\ use.revision = world.authority[Shared].implementation
      BY <2>5, <2>7 DEF UsePinned, OrdinaryUse, DeclaredShared
    <3>3. callee.repository = Shared /\ callee.revision = world.authority[Shared].implementation
      BY <3>1, <3>2, <2>7
    <3>4. callee \in Key
      BY <2>3, <2>7, <3>1 DEF Key, Use
    <3>5. AtReviewedPin(callee)
      BY <3>2, <3>3 DEF AtReviewedPin, Pin, ReviewedAuthorities
    <3>6. QED
      BY <3>4, <3>5, NothingIsNoKey DEF MatchesAuthority
  <2>8. use.kind # "floating"
    BY <2>5 DEF UsePinned, OrdinaryUse, DeclaredShared
  <2>9. OnlyCatalogCalls(use)
    BY <2>2, <2>4, <2>6, <2>7, <2>8 DEF OnlyCatalogCalls
  <2>10. QED
    BY <2>2, <2>9
<1>5. QED
  BY <1>2, <1>3, <1>4

\* A file without violations has sound calls and actions.
LEMMA CleanIsSound ==
  ASSUME IInv, phase = "check", NEW key \in files, NEW j \in Job, FileViolations(key) = {}
  PROVE  CallSound(key, j) /\ ActionsSound(key, j)
<1> USE DEF IInv
<1>1. CallViolations(key, j) = {} /\ StepViolations(key, j) = {}
  BY DEF FileViolations
<1>2. ActionsSound(key, j)
  BY <1>1 DEF StepViolations, ActionsSound
<1>3. SUFFICES ASSUME NEW callee \in Key, callee = Callee(key, j)
               PROVE  /\ MatchesAuthority(callee, key)
                      /\ IF callee \in files
                         THEN \A s \in Scope : \A level \in Required(callee, s) :
                                level <= Effective(key, j)[s]
                         ELSE ~ExpectedLoaded(callee, key)
  BY <1>2 DEF CallSound
<1>4. callee # Nothing
  BY NothingIsNoKey
<1>5. QED
  <2>1. JobOf(key, j).uses # Nothing
    BY <1>3, <1>4, Zenon DEF Callee, Resolve
  <2>2. ResolvedCallViolations(key, j, callee) = {}
    <3>1. CallViolations(key, j) = ResolvedCallViolations(key, j, callee)
      BY <2>1, <1>3, <1>4, Zenon DEF CallViolations
    <3>2. QED
      BY <1>1, <3>1
  <2>3. MatchesAuthority(callee, key)
    BY <2>2 DEF ResolvedCallViolations
  <2>4. ASSUME callee \in files, NEW s \in Scope, NEW level \in Required(callee, s)
        PROVE  level <= Effective(key, j)[s]
    <3>1. LoadedCallViolations(key, j, callee) = {}
      BY <2>2, <2>4, Zenon DEF ResolvedCallViolations
    <3>2. CeilingViolations(key, j, callee) = {}
      BY <3>1 DEF LoadedCallViolations
    <3>3. ~(Effective(key, j)[s] < level)
      BY <3>2, <2>4 DEF CeilingViolations
    <3>4. callee \in Key /\ callee \in DOMAIN world.source
      BY <2>4 DEF LoadSound, Loaded, ContractTypeOK
    <3>5. level \in Nat /\ Effective(key, j)[s] \in Nat
      BY <2>4, <3>4, RequiredType, EffectiveType DEF Level
    <3>6. QED
      BY <3>3, <3>5
  <2>5. ASSUME callee \notin files PROVE ~ExpectedLoaded(callee, key)
    BY <2>2, <2>5 DEF ResolvedCallViolations
  <2>6. QED
    BY <2>3, <2>4, <2>5

LEMMA CallKept ==
  ASSUME world' = world, files' = files, checked' = checked, NEW key, NEW j
  PROVE  CallSound(key, j)' <=> CallSound(key, j)
<1>1. Callee(key, j)' = Callee(key, j) /\ Effective(key, j)' = Effective(key, j)
  BY CalleeKept, EffectiveKept
<1>2. \A callee : MatchesAuthority(callee, key)' <=> MatchesAuthority(callee, key)
  BY PinKept
<1>3. \A callee : ExpectedLoaded(callee, key)' <=> ExpectedLoaded(callee, key)
  BY DEF ExpectedLoaded
<1>4. \A callee, s : Required(callee, s)' = Required(callee, s)
  BY RequiredKept
<1>5. QED
  BY <1>1, <1>2, <1>3, <1>4 DEF CallSound

LEMMA NoCycleInFile ==
  ASSUME NEW key, NEW v \in FileViolations(key)
  PROVE  v[1] # "REUSABLE_WORKFLOW_CYCLE"
<1>1. PICK j \in Job : v \in CallViolations(key, j) \cup StepViolations(key, j)
  BY DEF FileViolations
<1>2. CASE v \in StepViolations(key, j)
  BY <1>2 DEF StepViolations
<1>3. CASE v \in CallViolations(key, j)
  <2> DEFINE callee == Callee(key, j)
  <2>1. CallViolations(key, j) = {} \/ CallViolations(key, j) = {<<"REUSABLE_WORKFLOW_PIN_INVALID", key, j, Nothing>>}
        \/ CallViolations(key, j) = ResolvedCallViolations(key, j, callee)
    BY Zenon DEF CallViolations
  <2>2. ASSUME v \in ResolvedCallViolations(key, j, callee) PROVE v[1] # "REUSABLE_WORKFLOW_CYCLE"
    <3>1. v \in LoadedCallViolations(key, j, callee) => v[1] # "REUSABLE_WORKFLOW_CYCLE"
      BY DEF LoadedCallViolations, ParameterViolations, CeilingViolations
    <3>2. CASE callee \in files
      BY <2>2, <3>1, <3>2 DEF ResolvedCallViolations
    <3>3. CASE callee \notin files
      BY <2>2, <3>3 DEF ResolvedCallViolations
    <3>4. QED
      BY <3>2, <3>3
  <2>3. QED
    BY <1>3, <2>1, <2>2
<1>4. QED
  BY <1>1, <1>2, <1>3

LEMMA LoadKept ==
  ASSUME LoadSound, phase \in Loaded, world' = world, files' = files, checked' = checked,
         violations \subseteq violations'
  PROVE  LoadSound'
<1>1. \A key : Reviewed(key)' <=> Reviewed(key)
  BY PinKept
<1>2. violations' = {} => violations = {}
  OBVIOUS
<1>3. QED
  BY <1>1, <1>2, CatalogKept, StatusKept DEF LoadSound

LEMMA ActionCheck == IInv /\ Check => IInv'
<1> SUFFICES ASSUME IInv, Check PROVE IInv'
  OBVIOUS
<1> USE DEF IInv
<1>1. /\ phase = "check" /\ phase' = "walk"
      /\ world' = world /\ files' = files /\ checked' = checked
      /\ colour' = colour /\ stack' = stack /\ todo' = todo /\ rank' = rank
      /\ chain' = chain /\ grant' = grant /\ outside' = outside
      /\ violations' = violations \cup UNION {FileViolations(key) : key \in files}
  BY DEF Check
<1>2. chain = <<>> /\ stack = <<>> /\ colour = Unvisited
  BY <1>1 DEF ChainSound, WalkSound, Checked
<1>3. ContractTypeOK'
  BY <1>1 DEF ContractTypeOK
<1>4. LoadSound'
  BY <1>1, LoadKept DEF Loaded
<1>5. CatalogAndContractAgree'
  <2> SUFFICES ASSUME NEW v \in violations', v[1] \in PinCodes, v[2] \in CatalogFiles'
               PROVE  IF v[1] = "ACTION_REFERENCE" THEN OnlyCatalogSteps(v[4])
                                                   ELSE OnlyCatalogCalls(JobOf(v[2], v[3]).uses)'
    BY DEF CatalogAndContractAgree, OnlyCatalogSteps
  <2>1. v[2] \in CatalogFiles /\ JobOf(v[2], v[3])' = JobOf(v[2], v[3])
    BY <1>1, CatalogKept, JobKept
  <2>2. CASE v \in violations
    BY <2>1, <2>2 DEF CatalogAndContractAgree, OnlyCatalogCalls
  <2>3. CASE v \notin violations
    <3>1. PICK key \in files : v \in FileViolations(key)
      BY <1>1, <2>3
    <3>2. IF v[1] = "ACTION_REFERENCE" THEN OnlyCatalogSteps(v[4])
                                       ELSE OnlyCatalogCalls(JobOf(v[2], v[3]).uses)
      BY <1>1, <2>1, <3>1, PinViolations
    <3>3. QED
      BY <2>1, <3>2 DEF OnlyCatalogCalls
  <2>4. QED
    BY <2>2, <2>3
<1>6. CheckSound'
  <2> SUFFICES ASSUME violations' = {}, NEW key \in files', NEW j \in Job
               PROVE  CallSound(key, j)' /\ ActionsSound(key, j)'
    BY DEF CheckSound
  <2>1. key \in files /\ FileViolations(key) = {}
    BY <1>1
  <2>2. CallSound(key, j) /\ ActionsSound(key, j)
    BY <1>1, <2>1, CleanIsSound
  <2>3. QED
    BY <1>1, <2>2, CallKept, ActionsKept
<1>7. ReportSound'
  BY <1>1 DEF ReportSound, Reported
<1>8. WalkSound' /\ ChainSound' /\ OutsideSound'
  BY <1>1, <1>2, <1>3, WalkIdle, ChainKept, OutsideKept
<1>9. CyclesReal'
  <2>1. ASSUME CycleMet' PROVE CycleMet
    <3>1. PICK key \in files : <<"REUSABLE_WORKFLOW_CYCLE", key>> \in violations'
      BY <1>1, <2>1 DEF CycleMet
    <3>2. \A k \in files : <<"REUSABLE_WORKFLOW_CYCLE", key>> \notin FileViolations(k)
      BY NoCycleInFile
    <3>3. QED
      BY <1>1, <3>1, <3>2 DEF CycleMet
  <2>2. QED
    BY <1>1, <2>1, CyclesKept
<1>10. QED
  BY <1>1, <1>3, <1>4, <1>5, <1>6, <1>7, <1>8, <1>9

LEMMA CheckKept ==
  ASSUME CheckSound, phase \in Checked, violations \subseteq violations',
         world' = world, files' = files, checked' = checked
  PROVE  CheckSound'
<1>1. violations' = {} => violations = {}
  OBVIOUS
<1>2. QED
  BY <1>1, CallKept, ActionsKept DEF CheckSound

-----------------------------------------------------------------------------
(* The walk                                                                *)

\* What a step of the walk leaves alone.
LEMMA WalkStep ==
  ASSUME IInv, phase = "walk", WalkUnchanged, phase' = "walk",
         violations \subseteq violations',
         \A v \in violations' \ violations : v[1] \notin PinCodes
  PROVE  /\ world' \in Worlds
         /\ LoadSound' /\ CheckSound' /\ CatalogAndContractAgree'
         /\ ReportSound' /\ ChainSound' /\ OutsideSound'
<1> USE DEF IInv
<1>1. /\ world' = world /\ files' = files /\ checked' = checked
      /\ chain' = chain /\ grant' = grant /\ outside' = outside
  BY DEF WalkUnchanged
<1>2. chain = <<>>
  BY DEF ChainSound
<1>3. LoadSound' /\ CheckSound'
  BY <1>1, LoadKept, CheckKept DEF Loaded, Checked
<1>4. CatalogAndContractAgree'
  BY <1>1, AgreeKept
<1>5. ReportSound'
  BY DEF ReportSound, Reported
<1>6. ChainSound'
  BY <1>1, <1>2 DEF ChainSound, GrantCoversEveryDepth
<1>7. OutsideSound'
  BY <1>1, OutsideKept
<1>8. QED
  BY <1>1, <1>3, <1>4, <1>5, <1>6, <1>7

LEMMA StackTop ==
  ASSUME ContractTypeOK, WalkSound, stack # <<>>
  PROVE  /\ Len(stack) \in Nat \ {0} /\ DOMAIN stack = 1..Len(stack)
         /\ Top = stack[Len(stack)]
         /\ Top \in files /\ Top \in Key /\ colour[Top] = 1
         /\ \A i \in 1..Len(stack) : stack[i] \in files /\ stack[i] \in Key /\ colour[stack[i]] = 1
<1>1. stack \in Seq(files) /\ files \subseteq Key
  BY DEF ContractTypeOK
<1>2. Len(stack) \in Nat \ {0} /\ DOMAIN stack = 1..Len(stack)
  BY <1>1, EmptySeq, LenProperties
<1>3. \A i \in 1..Len(stack) : stack[i] \in files
  BY <1>1, ElementOfSeq
<1>4. \A i \in 1..Len(stack) : colour[stack[i]] = 1
  BY <1>1, <1>2, <1>3 DEF ContractTypeOK
<1>5. QED
  BY <1>1, <1>2, <1>3, <1>4 DEF Top

\* Entering a file that was not visited.
LEMMA Enter ==
  ASSUME IInv, phase = "walk", NEW key \in files, colour[key] = 0,
         colour' = [colour EXCEPT ![key] = 1], stack' = Append(stack, key),
         files' = files, phase' = phase, rank' = rank, chain' = chain, grant' = grant,
         outside' = outside, todo' \in [Key -> SUBSET Job]
  PROVE  /\ ContractTypeOK' /\ Finished' = Finished
         /\ \A k \in Key : colour'[k] # 0 => k \in files'
         /\ \A i, k \in 1..Len(stack') : i # k => stack'[i] # stack'[k]
<1> USE DEF IInv
<1>1. stack \in Seq(files) /\ files \subseteq Key /\ colour \in [Key -> 0..2]
  BY DEF ContractTypeOK
<1>2. Len(stack) \in Nat /\ DOMAIN stack = 1..Len(stack)
  BY <1>1, LenProperties
<1>3. /\ stack' \in Seq(files) /\ Len(stack') = Len(stack) + 1
      /\ \A i \in 1..Len(stack) : stack'[i] = stack[i] /\ stack[i] \in files
      /\ stack'[Len(stack) + 1] = key
      /\ DOMAIN stack' = 1..(Len(stack) + 1)
  BY <1>1, <1>2
<1>4. colour' \in [Key -> 0..2] /\ colour'[key] = 1 /\ \A k \in Key : k # key => colour'[k] = colour[k]
  BY <1>1
<1>5. \A i \in 1..Len(stack) : stack[i] # key
  <2>1. \A i \in 1..Len(stack) : colour[stack[i]] = 1
    BY <1>1, <1>2, <1>3 DEF ContractTypeOK
  <2>2. QED
    BY <2>1
<1>6. \A k \in Key : colour'[k] = 1 <=> \E i \in DOMAIN stack' : stack'[i] = k
  <2> SUFFICES ASSUME NEW k \in Key
               PROVE  colour'[k] = 1 <=> \E i \in 1..(Len(stack) + 1) : stack'[i] = k
    BY <1>3
  <2>1. CASE k = key
    BY <2>1, <1>2, <1>3, <1>4
  <2>2. CASE k # key
    <3>1. colour[k] = 1 <=> \E i \in 1..Len(stack) : stack[i] = k
      BY <1>2 DEF ContractTypeOK
    <3>2. QED
      BY <2>2, <3>1, <1>2, <1>3, <1>4
  <2>3. QED
    BY <2>1, <2>2
<1>7. ContractTypeOK'
  BY <1>3, <1>4, <1>6 DEF ContractTypeOK
<1>8. Finished' = Finished
  BY <1>1, <1>4 DEF Finished
<1>9. \A k \in Key : colour'[k] # 0 => k \in files'
  BY <1>4 DEF WalkSound
<1>10. \A i, k \in 1..Len(stack') : i # k => stack'[i] # stack'[k]
  BY <1>2, <1>3, <1>5 DEF WalkSound
<1>11. QED
  BY <1>7, <1>8, <1>9, <1>10

LEMMA ActionStartVisit == ASSUME IInv, NEW key \in Key, StartVisit(key) PROVE IInv'
<1> USE DEF IInv
<1>1. /\ phase = "walk" /\ phase' = phase /\ stack = <<>> /\ key \in files /\ colour[key] = 0
      /\ colour' = [colour EXCEPT ![key] = 1] /\ stack' = Append(stack, key)
      /\ todo' = [todo EXCEPT ![key] = Job] /\ violations' = violations /\ rank' = rank
      /\ WalkUnchanged
  BY DEF StartVisit
<1>2. /\ world' = world /\ files' = files /\ chain' = chain /\ grant' = grant /\ outside' = outside
  BY <1>1 DEF WalkUnchanged
<1>3. todo' \in [Key -> SUBSET Job] /\ todo'[key] = Job
  BY <1>1 DEF ContractTypeOK
<1>4. /\ ContractTypeOK' /\ Finished' = Finished
      /\ \A k \in Key : colour'[k] # 0 => k \in files'
      /\ \A i, k \in 1..Len(stack') : i # k => stack'[i] # stack'[k]
  BY <1>1, <1>2, <1>3, Enter
<1>5. ASSUME ~CycleMet' PROVE FinishedRanked'
  BY <1>1, <1>2, <1>4, <1>5, CalleeKept DEF WalkSound, CycleMet, FinishedRanked
<1>6. StackWaits'
  <2>1. Len(stack') = 1 /\ stack'[1] = key
    BY <1>1
  <2>2. QED
    BY <1>3, <2>1 DEF StackWaits
<1>7. WalkSound'
  BY <1>1, <1>4, <1>5, <1>6 DEF WalkSound, CycleMet, Checked
<1>8. CyclesReal'
  <2>1. StackCalls'
    BY <1>1 DEF StackCalls
  <2>2. CycleMet' => CycleMet
    BY <1>1, <1>2 DEF CycleMet
  <2>3. QED
    BY <1>2, <2>1, <2>2, CyclicKept DEF CyclesReal
<1>9. QED
  BY <1>1, <1>4, <1>7, <1>8, WalkStep

LEMMA ActionVisitJob == ASSUME IInv, NEW j \in Job, VisitJob(j) PROVE IInv'
<1> USE DEF IInv
<1> DEFINE top == Top
           callee == Callee(top, j)
           rest == [todo EXCEPT ![top] = @ \ {j}]
<1>1. /\ phase = "walk" /\ phase' = phase /\ stack # <<>> /\ j \in todo[top] /\ rank' = rank
      /\ WalkUnchanged
  BY DEF VisitJob
<1>2. /\ world' = world /\ files' = files /\ chain' = chain /\ grant' = grant /\ outside' = outside
  BY <1>1 DEF WalkUnchanged
<1>3. /\ Len(stack) \in Nat \ {0} /\ top = stack[Len(stack)]
      /\ top \in files /\ top \in Key /\ colour[top] = 1
      /\ \A i \in 1..Len(stack) : stack[i] \in files /\ stack[i] \in Key /\ colour[stack[i]] = 1
  BY <1>1, StackTop
<1>4. rest \in [Key -> SUBSET Job] /\ rest[top] = todo[top] \ {j}
      /\ \A k \in Key : k # top => rest[k] = todo[k]
  BY <1>3 DEF ContractTypeOK
<1>5. files \subseteq Key /\ stack \in Seq(files) /\ colour \in [Key -> 0..2]
  BY DEF ContractTypeOK
<1>6. \A i \in 1..Len(stack) : i # Len(stack) => stack[i] # top
  BY <1>3 DEF WalkSound, CycleMet
<1> HIDE DEF top, rest
<1>7. CASE callee \in files /\ colour[callee] = 0
  <2>1. /\ colour' = [colour EXCEPT ![callee] = 1] /\ stack' = Append(stack, callee)
        /\ todo' = [rest EXCEPT ![callee] = Job] /\ violations' = violations
    BY <1>7 DEF VisitJob, top, rest
  <2>2. /\ todo' \in [Key -> SUBSET Job] /\ todo'[callee] = Job
        /\ \A k \in Key : k # callee => todo'[k] = rest[k]
    BY <1>4, <1>5, <1>7, <2>1
  <2>3. /\ ContractTypeOK' /\ Finished' = Finished
        /\ \A k \in Key : colour'[k] # 0 => k \in files'
        /\ \A i, k \in 1..Len(stack') : i # k => stack'[i] # stack'[k]
    BY <1>1, <1>2, <1>7, <2>1, <2>2, Enter
  <2>4. ASSUME ~CycleMet' PROVE FinishedRanked'
    BY <1>1, <1>2, <2>1, <2>3, <2>4, CalleeKept DEF WalkSound, CycleMet, FinishedRanked
  <2>5. ASSUME ~CycleMet' PROVE StackWaits'
    <3> SUFFICES ASSUME NEW i \in 1..Len(stack'), NEW k \in Job \ todo'[stack'[i]],
                        Callee(stack'[i], k) \in files
                 PROVE  \/ Callee(stack'[i], k) \in Finished
                        \/ i < Len(stack') /\ Callee(stack'[i], k) = stack'[i+1]
      BY <1>2, <2>3, CalleeKept DEF StackWaits
    <3>1. /\ Len(stack') = Len(stack) + 1 /\ stack'[Len(stack) + 1] = callee
          /\ \A n \in 1..Len(stack) : stack'[n] = stack[n]
      BY <1>5, <1>7, <2>1
    <3>2. i # Len(stack) + 1
      BY <2>2, <3>1
    <3>3. i \in 1..Len(stack) /\ stack'[i] = stack[i] /\ stack[i] # callee
      BY <1>3, <1>7, <3>1, <3>2
    <3>4. k \in Job \ rest[stack[i]]
      BY <1>3, <2>2, <3>3
    <3>5. CASE i = Len(stack)
      <4>1. k = j \/ k \in Job \ todo[stack[i]]
        BY <1>3, <1>4, <3>4, <3>5
      <4>2. CASE k = j
        BY <1>3, <3>1, <3>3, <3>5, <4>2
      <4>3. CASE k \in Job \ todo[stack[i]]
        BY <1>2, <1>3, <2>1, <2>5, <3>3, <3>5, <4>3 DEF WalkSound, CycleMet, StackWaits
      <4>4. QED
        BY <4>1, <4>2, <4>3
    <3>6. CASE i # Len(stack)
      <4>1. k \in Job \ todo[stack[i]]
        BY <1>3, <1>4, <1>6, <3>3, <3>4, <3>6
      <4>2. /\ i < Len(stack)
            /\ Callee(stack[i], k) \in Finished \/ Callee(stack[i], k) = stack[i+1]
        BY <1>2, <1>3, <2>1, <2>5, <3>3, <3>6, <4>1 DEF WalkSound, CycleMet, StackWaits
      <4>3. QED
        BY <1>3, <3>1, <3>3, <4>2
    <3>7. QED
      BY <3>5, <3>6
  <2>6. WalkSound'
    BY <1>1, <2>3, <2>4, <2>5 DEF WalkSound, CycleMet, Checked
  <2>7. CyclesReal'
    <3>1. /\ Len(stack') = Len(stack) + 1 /\ stack'[Len(stack) + 1] = callee
          /\ \A n \in 1..Len(stack) : stack'[n] = stack[n]
      BY <1>5, <1>7, <2>1
    <3>2. ASSUME NEW i \in 1..Len(stack') - 1 PROVE \E k \in Job : Callee(stack'[i], k) = stack'[i+1]
      <4>1. CASE i = Len(stack)
        BY <1>3, <3>1, <4>1
      <4>2. CASE i # Len(stack)
        <5>1. i \in 1..Len(stack) - 1 /\ i \in 1..Len(stack) /\ i + 1 \in 1..Len(stack)
          BY <1>3, <3>1, <4>2
        <5>2. QED
          BY <3>1, <5>1 DEF CyclesReal, StackCalls
      <4>3. QED
        BY <4>1, <4>2
    <3>3. StackCalls'
      BY <1>2, <3>2, CalleeKept DEF StackCalls
    <3>4. CycleMet' => CycleMet
      BY <1>2, <2>1 DEF CycleMet
    <3>5. QED
      BY <1>2, <3>3, <3>4, CyclicKept DEF CyclesReal
  <2>8. QED
    BY <1>1, <2>1, <2>3, <2>6, <2>7, WalkStep
<1>8. CASE ~(callee \in files /\ colour[callee] = 0)
  <2> DEFINE met == IF callee \in files /\ colour[callee] = 1
                    THEN {<<"REUSABLE_WORKFLOW_CYCLE", callee>>} ELSE {}
  <2>1. /\ violations' = violations \cup met
        /\ todo' = rest /\ colour' = colour /\ stack' = stack
    BY <1>8 DEF VisitJob, top, rest
  <2>2. violations \subseteq violations' /\ \A v \in violations' \ violations : v[1] \notin PinCodes
    BY <2>1 DEF PinCodes
  <2>3. ContractTypeOK' /\ Finished' = Finished
    BY <1>1, <1>2, <1>4, <2>1 DEF ContractTypeOK, Finished
  <2>4. ASSUME ~CycleMet' PROVE FinishedRanked'
    BY <1>1, <1>2, <2>1, <2>3, <2>4, CalleeKept DEF WalkSound, CycleMet, FinishedRanked
  <2>5. ASSUME ~CycleMet' PROVE StackWaits'
    <3> SUFFICES ASSUME NEW i \in 1..Len(stack), NEW k \in Job \ rest[stack[i]],
                        Callee(stack[i], k) \in files
                 PROVE  \/ Callee(stack[i], k) \in Finished
                        \/ i < Len(stack) /\ Callee(stack[i], k) = stack[i+1]
      BY <1>2, <2>1, <2>3, CalleeKept DEF StackWaits
    <3>1. CASE k \in Job \ todo[stack[i]]
      BY <1>2, <2>2, <2>1, <2>5, <3>1 DEF WalkSound, CycleMet, StackWaits
    <3>2. CASE k \notin Job \ todo[stack[i]]
      <4>1. stack[i] = top /\ k = j
        BY <1>3, <1>4, <3>2
      <4>2. callee \in files /\ colour[callee] # 1 /\ colour[callee] # 0
        BY <1>2, <1>8, <2>1, <2>5, <4>1 DEF CycleMet
      <4>3. callee \in Finished
        BY <1>5, <4>2 DEF Finished
      <4>4. QED
        BY <4>1, <4>3
    <3>3. QED
      BY <3>1, <3>2
  <2>6. WalkSound'
    BY <1>1, <1>2, <2>1, <2>4, <2>5 DEF WalkSound, CycleMet, Checked
  <2>7. CyclesReal'
    <3>1. CASE callee \in files /\ colour[callee] = 1
      <4>1. PICK m \in 1..Len(stack) : stack[m] = callee
        BY <1>3, <1>5, <3>1 DEF ContractTypeOK
      <4> DEFINE circle == {stack[i] : i \in m..Len(stack)}
      <4>2. circle \in SUBSET files /\ circle # {}
        BY <1>3, <4>1
      <4>3. ASSUME NEW i \in m..Len(stack) PROVE \E k \in Job : Callee(stack[i], k) \in circle
        <5>1. CASE i = Len(stack)
          BY <1>3, <4>1, <5>1
        <5>2. CASE i # Len(stack)
          <6>1. i \in 1..Len(stack) - 1 /\ i + 1 \in m..Len(stack)
            BY <1>3, <4>1, <5>2
          <6>2. QED
            BY <6>1 DEF CyclesReal, StackCalls
        <5>3. QED
          BY <5>1, <5>2
      <4>4. Cyclic
        BY <4>2, <4>3 DEF Cyclic
      <4>5. StackCalls'
        BY <1>2, <2>1, CalleeKept DEF CyclesReal, StackCalls
      <4>6. QED
        BY <1>2, <4>4, <4>5, CyclicKept DEF CyclesReal
    <3>2. CASE ~(callee \in files /\ colour[callee] = 1)
      <4>1. CycleMet' => CycleMet
        BY <1>2, <2>1, <3>2 DEF CycleMet
      <4>2. QED
        BY <1>2, <2>1, <4>1, CyclesKept
    <3>3. QED
      BY <3>1, <3>2
  <2>8. QED
    BY <1>1, <2>2, <2>3, <2>6, <2>7, WalkStep
<1>9. QED
  BY <1>7, <1>8

LEMMA ActionFinishVisit == IInv /\ FinishVisit => IInv'
<1> SUFFICES ASSUME IInv, FinishVisit PROVE IInv'
  OBVIOUS
<1> USE DEF IInv
<1> DEFINE top == Top
           n == Len(stack)
           count == Cardinality(Finished)
<1>1. /\ phase = "walk" /\ phase' = phase /\ stack # <<>> /\ todo[top] = {}
      /\ colour' = [colour EXCEPT ![top] = 2]
      /\ rank' = [rank EXCEPT ![top] = count]
      /\ stack' = SubSeq(stack, 1, n - 1)
      /\ violations' = violations /\ todo' = todo /\ WalkUnchanged
  BY DEF FinishVisit, Finished
<1>2. /\ world' = world /\ files' = files /\ chain' = chain /\ grant' = grant /\ outside' = outside
  BY <1>1 DEF WalkUnchanged
<1>3. /\ n \in Nat \ {0} /\ top = stack[n] /\ DOMAIN stack = 1..n
      /\ top \in files /\ top \in Key /\ colour[top] = 1
      /\ \A i \in 1..n : stack[i] \in files /\ stack[i] \in Key /\ colour[stack[i]] = 1
  BY <1>1, StackTop
<1>4. files \subseteq Key /\ stack \in Seq(files) /\ colour \in [Key -> 0..2] /\ rank \in [Key -> Nat]
  BY DEF ContractTypeOK
<1>5. \A i \in 1..n : i # n => stack[i] # top
  <2>1. \A i, k \in 1..n : i # k => stack[i] # stack[k]
    BY Zenon DEF WalkSound, CycleMet
  <2>2. n \in 1..n /\ top = stack[n]
    BY <1>3
  <2>3. QED
    BY <2>1, <2>2, Zenon
<1>6. IsFiniteSet(Finished) /\ count \in Nat
  <2>1. files \subseteq DOMAIN world.source
    BY <1>1 DEF LoadSound, Loaded
  <2>2. QED
    BY <2>1, FilesFinite, FS_CardinalityType
<1> HIDE DEF top, n
<1>7. /\ colour'[top] = 2 /\ rank'[top] = count
      /\ \A k \in Key : k # top => colour'[k] = colour[k] /\ rank'[k] = rank[k]
      /\ colour' \in [Key -> 0..2] /\ rank' \in [Key -> Nat]
  BY <1>1, <1>3, <1>4, <1>6
<1>8. /\ stack' \in Seq(files) /\ Len(stack') = n - 1 /\ DOMAIN stack' = 1..(n-1)
      /\ \A i \in 1..(n-1) : stack'[i] = stack[i]
  <2>1. \A i \in 1..(n-1) : stack[i] \in files
    BY <1>3
  <2>2. /\ SubSeq(stack, 1, n-1) \in Seq(files)
        /\ Len(SubSeq(stack, 1, n-1)) = IF 1 <= n-1 THEN (n-1)-1+1 ELSE 0
        /\ \A i \in 1..((n-1)-1+1) : SubSeq(stack, 1, n-1)[i] = stack[1+i-1]
    BY <1>3, <2>1, SubSeqProperties
  <2>3. Len(stack') = n - 1 /\ \A i \in 1..(n-1) : stack'[i] = stack[i]
    BY <1>1, <1>3, <2>2
  <2>4. QED
    BY <1>1, <2>2, <2>3, LenProperties
<1>9. ContractTypeOK'
  <2>1. ASSUME NEW k \in Key PROVE colour'[k] = 1 <=> \E i \in DOMAIN stack' : stack'[i] = k
    <3>1. CASE k = top
      <4>1. \A i \in 1..(n-1) : stack[i] # top
        BY <1>3, <1>5
      <4>2. QED
        BY <1>7, <1>8, <3>1, <4>1
    <3>2. CASE k # top
      <4>1. colour[k] = 1 <=> \E i \in 1..n : stack[i] = k
        BY <1>3 DEF ContractTypeOK
      <4>2. (\E i \in 1..n : stack[i] = k) <=> (\E i \in 1..(n-1) : stack[i] = k)
        BY <1>3, <3>2
      <4>3. QED
        BY <1>7, <1>8, <3>2, <4>1, <4>2
    <3>3. QED
      BY <3>1, <3>2
  <2>2. QED
    BY <1>1, <1>2, <1>7, <1>8, <2>1 DEF ContractTypeOK
<1>10. Finished' = Finished \cup {top} /\ top \notin Finished
  BY <1>2, <1>3, <1>4, <1>7 DEF Finished
<1>11. Cardinality(Finished') = count + 1
  BY <1>6, <1>10, FS_AddElement
<1>12. ASSUME ~CycleMet' PROVE FinishedRanked'
  <2>1. FinishedRanked /\ StackWaits
    BY <1>2, <1>1, <1>12 DEF WalkSound, CycleMet
  <2>2. \A key \in Finished : key \in Key /\ key # top
    BY <1>4, <1>10 DEF Finished
  <2>3. \A key \in Finished' : rank'[key] < Cardinality(Finished')
    BY <1>4, <1>6, <1>7, <1>10, <1>11, <2>1, <2>2 DEF FinishedRanked
  <2>4. ASSUME NEW key \in Finished', NEW j \in Job, Callee(key, j) \in files
        PROVE  Callee(key, j) \in Finished' /\ rank'[Callee(key, j)] < rank'[key]
    <3>1. CASE key \in Finished
      BY <1>7, <1>10, <2>1, <2>2, <2>4, <3>1 DEF FinishedRanked
    <3>2. CASE key = top
      <4>1. Callee(top, j) \in Finished
        BY <1>1, <1>3, <2>1, <2>4, <3>2 DEF StackWaits, n, top
      <4>2. QED
        BY <1>7, <1>10, <2>1, <2>2, <3>2, <4>1 DEF FinishedRanked
    <3>3. QED
      BY <1>10, <3>1, <3>2
  <2>5. QED
    BY <1>2, <2>3, <2>4, CalleeKept DEF FinishedRanked
<1>13. ASSUME ~CycleMet' PROVE StackWaits'
  <2> SUFFICES ASSUME NEW i \in 1..(n-1), NEW j \in Job \ todo[stack[i]], Callee(stack[i], j) \in files
               PROVE  \/ Callee(stack[i], j) \in Finished'
                      \/ i < n - 1 /\ Callee(stack[i], j) = stack'[i+1]
    BY <1>1, <1>2, <1>8, CalleeKept DEF StackWaits
  <2>1. i \in 1..n /\ i + 1 \in 1..n
    BY <1>3
  <2>2. \/ Callee(stack[i], j) \in Finished
        \/ Callee(stack[i], j) = stack[i+1]
    BY <1>2, <1>1, <1>13, <2>1 DEF WalkSound, CycleMet, StackWaits, n
  <2>3. CASE i + 1 = n
    BY <1>3, <1>10, <2>2, <2>3
  <2>4. CASE i + 1 # n
    BY <1>3, <1>8, <1>10, <2>1, <2>2, <2>4
  <2>5. QED
    BY <2>3, <2>4
<1>14. WalkSound'
  <2>1. \A k \in Key : colour'[k] # 0 => k \in files'
    BY <1>2, <1>3, <1>7 DEF WalkSound, CycleMet
  <2>2. \A i, k \in 1..Len(stack') : i # k => stack'[i] # stack'[k]
    BY <1>3, <1>8 DEF WalkSound, CycleMet, n
  <2>3. QED
    BY <1>1, <1>12, <1>13, <2>1, <2>2 DEF WalkSound, CycleMet, Checked
<1>15. CyclesReal'
  <2>1. ASSUME NEW i \in 1..(n-1)-1 PROVE \E j \in Job : Callee(stack'[i], j) = stack'[i+1]
    <3>1. i \in 1..n-1 /\ i + 1 \in 1..n-1
      BY <1>3
    <3>2. \E j \in Job : Callee(stack[i], j) = stack[i+1]
      BY <3>1 DEF CyclesReal, StackCalls, n
    <3>3. QED
      BY <1>8, <3>1, <3>2
  <2>2. StackCalls'
    BY <1>2, <1>8, <2>1, CalleeKept DEF StackCalls
  <2>3. CycleMet' => CycleMet
    BY <1>1, <1>2 DEF CycleMet
  <2>4. QED
    BY <1>2, <2>2, <2>3, CyclicKept DEF CyclesReal
<1>16. QED
  BY <1>1, <1>9, <1>14, <1>15, WalkStep

LEMMA ActionReport == IInv /\ Report => IInv'
<1> SUFFICES ASSUME IInv, Report PROVE IInv'
  OBVIOUS
<1> USE DEF IInv
<1>1. /\ phase = "walk" /\ stack = <<>> /\ \A key \in files : colour[key] = 2
      /\ phase' = IF violations = {} THEN "valid" ELSE "invalid"
      /\ violations' = violations /\ colour' = colour /\ stack' = stack /\ todo' = todo /\ rank' = rank
      /\ world' = world /\ files' = files /\ checked' = checked
      /\ chain' = chain /\ grant' = grant /\ outside' = outside
  BY DEF Report, WalkUnchanged
<1>2. chain = <<>>
  BY <1>1 DEF ChainSound
<1>3. ContractTypeOK'
  BY <1>1 DEF ContractTypeOK
<1>4. LoadSound' /\ CheckSound'
  BY <1>1, LoadKept, CheckKept DEF Loaded, Checked
<1>5. CatalogAndContractAgree'
  BY <1>1, AgreeKept
<1>6. Finished' = Finished /\ Finished = files
  BY <1>1 DEF Finished
<1>7. WalkSound'
  <2>1. FinishedRanked => FinishedRanked'
    BY <1>1, <1>6, CalleeKept DEF FinishedRanked
  <2>2. StackWaits => StackWaits'
    BY <1>1, <1>6, CalleeKept DEF StackWaits
  <2>3. QED
    BY <1>1, <2>1, <2>2 DEF WalkSound, CycleMet, Checked
<1>8. ReportSound'
  BY <1>1, <1>6 DEF ReportSound, Reported
<1>9. ChainSound' /\ OutsideSound'
  BY <1>1, <1>2, ChainKept, OutsideKept
<1>10. CyclesReal'
  BY <1>1, CyclesKept DEF CycleMet
<1>11. QED
  BY <1>1, <1>3, <1>4, <1>5, <1>7, <1>8, <1>9, <1>10

-----------------------------------------------------------------------------
(* The run                                                                 *)

\* What a call of a file the report calls valid is known to do.
LEMMA CallDescends ==
  ASSUME IInv, phase = "valid", NEW key \in files, NEW j \in Job, Callee(key, j) \in files
  PROVE  /\ rank[Callee(key, j)] < rank[key]
         /\ \A s \in Scope : \A level \in Required(Callee(key, j), s) : level <= Effective(key, j)[s]
<1> USE DEF IInv
<1>1. violations = {} /\ ~CycleMet /\ key \in Finished
  BY DEF ReportSound, Reported, CycleMet
<1>2. rank[Callee(key, j)] < rank[key]
  BY <1>1 DEF WalkSound, CycleMet, FinishedRanked
<1>3. CallSound(key, j) /\ Callee(key, j) \in Key
  BY <1>1 DEF CheckSound, Checked, ContractTypeOK
<1>4. QED
  BY <1>2, <1>3 DEF CallSound

\* A call that leaves the loaded files was not asked to stay in them.
LEMMA LeavingIsOptional ==
  ASSUME IInv, phase = "valid", NEW key \in files, NEW j \in Job,
         Callee(key, j) \notin files, Callee(key, j) # Nothing
  PROVE  ~world.requireAuthorities
<1> USE DEF IInv
<1> DEFINE callee == Callee(key, j)
<1>1. violations = {} /\ key \in Key /\ key \in DOMAIN world.source
  BY DEF ReportSound, Reported, LoadSound, Loaded, ContractTypeOK
<1>2. callee \in Key
  BY <1>1, CalleeType
<1>3. MatchesAuthority(callee, key) /\ ~ExpectedLoaded(callee, key)
  BY <1>1, <1>2 DEF CheckSound, Checked, CallSound
<1>4. AtReviewedPin(callee) /\ ~(callee.repository \in DOMAIN checked /\ checked[callee.repository] = "checked")
  BY <1>3 DEF MatchesAuthority, ExpectedLoaded
<1>5. callee.repository \in Remote /\ world.authority[callee.repository].state = "reviewed"
  BY <1>4 DEF AtReviewedPin, LoadSound, Loaded, Remote
<1>6. /\ checked[callee.repository] = AuthorityStatus(callee.repository)
      /\ checked[callee.repository] \notin {"missing", "mismatch", "checked"}
  BY <1>1, <1>4, <1>5 DEF LoadSound, Loaded
<1>7. QED
  BY <1>5, <1>6, StatusReason

\* One more call: `last` is the file that makes it.
LEMMA Extend ==
  ASSUME IInv, phase = "valid", NEW key \in files, NEW j \in Job, Call(key, j),
         chain = <<>> => grant' = Effective(key, j),
         chain # <<>> => grant' = grant /\ key = chain[Len(chain)]
  PROVE  IInv'
<1> USE DEF IInv
<1> DEFINE callee == Callee(key, j)
           base == IF chain = <<>> THEN <<key>> ELSE chain
<1>1. /\ callee # Nothing
      /\ world' = world /\ phase' = phase /\ files' = files /\ checked' = checked
      /\ violations' = violations /\ colour' = colour /\ stack' = stack /\ todo' = todo /\ rank' = rank
  BY DEF Call
<1>2. LoadSound' /\ CheckSound' /\ CatalogAndContractAgree'
  BY <1>1, LoadKept, CheckKept, AgreeKept DEF Loaded, Checked
<1>3. Finished' = Finished
  BY <1>1 DEF Finished
<1>4. WalkSound' /\ ReportSound' /\ CyclesReal'
  BY <1>1, FrozenWalk
<1>5. grant' \in Permissions
  <2>1. Effective(key, j) \in Permissions
    BY EffectiveType DEF Effective, ParsePermissions, Permissions
  <2>2. QED
    BY <2>1 DEF ContractTypeOK
<1>6. CASE callee \notin files
  <2>1. chain' = chain /\ outside' = TRUE
    BY <1>6 DEF Call
  <2>2. ContractTypeOK'
    BY <1>1, <1>5, <2>1 DEF ContractTypeOK
  <2>3. ChainSound'
    <3>1. chain = <<>> => GrantCoversEveryDepth'
      BY <2>1 DEF GrantCoversEveryDepth
    <3>2. chain # <<>> => GrantCoversEveryDepth'
      BY <1>1, <2>1, GrantKept DEF ChainSound
    <3>3. QED
      BY <1>1, <2>1, <3>1, <3>2 DEF ChainSound
  <2>4. OutsideSound'
    BY <1>1, <1>6, LeavingIsOptional DEF OutsideSound
  <2>5. QED
    BY <1>1, <1>2, <1>4, <2>2, <2>3, <2>4
<1>7. CASE callee \in files
  <2>1. chain' = Append(base, callee) /\ outside' = outside
    BY <1>7 DEF Call
  <2>2. chain \in Seq(files) /\ files \subseteq Key /\ rank \in [Key -> Nat]
    BY DEF ContractTypeOK
  <2>3. /\ base \in Seq(files) /\ Len(base) \in Nat \ {0} /\ base[Len(base)] = key
        /\ chain # <<>> => base = chain
        /\ chain = <<>> => Len(base) = 1
    <3>1. chain # <<>> => Len(chain) \in Nat \ {0}
      BY <2>2, EmptySeq
    <3>2. QED
      BY <2>2, <3>1
  <2> HIDE DEF base
  <2>4. /\ chain' \in Seq(files) /\ Len(chain') = Len(base) + 1
        /\ chain'[Len(base) + 1] = callee
        /\ \A i \in 1..Len(base) : chain'[i] = base[i] /\ base[i] \in files
    BY <1>7, <2>1, <2>3, ElementOfSeq
  <2>5. \A i, k \in 1..Len(base) : i < k => rank[base[k]] < rank[base[i]]
    BY <2>3 DEF ChainSound
  <2>6. ContractTypeOK'
    BY <1>1, <1>5, <2>1, <2>4 DEF ContractTypeOK
  <2>7. rank[callee] < rank[key]
        /\ \A s \in Scope : \A level \in Required(callee, s) : level <= Effective(key, j)[s]
    BY <1>7, CallDescends
  <2>8. \A i, k \in 1..Len(chain') : i < k => rank'[chain'[k]] < rank'[chain'[i]]
    <3> SUFFICES ASSUME NEW i \in 1..Len(chain'), NEW k \in 1..Len(chain'), i < k
                 PROVE  rank[chain'[k]] < rank[chain'[i]]
      BY <1>1
    <3>1. i \in 1..Len(base)
      BY <2>3, <2>4
    <3>2. CASE k \in 1..Len(base)
      BY <2>4, <2>5, <3>1, <3>2
    <3>3. CASE k = Len(base) + 1
      <4>1. rank[key] <= rank[base[i]]
        <5>1. CASE i = Len(base)
          BY <2>2, <2>3, <5>1
        <5>2. CASE i # Len(base)
          <6>1. i < Len(base) /\ Len(base) \in 1..Len(base)
            BY <2>3, <3>1, <5>2
          <6>2. rank[key] < rank[base[i]]
            BY <2>3, <2>5, <3>1, <6>1
          <6>3. rank[key] \in Nat /\ rank[base[i]] \in Nat
            BY <2>2, <2>4, <3>1
          <6>4. QED
            BY <6>2, <6>3
        <5>3. QED
          BY <5>1, <5>2
      <4>2. rank[key] \in Nat /\ rank[base[i]] \in Nat /\ rank[callee] \in Nat
        BY <1>7, <2>2, <2>4, <3>1
      <4>3. QED
        BY <2>4, <2>7, <3>1, <3>3, <4>1, <4>2
    <3>4. QED
      BY <2>3, <2>4, <3>2, <3>3
  <2>9. GrantCoversEveryDepth'
    <3> SUFFICES ASSUME NEW i \in 2..Len(chain'), NEW s \in Scope, NEW level \in Required(chain'[i], s)
                 PROVE  level <= grant'[s]
      BY <1>1, RequiredKept DEF GrantCoversEveryDepth
    <3>1. CASE i \in 1..Len(base)
      <4>1. chain # <<>> /\ base = chain /\ i \in 2..Len(chain)
        BY <2>3, <3>1
      <4>2. QED
        BY <2>4, <3>1, <4>1 DEF ChainSound, GrantCoversEveryDepth
    <3>2. CASE i = Len(base) + 1
      <4>1. level <= Effective(key, j)[s]
        BY <2>4, <2>7, <3>2
      <4>2. CASE chain = <<>>
        BY <4>1, <4>2
      <4>3. CASE chain # <<>>
        <5>1. Len(chain) \in 2..Len(chain) /\ key = chain[Len(chain)]
          BY <2>3, <4>3 DEF ChainSound
        <5>2. Effective(key, j)[s] \in Required(key, s)
          BY DEF Required
        <5>3. Effective(key, j)[s] <= grant[s]
          BY <5>1, <5>2 DEF ChainSound, GrantCoversEveryDepth
        <5>4. level \in Nat
          <6>1. callee \in Key /\ callee \in DOMAIN world.source
            BY <1>7, <2>2 DEF LoadSound, Loaded
          <6>2. QED
            BY <2>4, <3>2, <6>1, RequiredType
        <5>5. Effective(key, j)[s] \in Nat /\ grant[s] \in Nat
          <6>1. Effective(key, j)[s] \in Level /\ grant[s] \in Level
            BY EffectiveType DEF ContractTypeOK, Permissions
          <6>2. QED
            BY <6>1 DEF Level
        <5>6. QED
          BY <4>1, <4>3, <5>3, <5>4, <5>5
      <4>4. QED
        BY <4>2, <4>3
    <3>3. QED
      BY <2>3, <2>4, <3>1, <3>2
  <2>10. ChainSound'
    BY <1>1, <2>3, <2>4, <2>8, <2>9 DEF ChainSound
  <2>11. QED
    BY <1>1, <1>2, <1>4, <2>1, <2>6, <2>10, OutsideKept
<1>8. QED
  BY <1>6, <1>7

LEMMA ActionRun == IInv /\ Run => IInv'
<1> SUFFICES ASSUME IInv, Run PROVE IInv'
  OBVIOUS
<1>1. ASSUME NEW key \in Key, NEW j \in Job, Trigger(key, j) PROVE IInv'
  BY <1>1, Extend DEF Trigger
<1>2. ASSUME NEW j \in Job, NestedCall(j) PROVE IInv'
  <2>1. chain # <<>> /\ phase = "valid" /\ chain \in Seq(files) /\ Len(chain) \in 1..Len(chain)
    BY <1>2, EmptySeq DEF NestedCall, IInv, ChainSound, ContractTypeOK
  <2>2. chain[Len(chain)] \in files
    BY <2>1, ElementOfSeq
  <2>3. QED
    BY <1>2, <2>1, <2>2, Extend DEF NestedCall
<1>3. QED
  BY <1>1, <1>2 DEF Run

LEMMA ActionInvoke == ASSUME NEW w \in Worlds, Invoke(w) PROVE IInv'
<1>1. /\ world' \in Worlds /\ phase' = "load"
      /\ files' = {} /\ checked' = <<>> /\ violations' = {}
      /\ colour' = Unvisited /\ rank' = Unvisited /\ todo' = NoJobs
      /\ stack' = <<>> /\ chain' = <<>> /\ grant' = NoGrant /\ outside' = FALSE
  BY DEF Invoke
<1>2. ContractTypeOK'
  <2>1. stack' \in Seq(files') /\ chain' \in Seq(files') /\ DOMAIN stack' = {}
    BY <1>1, EmptySeq
  <2>2. /\ colour' \in [Key -> 0..2] /\ rank' \in [Key -> Nat]
        /\ \A key \in Key : colour'[key] = 0
    BY <1>1 DEF Unvisited
  <2>3. todo' \in [Key -> SUBSET Job] /\ grant' \in Permissions
    BY <1>1 DEF NoJobs, NoGrant, Permissions, Level
  <2>4. \A key \in Key : colour'[key] = 1 <=> \E i \in DOMAIN stack' : stack'[i] = key
    BY <2>1, <2>2
  <2>5. QED
    BY <1>1, <2>1, <2>2, <2>3, <2>4 DEF ContractTypeOK
<1>3. LoadSound' /\ CheckSound' /\ ReportSound' /\ OutsideSound' /\ CatalogAndContractAgree'
  BY <1>1 DEF LoadSound, CheckSound, ReportSound, Reported, OutsideSound, CatalogAndContractAgree,
              Loaded, Checked
<1>4. WalkSound'
  BY <1>1, <1>2, WalkIdle
<1>5. ChainSound'
  BY <1>1 DEF ChainSound, GrantCoversEveryDepth
<1>6. CyclesReal'
  BY <1>1, NoCycles DEF CycleMet
<1>7. QED
  BY <1>1, <1>2, <1>3, <1>4, <1>5, <1>6 DEF IInv

LEMMA Stutter == IInv /\ UNCHANGED vars => IInv'
<1> SUFFICES ASSUME IInv, UNCHANGED vars PROVE IInv'
  OBVIOUS
<1> USE DEF IInv
<1>1. /\ world' = world /\ phase' = phase /\ files' = files /\ checked' = checked
      /\ violations' = violations /\ colour' = colour /\ stack' = stack /\ todo' = todo
      /\ rank' = rank /\ chain' = chain /\ grant' = grant /\ outside' = outside
  BY DEF vars
<1>2. ContractTypeOK'
  BY <1>1 DEF ContractTypeOK
<1>3. LoadSound'
  <2>1. CASE phase \in Loaded
    BY <1>1, <2>1, LoadKept
  <2>2. CASE phase \notin Loaded
    BY <1>1, <2>2 DEF LoadSound
  <2>3. QED
    BY <2>1, <2>2
<1>4. CheckSound'
  <2>1. CASE phase \in Checked
    BY <1>1, <2>1, CheckKept
  <2>2. CASE phase \notin Checked
    BY <1>1, <2>2 DEF CheckSound
  <2>3. QED
    BY <2>1, <2>2
<1>5. CatalogAndContractAgree'
  BY <1>1, AgreeKept
<1>6. Finished' = Finished
  BY <1>1 DEF Finished
<1>7. WalkSound' /\ ReportSound' /\ CyclesReal'
  BY <1>1, FrozenWalk
<1>8. ChainSound' /\ OutsideSound'
  BY <1>1, ChainKept, OutsideKept
<1>9. QED
  BY <1>1, <1>2, <1>3, <1>4, <1>5, <1>7, <1>8

-----------------------------------------------------------------------------
(* The theorems                                                            *)

LEMMA Initially == Init => IInv
BY FreshInv DEF Init, Fresh

LEMMA Inductive == IInv /\ [Next]_vars => IInv'
<1> SUFFICES ASSUME IInv, [Next]_vars PROVE IInv'
  OBVIOUS
<1>1. CASE Validate
  BY <1>1, ActionLoad, ActionCheck, ActionStartVisit, ActionVisitJob, ActionFinishVisit,
     ActionReport DEF Validate
<1>2. CASE Run
  BY <1>2, ActionRun
<1>3. CASE \E w \in Worlds : Invoke(w)
  BY <1>3, ActionInvoke
<1>4. CASE UNCHANGED vars
  BY <1>4, Stutter
<1>5. QED
  BY <1>1, <1>2, <1>3, <1>4 DEF Next

\* The inductive invariant holds in every state of every behaviour: what loading,
\* checking and walking leave to the phases after them.
THEOREM Invariant == Spec => []IInv
BY Initially, Inductive, PTL DEF Spec

\* The variables have their types, and the files on the stack of the walk are
\* exactly those it has entered and not left (validateCycles).
THEOREM ContractTyped == Spec => []ContractTypeOK
<1>1. IInv => ContractTypeOK
  BY DEF IInv
<1>2. QED
  BY Invariant, <1>1, PTL

\* Whatever the graph of calls, a report without a violation means that no file
\* is entered twice by nested calls: every call goes to a file that the walk
\* finished earlier (validateCycles).
THEOREM NoRecursion == Spec => []CallsNeverRecur
<1>1. IInv => CallsNeverRecur
  <2> SUFFICES ASSUME IInv, NEW i \in 1..Len(chain), NEW k \in 1..Len(chain), i # k,
                      chain[i] = chain[k]
               PROVE  FALSE
    BY DEF CallsNeverRecur
  <2>1. chain \in Seq(files) /\ files \subseteq Key /\ rank \in [Key -> Nat]
    BY DEF IInv, ContractTypeOK
  <2>2. chain[i] \in Key /\ rank[chain[i]] \in Nat
    BY <2>1, ElementOfSeq
  <2>3. Len(chain) \in Nat /\ (i < k \/ k < i)
    BY <2>1, LenProperties
  <2>4. rank[chain[i]] < rank[chain[i]]
    BY <2>3 DEF IInv, ChainSound
  <2>5. QED
    BY <2>2, <2>4
<1>2. QED
  BY Invariant, <1>1, PTL

\* However deep the calls, the job a run started from grants what the called
\* files require, although the code compares a file with its direct caller only
\* (validateReusableCall).
THEOREM GrantsCover == Spec => []GrantCoversEveryDepth
<1>1. IInv => GrantCoversEveryDepth
  BY DEF IInv, ChainSound
<1>2. QED
  BY Invariant, <1>1, PTL

\* With --require-authorities a run of a valid report stays in reviewed files and
\* uses allowed actions only (LoadCurrent, validateReusableCall,
\* validateActionReference).
THEOREM StaysReviewed == Spec => []RequiredMeansClosed
<1>1. IInv => RequiredMeansClosed
  <2> SUFFICES ASSUME IInv PROVE RequiredMeansClosed
    OBVIOUS
  <2>1. outside => ~world.requireAuthorities
    BY DEF IInv, OutsideSound
  <2>2. ASSUME NEW i \in 1..Len(chain)
        PROVE  /\ Reviewed(chain[i])
               /\ \A j \in Job : \A action \in JobOf(chain[i], j).steps : ActionAllowed(action.uses)
    <3>1. chain \in Seq(files) /\ chain # <<>>
      BY DEF IInv, ContractTypeOK
    <3>2. chain[i] \in files
      BY <3>1, ElementOfSeq
    <3>3. phase = "valid" /\ violations = {}
      BY <3>1 DEF IInv, ChainSound, ReportSound, Reported
    <3>4. Reviewed(chain[i])
      BY <3>2, <3>3 DEF IInv, LoadSound, Loaded
    <3>5. \A j \in Job : ActionsSound(chain[i], j)
      BY <3>2, <3>3 DEF IInv, CheckSound, Checked
    <3>6. QED
      BY <3>4, <3>5 DEF ActionsSound
  <2>3. QED
    BY <2>1, <2>2 DEF RequiredMeansClosed
<1>2. QED
  BY Invariant, <1>1, PTL

\* Where the catalog and the contract both have a rule for a reference, the
\* contract refuses none that the catalog accepts, although each checks pins with
\* code of its own (validateCanonicalWorkflowPins, validateReusableCall,
\* validateActionReference).
THEOREM OnePinRule == Spec => []CatalogAndContractAgree
<1>1. IInv => CatalogAndContractAgree
  BY DEF IInv
<1>2. QED
  BY Invariant, <1>1, PTL

\* A non-empty set of numbers has a least one.
LEMMA Least ==
  ASSUME NEW T, T \subseteq Nat, T # {}
  PROVE  \E x \in T : \A y \in T : ~(y < x)
<1>1. \E x \in T : \A y \in T : ~(<<y, x>> \in OpToRel(<, Nat))
  BY NatLessThanWellFounded, WFMin, Zenon
<1>2. QED
  BY <1>1 DEF OpToRel

\* A report names a cycle exactly when the loaded files call one another in a
\* circle: what the walk met is a circle, because the files on the stack call
\* one another, and without one the ranks of the finished files descend with
\* every call, which no circle can (validateCycles).
THEOREM CyclesExact == Spec => []CyclesFoundExactly
<1>1. IInv => CyclesFoundExactly
  <2> SUFFICES ASSUME IInv, Reported PROVE CycleMet <=> Cyclic
    BY DEF CyclesFoundExactly, CycleMet
  <2>1. CycleMet => Cyclic
    BY DEF IInv, CyclesReal
  <2>2. ASSUME Cyclic, ~CycleMet PROVE FALSE
    <3>1. FinishedRanked /\ files = Finished
      BY <2>2 DEF IInv, WalkSound, ReportSound
    <3>2. PICK S \in SUBSET files :
             S # {} /\ \A key \in S : \E j \in Job : Callee(key, j) \in S
      BY <2>2 DEF Cyclic
    <3>3. S \subseteq Key /\ \A key \in S : rank[key] \in Nat
      BY DEF IInv, ContractTypeOK
    <3> DEFINE ranks == {rank[key] : key \in S}
    <3>4. ranks \subseteq Nat /\ ranks # {}
      BY <3>2, <3>3
    <3>5. PICK x \in ranks : \A y \in ranks : ~(y < x)
      <4> HIDE DEF ranks
      <4>1. QED
        BY <3>4, Least
    <3>6. PICK key \in S : rank[key] = x
      OBVIOUS
    <3>7. PICK j \in Job : Callee(key, j) \in S
      BY <3>2
    <3>8. rank[Callee(key, j)] < rank[key]
      BY <3>1, <3>7 DEF FinishedRanked
    <3>9. QED
      BY <3>5, <3>6, <3>7, <3>8
  <2>3. QED
    BY <2>1, <2>2
<1>2. QED
  BY Invariant, <1>1, PTL
=============================================================================
