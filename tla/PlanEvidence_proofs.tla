------------------------- MODULE PlanEvidence_proofs -------------------------
(***************************************************************************)
(* Proofs about PlanEvidence for every world: any catalogs, observations,  *)
(* resources, proposals and hand edits before a run is planned.  Two       *)
(* invariants carry them: IInv, that a run and its evidence stay the ones  *)
(* planned and decided on, and Current, that what the run observed and     *)
(* planned from is still what GitHub holds.                                *)
(***************************************************************************)
EXTENDS PlanEvidence, FiniteSetTheorems, TLAPS

-----------------------------------------------------------------------------
(* The inductive invariant: what a step may rely on of the steps before.   *)

Context == [catalog |-> run.catalog, observed |-> run.observed, phase |-> run.phase,
            uses |-> W.uses]

\* A reported deletion leaves nothing.
DeletionsEmpty ==
  step \in {"planned", "built", "verified"} =>
    \A c \in run.plan : c.action = "delete" => c.after = Absent

\* A change is planned from what GitHub holds, or as if nothing was there.
BeforesKnown ==
  step \in {"planned", "built", "verified"} =>
    \A c \in run.plan : c.before = Absent \/ c.before = live[<<c.type, c.key>>]

\* The decision in the evidence was taken about the plan of this run, and the
\* founder exception was applied only to an estate without public repositories.
DecidedOn(e, founderPublic) ==
  /\ founderPublic => \A r \in DOMAIN run.catalog.repositories :
                        run.catalog.repositories[r].visibility # "public"
  /\ e.eligible =>
       Blockers(PlanClasses(run.plan, Context), run.phase, founderPublic, e.risk,
                e.acknowledged, Destructive(run.plan), e.analysis # Absent) = {}
  /\ e.analysis # Absent => e.analysis.covers = Destructive(run.plan)
Decided ==
  step \in {"built", "verified"} => \E founderPublic \in BOOLEAN : DecidedOn(evidence, founderPublic)

\* The document in hand is one the verifier accepts, but for what only the
\* verifier looks at, and has a bounded life.
DocumentSound ==
  /\ step \in {"built", "verified"} =>
       /\ ValidDocument(evidence) <=> ~VerifierOnly(evidence)
       /\ evidence.bindings.created # Absent => ValidWindow(evidence.bindings)
  /\ step = "verified" => evidence.bindings.created # Absent

\* A run is a record.
RunKept == step # "idle" => DOMAIN run = {"phase", "catalog", "observed", "imports", "plan"}

IInv == PlanTypeOK /\ RunKept /\ DeletionsEmpty /\ BeforesKnown /\ Decided /\ DocumentSound

\* A document that Build emits is of this run and carries its decision.
LEMMA DocumentDecides ==
  ASSUME NEW i, NEW risk, NEW destructive, NEW analysis,
         Document(i, risk, destructive, analysis) # Absent
  PROVE  LET e == Document(i, risk, destructive, analysis)
         IN /\ e.plan = run.plan /\ e.phase = run.phase
            /\ \E founderPublic \in BOOLEAN : DecidedOn(e, founderPublic)
<1> DEFINE e == Document(i, risk, destructive, analysis)
           f == /\ Protected(i) /\ run.phase = "foundation"
                /\ AllowsFounderPublic(run.catalog, i.created)
           blockers == Blockers(PlanClasses(run.plan, Context), run.phase, f, risk, destructive,
                                Destructive(run.plan), analysis # Absent)
<1>1. e = [phase |-> run.phase, plan |-> run.plan, bindings |-> i,
           risk |-> risk, acknowledged |-> destructive, analysis |-> analysis,
           requires |-> Destructive(run.plan) # {}, founder |-> FounderProjection(f),
           eligible |-> blockers = {}]
  BY Zenon DEF Document, Context
<1>2. analysis # Absent => ValidAnalysis(analysis, run.plan, i.reference)
  BY Zenon DEF Document
<1>3. analysis # Absent => analysis.covers = Destructive(run.plan)
  BY <1>2 DEF ValidAnalysis
<1>4. /\ e.plan = run.plan /\ e.phase = run.phase /\ e.risk = risk
      /\ e.acknowledged = destructive /\ e.analysis = analysis
      /\ e.eligible = (blockers = {})
  <2> HIDE DEF blockers, f, e
  <2>1. QED
    BY <1>1
<1>5. f \in BOOLEAN
  BY Zenon
<1>6. f => \A r \in DOMAIN run.catalog.repositories :
              run.catalog.repositories[r].visibility # "public"
  <2>1. f => /\ DOMAIN run.catalog.repositories = DOMAIN FounderRepositories
             /\ \A r \in DOMAIN run.catalog.repositories :
                  run.catalog.repositories[r].visibility = FounderRepositories[r]
    BY Zenon DEF AllowsFounderPublic
  <2>2. QED
    BY <2>1, FounderAssumption, Zenon
<1>7. DecidedOn(e, f)
  <2> HIDE DEF f, e
  <2>1. QED
    BY <1>3, <1>4, <1>6 DEF DecidedOn
<1> HIDE DEF f, e
<1>8. e.plan = run.plan /\ e.phase = run.phase /\ \E g \in BOOLEAN : DecidedOn(e, g)
  BY <1>4, <1>5, <1>7
<1>9. QED
  BY <1>8 DEF e

\* A document that Build emits is one the verifier accepts, if it also holds
\* what only the verifier looks at.
LEMMA DocumentAccepted ==
  ASSUME NEW i, NEW risk, NEW destructive, NEW analysis,
         Document(i, risk, destructive, analysis) # Absent
  PROVE  LET e == Document(i, risk, destructive, analysis)
         IN /\ ValidDocument(e) <=> ~VerifierOnly(e)
            /\ e.bindings.created # Absent => ValidWindow(e.bindings)
<1> DEFINE e == Document(i, risk, destructive, analysis)
           f == /\ Protected(i) /\ run.phase = "foundation"
                /\ AllowsFounderPublic(run.catalog, i.created)
           removals == Destructive(run.plan)
           analysed == analysis # Absent
           classes == PlanClasses(run.plan, Context)
           blockers == Blockers(classes, run.phase, f, risk, destructive, removals, analysed)
           projection == FounderProjection(f)
<1>1. e = [phase |-> run.phase, plan |-> run.plan, bindings |-> i,
           risk |-> risk, acknowledged |-> destructive, analysis |-> analysis,
           requires |-> removals # {}, founder |-> projection,
           eligible |-> blockers = {}]
  BY Zenon DEF Document, Context
<1>2. ValidIdentity(i) /\ ~(Protected(i) /\ (i.run = Absent \/ ~ValidWindow(i)))
  BY Zenon DEF Document
<1>3. /\ e.phase = run.phase /\ e.plan = run.plan /\ e.bindings = i
      /\ e.acknowledged = destructive /\ e.analysis = analysis
      /\ e.requires = (removals # {}) /\ e.founder = projection
      /\ e.eligible = (blockers = {})
  <2> HIDE DEF e, removals, blockers, projection
  <2>1. QED
    BY <1>1
<1>4. blockers = {} /\ removals # {} => destructive /\ analysed
  <2> HIDE DEF classes, removals, analysed, f
  <2>1. QED
    BY DEF Blockers, When
<1>5. ValidReview(e)
  <2> HIDE DEF e, blockers, projection
  <2>1. QED
    BY <1>3, <1>4 DEF ValidReview
<1>6. ValidFounderProjection(e) <=> (e.founder # Absent => e.bindings.workflow = MainWorkflow)
  <2>1. f => run.phase = "foundation"
    BY Zenon
  <2>2. projection # Absent =>
          f /\ projection = [operation |-> "foundation-apply", ends |-> "CONSUMED",
                             production_authority |-> FALSE]
    <3> HIDE DEF f
    <3>1. QED
      BY Zenon DEF FounderProjection
  <2> HIDE DEF e, f, projection
  <2>3. QED
    BY <1>3, <2>1, <2>2, Zenon DEF ValidFounderProjection
<1>7. /\ ValidDocument(e) <=> ~VerifierOnly(e)
      /\ e.bindings.created # Absent => ValidWindow(e.bindings)
  <2> HIDE DEF e
  <2>1. e.bindings.created # Absent => ValidWindow(e.bindings)
    BY <1>2, <1>3 DEF ValidIdentity
  <2>2. CASE ~Protected(e.bindings)
    BY <1>5, <2>1, <2>2 DEF ValidDocument, VerifierOnly
  <2>3. CASE Protected(e.bindings)
    <3>1. /\ i.plan_app # Absent /\ i.apply_app # Absent /\ ValidWindow(i)
          /\ \A g \in {"reference", "workflow", "source_sha", "actor", "qualification"} :
               i[g] # Absent
          /\ i.run # Absent
      BY <1>2, <1>3, <2>3, Zenon DEF ValidIdentity
    <3>2. ValidDocument(e) <=> /\ i.plan_app.number # i.apply_app.number
                               /\ ValidFounderProjection(e)
      BY <1>3, <1>5, <2>3, <3>1 DEF ValidDocument
    <3>3. QED
      BY <1>3, <1>6, <2>1, <2>3, <3>2, Zenon DEF VerifierOnly
  <2>4. QED
    BY <2>2, <2>3
<1>8. QED
  BY <1>7 DEF e

\* OpenTofu reports a deletion only for what is to disappear.
LEMMA ChangeShape ==
  ASSUME NEW a, NEW p, p.action # "delete", Change(a, p).action = "delete"
  PROVE  Change(a, p).after = Absent
  BY DEF Change

\* A change is planned from what the run knows of its address.
LEMMA ChangeBefore ==
  ASSUME NEW a, NEW p, a = <<a[1], a[2]>>
  PROVE  LET c == Change(a, p) IN c.before = Absent \/ c.before = live[<<c.type, c.key>>]
  BY DEF Change, Known

LEMMA PlanShape ==
  ASSUME world \in WorldNames, "plan" \in DOMAIN run, Plan
  PROVE  /\ DOMAIN run' = DOMAIN run
         /\ \A c \in run'.plan :
              /\ c.action = "delete" => c.after = Absent
              /\ c.before = Absent \/ c.before = live[<<c.type, c.key>>]
<1> DEFINE choices(touched) ==
             {f \in [touched -> UNION {Proposed(a) : a \in touched}] :
                \A a \in touched : f[a] \in Proposed(a)}
<1>1. PICK touched \in SUBSET DOMAIN W.proposals :
        \E plan \in {{f[a] : a \in touched} : f \in choices(touched)} :
          run' = [run EXCEPT !.plan = plan]
  BY Zenon DEF Plan
<1>2. PICK f \in choices(touched) : run' = [run EXCEPT !.plan = {f[a] : a \in touched}]
  <2> HIDE DEF choices
  <2>1. QED
    BY <1>1, Zenon
<1>3. run'.plan = {f[a] : a \in touched} /\ DOMAIN run' = DOMAIN run
  <2> HIDE DEF choices
  <2>1. QED
    BY <1>2
<1>4. ASSUME NEW a \in touched
      PROVE  /\ f[a].action = "delete" => f[a].after = Absent
             /\ f[a].before = Absent \/ f[a].before = live[<<f[a].type, f[a].key>>]
  <2>1. f[a] \in Proposed(a)
    BY <1>2
  <2>2. PICK q \in W.proposals[a] : f[a] = Change(a, q)
    BY <2>1, Zenon DEF Proposed
  <2>3. q.action # "delete" /\ a = <<a[1], a[2]>>
    BY <2>2, WorldAssumption DEF W
  <2>4. f[a].action = "delete" => f[a].after = Absent
    BY <2>2, <2>3, ChangeShape
  <2>5. f[a].before = Absent \/ f[a].before = live[<<f[a].type, f[a].key>>]
    <3>1. LET c == Change(a, q) IN c.before = Absent \/ c.before = live[<<c.type, c.key>>]
      BY <2>3, ChangeBefore
    <3>2. QED
      BY <2>2, <3>1
  <2>6. QED
    BY <2>4, <2>5
<1>5. QED
  <2> HIDE DEF choices
  <2>1. QED
    BY <1>3, <1>4

-----------------------------------------------------------------------------
(* Every step preserves the invariant.                                     *)

\* The facts that steps of a run use and keep.
LEMMA InitInvariant == Init => IInv
  BY DEF Init, IInv, PlanTypeOK, RunKept, DeletionsEmpty, BeforesKnown, Decided,
     DocumentSound, Addresses, W

LEMMA MergeKeeps == ASSUME IInv, Merge PROVE IInv'
<1>1. QED
  BY DEF Merge, IInv, PlanTypeOK, RunKept, DeletionsEmpty, BeforesKnown, Decided,
     DocumentSound, Addresses, W

LEMMA EditKeeps == ASSUME IInv, Edit PROVE IInv'
<1>1. PICK a, v : live' = [live EXCEPT ![a] = v]
  BY DEF Edit
<1>2. step \in {"idle", "observed"} /\ UNCHANGED <<world, managed, catalog, step, run, evidence>>
  BY WorldAssumption DEF Edit, IInv, PlanTypeOK, W
<1>3. DOMAIN live' = DOMAIN live
  BY <1>1
<1>4. QED
  BY <1>2, <1>3 DEF IInv, PlanTypeOK, RunKept, DeletionsEmpty, BeforesKnown, Decided,
     DocumentSound, Addresses, W

LEMMA ObserveKeeps == ASSUME IInv, NEW phase \in Phases, Observe(phase) PROVE IInv'
<1>1. DOMAIN run' = {"phase", "catalog", "observed", "imports", "plan"} /\ step' = "observed"
      /\ step = "idle" /\ UNCHANGED <<world, live, managed, catalog, evidence>>
  BY DEF Observe
<1>2. QED
  BY <1>1 DEF IInv, PlanTypeOK, RunKept, DeletionsEmpty, BeforesKnown, Decided,
     DocumentSound, Addresses, W

LEMMA PlanKeeps == ASSUME IInv, Plan PROVE IInv'
<1>1. step' = "planned" /\ step = "observed" /\ UNCHANGED <<world, live, managed, catalog, evidence>>
  BY DEF Plan
<1>2. /\ DOMAIN run' = {"phase", "catalog", "observed", "imports", "plan"}
      /\ \A c \in run'.plan :
           /\ c.action = "delete" => c.after = Absent
           /\ c.before = Absent \/ c.before = live'[<<c.type, c.key>>]
  BY <1>1, PlanShape DEF IInv, PlanTypeOK, RunKept
<1>3. QED
  BY <1>1, <1>2 DEF IInv, PlanTypeOK, RunKept, DeletionsEmpty, BeforesKnown, Decided,
     DocumentSound, Addresses, W

LEMMA BuildKeeps == ASSUME IInv, Build PROVE IInv'
<1>1. /\ step' = "built" /\ step = "planned" /\ evidence' # Absent
      /\ UNCHANGED <<world, live, managed, catalog, run>>
  BY DEF Build
<1>2. PICK i, risk, destructive, analysis : evidence' = Document(i, risk, destructive, analysis)
  BY DEF Build
<1>3. /\ evidence'.plan = run.plan /\ evidence'.phase = run.phase
      /\ \E founderPublic \in BOOLEAN : DecidedOn(evidence', founderPublic)
  BY <1>1, <1>2, DocumentDecides, Zenon
<1>4. Decided'
  BY <1>1, <1>3 DEF Decided, DecidedOn, Context, W
<1>5. /\ ValidDocument(evidence') <=> ~VerifierOnly(evidence')
      /\ evidence'.bindings.created # Absent => ValidWindow(evidence'.bindings)
  BY <1>1, <1>2, DocumentAccepted, Zenon
<1>6. DocumentSound'
  BY <1>1, <1>5 DEF DocumentSound
<1>7. QED
  BY <1>1, <1>3, <1>4, <1>6 DEF IInv, PlanTypeOK, RunKept, DeletionsEmpty, BeforesKnown, Addresses, W

LEMMA VerifyKeeps == ASSUME IInv, Verify PROVE IInv'
<1>1. /\ step' = "verified" /\ step = "built"
      /\ evidence.eligible /\ evidence.bindings.created # Absent
      /\ UNCHANGED <<world, live, managed, catalog, run, evidence>>
  BY DEF Verify, Authenticated
<1>2. Decided'
  BY <1>1 DEF IInv, Decided, DecidedOn, Context, W
<1>3. DocumentSound'
  BY <1>1 DEF IInv, DocumentSound
<1>4. QED
  BY <1>1, <1>2, <1>3 DEF IInv, PlanTypeOK, RunKept, DeletionsEmpty, BeforesKnown, Addresses, W

LEMMA ApplyKeeps == ASSUME IInv, Apply PROVE IInv'
<1>1. /\ step' = "idle" /\ run' = Absent /\ evidence' = Absent
      /\ UNCHANGED <<world, catalog>> /\ DOMAIN live' = Addresses
  BY Zenon DEF Apply
<1>2. QED
  BY <1>1 DEF IInv, PlanTypeOK, RunKept, DeletionsEmpty, BeforesKnown, Decided,
     DocumentSound, Addresses, W

LEMMA AbandonKeeps == ASSUME IInv, Abandon PROVE IInv'
  BY DEF Abandon, IInv, PlanTypeOK, RunKept, DeletionsEmpty, BeforesKnown, Decided,
     DocumentSound, Addresses, W

LEMMA StutterKeeps == ASSUME IInv, UNCHANGED vars PROVE IInv'
<1>1. Decided'
  BY DEF IInv, Decided, DecidedOn, Context, W, vars
<1>2. QED
  BY <1>1 DEF IInv, PlanTypeOK, RunKept, DeletionsEmpty, BeforesKnown, DocumentSound, Addresses, W, vars

\* Every reachable state satisfies the inductive invariant: a run and its
\* evidence stay the ones that were planned and decided on.
THEOREM Invariant == Spec => []IInv
<1>1. Init => IInv
  BY InitInvariant
<1>2. IInv /\ [Next]_vars => IInv'
  <2>1. ASSUME IInv, Next PROVE IInv'
    BY <2>1, MergeKeeps, EditKeeps, ObserveKeeps, PlanKeeps, BuildKeeps, VerifyKeeps,
       ApplyKeeps, AbandonKeeps, Zenon DEF Next
  <2>2. QED
    BY <2>1, StutterKeeps, Zenon
<1>3. QED
  BY <1>1, <1>2, PTL DEF Spec

\* In every reachable state evidence is of the plan of its own run, and only
\* eligible evidence is verified.
THEOREM PlanTyped == Spec => []PlanTypeOK
<1>1. IInv => PlanTypeOK
  BY DEF IInv
<1>2. QED
  BY <1>1, Invariant, PTL

(***************************************************************************)
(* In every reachable state the verifier accepts the document that Build   *)
(* emitted, unless it holds one of the two things that only the verifier   *)
(* looks at, and a verified document was decided within one window.        *)
(***************************************************************************)
THEOREM RoundTrips == Spec => []EvidenceRoundTrips
<1>1. IInv => EvidenceRoundTrips
  BY DEF IInv, DocumentSound, EvidenceRoundTrips
<1>2. QED
  BY <1>1, Invariant, PTL

-----------------------------------------------------------------------------
(* What a verified run was decided on.                                     *)

\* Only an apply changes what GitHub holds when a verified run ends.
LEMMA EndsByApply ==
  ASSUME IInv, [Next]_vars, Applies
  PROVE  Apply \/ live' = live
<1>1. step = "verified" /\ step' = "idle"
  BY DEF Applies
<1>2. CASE UNCHANGED vars
  BY <1>1, <1>2 DEF vars
<1>3. CASE Merge \/ Edit \/ Plan \/ Build \/ Verify \/ \E phase \in Phases : Observe(phase)
  BY <1>1, <1>3 DEF Merge, Edit, Plan, Build, Verify, Observe
<1>4. CASE Abandon
  BY <1>4 DEF Abandon
<1>5. QED
  BY <1>2, <1>3, <1>4, Zenon DEF Next

\* Each address that an apply changes is one a planned write changed.
LEMMA AppliedWrite ==
  ASSUME Apply
  PROVE  /\ step = "verified" /\ DOMAIN live' = Addresses
         /\ \A a \in Addresses : live'[a] # live[a] =>
              \E c \in PlanWrites(run.plan) : <<c.type, c.key>> = a /\ live'[a] = c.after
<1>1. PICK done \in SUBSET PlanWrites(run.plan) :
        live' = [a \in Addresses |->
                   IF \E c \in done : <<c.type, c.key>> = a
                   THEN (CHOOSE c \in done : <<c.type, c.key>> = a).after ELSE live[a]]
  BY Zenon DEF Apply
<1>2. ASSUME NEW a \in Addresses, live'[a] # live[a]
      PROVE  \E c \in PlanWrites(run.plan) : <<c.type, c.key>> = a /\ live'[a] = c.after
  <2> DEFINE of(c) == <<c.type, c.key>> = a
  <2>1. live'[a] = IF \E c \in done : of(c) THEN (CHOOSE c \in done : of(c)).after ELSE live[a]
    BY <1>1, Zenon
  <2>2. \E c \in done : of(c)
    BY <1>2, <2>1, Zenon
  <2>3. (CHOOSE c \in done : of(c)) \in done /\ of(CHOOSE c \in done : of(c))
    <3> HIDE DEF of
    <3>1. QED
      BY <2>2, Zenon
  <2>4. QED
    BY <2>1, <2>2, <2>3, Zenon
<1>3. step = "verified"
  BY DEF Apply
<1>4. QED
  BY <1>1, <1>2, <1>3, Zenon

LEMMA ClassesOfWrites == ASSUME NEW plan, NEW x PROVE DOMAIN PlanClasses(plan, x) = PlanWrites(plan)
  BY Zenon DEF PlanClasses

\* What a verified run may rely on.
LEMMA VerifiedRun ==
  ASSUME IInv, step = "verified"
  PROVE  /\ \E founderPublic \in BOOLEAN :
              /\ DecidedOn(evidence, founderPublic)
              /\ \A c \in PlanWrites(run.plan) :
                   ~FundamentalIn(PlanClasses(run.plan, Context)[c], founderPublic)
         /\ run.phase = "adopt" => PlanWrites(run.plan) = {}
         /\ Destructive(run.plan) # {} =>
              evidence.acknowledged /\ evidence.analysis # Absent
         /\ evidence.analysis # Absent => evidence.analysis.covers = Destructive(run.plan)
<1>1. PICK founderPublic \in BOOLEAN : DecidedOn(evidence, founderPublic)
  BY DEF IInv, Decided
<1>2. evidence.eligible
  BY DEF IInv, PlanTypeOK
<1> DEFINE classes == PlanClasses(run.plan, Context)
           removals == Destructive(run.plan)
           analysed == evidence.analysis # Absent
           acknowledged == evidence.acknowledged
           phase == run.phase
           risk == evidence.risk
<1>3. Blockers(classes, phase, founderPublic, risk, acknowledged, removals, analysed) = {}
  BY <1>1, <1>2, Zenon DEF DecidedOn
<1>4. evidence.analysis # Absent => evidence.analysis.covers = Destructive(run.plan)
  BY <1>1, Zenon DEF DecidedOn
<1>5. /\ \A c \in DOMAIN classes : ~FundamentalIn(classes[c], founderPublic)
      /\ phase = "adopt" => DOMAIN classes = {}
      /\ removals # {} => acknowledged /\ analysed
  <2> HIDE DEF classes, removals, analysed, acknowledged, phase, risk
  <2>1. \A c \in DOMAIN classes : ~FundamentalIn(classes[c], founderPublic)
    BY <1>3 DEF Blockers, When
  <2>2. phase = "adopt" => DOMAIN classes = {}
    BY <1>3 DEF Blockers, When
  <2>3. removals # {} => acknowledged /\ analysed
    BY <1>3 DEF Blockers, When
  <2>4. QED
    BY <2>1, <2>2, <2>3, Zenon
<1>6. QED
  BY <1>1, <1>4, <1>5, ClassesOfWrites, Zenon

(***************************************************************************)
(* No behaviour changes anything on GitHub at the end of an adoption.      *)
(***************************************************************************)
THEOREM AdoptionIsReadOnly == Spec => AdoptChangesNothing
<1>1. ASSUME IInv, [Next]_vars, Applies, run.phase = "adopt", NEW a \in Addresses
      PROVE  live'[a] = live[a]
  <2>1. CASE Apply
    <3>1. PlanWrites(run.plan) = {}
      BY <2>1, <1>1, VerifiedRun, AppliedWrite, Zenon
    <3>2. QED
      BY <2>1, <3>1, AppliedWrite
  <2>2. QED
    BY <2>1, <1>1, EndsByApply, Zenon
<1>2. IInv /\ [Next]_vars =>
        (Applies /\ run.phase = "adopt" => \A a \in Addresses : live'[a] = live[a])
  BY <1>1, Zenon
<1>3. QED
  BY <1>2, Invariant, PTL DEF Spec, AdoptChangesNothing

-----------------------------------------------------------------------------
(* Removals.                                                               *)

\* The class that a finding of one rule adds survives to the change's classes,
\* unless a retirement supersedes the rules.
LEMMA FoundClass ==
  ASSUME NEW c, NEW x, NEW k, ~(c.action = "delete" /\ Retires(c)),
         \/ k \in ActionClasses(c) \/ k \in ContractClasses(c) \/ k \in CatalogClasses(c, x)
         \/ k \in RevocationClasses(c, x) \/ k \in EnvironmentGateClasses(c)
         \/ k \in ActionsAccessClasses(c) \/ k \in ReviewerClasses(c)
         \/ k \in BranchPolicyClasses(c) \/ k \in AudienceClasses(c)
         \/ k \in ActionsPolicyClasses(c, x) \/ k \in RulesetClasses(c)
         \/ k \in ProtectionClasses(c) \/ k \in GrantClasses(c) \/ k \in CapabilityClasses(c)
  PROVE  k \in Classes(c, x)
<1> DEFINE found == ActionClasses(c) \cup ContractClasses(c) \cup CatalogClasses(c, x)
        \cup RevocationClasses(c, x) \cup AccessClasses(c, x) \cup OIDCClasses(c, x)
        \cup EnvironmentGateClasses(c) \cup ActionsAccessClasses(c) \cup ReviewerClasses(c)
        \cup BranchPolicyClasses(c) \cup DeploymentPolicyClasses(c) \cup PropertySemanticClasses(c)
        \cup AudienceClasses(c) \cup ActionsPolicyClasses(c, x) \cup RulesetClasses(c)
        \cup ProtectionClasses(c) \cup GrantClasses(c) \cup CapabilityClasses(c)
<1>1. k \in found
  BY Zenon
<1>2. Classes(c, x) = IF c.action = "delete" /\ Retires(c)
                      THEN {"governed_retirement"} \cup When(c.unknown = "other", "unknown_change")
                      ELSE IF found = {} THEN {"routine_write"} ELSE found
  BY Zenon DEF Classes
<1>3. QED
  <2> HIDE DEF found
  <2>1. QED
    BY <1>1, <1>2

\* A change that leaves nothing behind is a deletion of an access grant or of
\* a retirable resource; everything else about it is prohibited.
LEMMA EmptyingIsRevocation ==
  ASSUME NEW c, NEW x, c.after = Absent, c.action \notin {"read", "no_op"},
         \A k \in {"destructive", "replacement", "state_forget", "unknown_action",
                   "unknown_change"} : k \notin Classes(c, x)
  PROVE  Revokes(c)
<1>1. CASE c.action \in Writes
  <2>1. "unknown_change" \in ContractClasses(c)
    BY <1>1 DEF ContractClasses, ChangedFieldsAllowed, When
  <2>2. ~(c.action = "delete" /\ Retires(c))
    BY <1>1 DEF Writes
  <2>3. QED
    BY <2>1, <2>2, FoundClass, Zenon
<1>2. CASE c.action = "delete"
  <2>1. ASSUME c.type \notin AccessTypes, ~Retires(c) PROVE FALSE
    <3>1. "destructive" \in ActionClasses(c)
      BY <1>2, <2>1 DEF ActionClasses
    <3>2. QED
      BY <2>1, <3>1, FoundClass, Zenon
  <2>2. QED
    BY <1>2, <2>1 DEF Revokes
<1>3. CASE c.action \notin Writes \cup {"delete"}
  <2>1. ActionClasses(c) \in {{"replacement"}, {"state_forget"}, {"unknown_action"}}
    BY <1>3 DEF ActionClasses, Writes
  <2>2. QED
    BY <1>3, <2>1, FoundClass
<1>4. QED
  BY <1>1, <1>2, <1>3

\* A fundamental class other than public visibility is never exempt.
LEMMA NeverExempt ==
  ASSUME NEW classes, NEW founderPublic, ~FundamentalIn(classes, founderPublic)
  PROVE  \A k \in FundamentalClasses \ {"public_visibility"} : k \notin classes
  BY DEF FundamentalIn

\* In a verified run a change that leaves nothing is a revocation, and then
\* the whole plan is nothing but revocations.
LEMMA VerifiedRemovals ==
  ASSUME IInv, step = "verified", NEW c \in PlanWrites(run.plan), c.after = Absent
  PROVE  Revokes(c) /\ \A d \in PlanWrites(run.plan) : Revokes(d)
<1> DEFINE plan == run.plan
           mixed == /\ \E e \in plan : Revokes(e)
                    /\ \E e \in PlanWrites(plan) : ~Revokes(e)
<1>1. PICK founderPublic \in BOOLEAN :
        \A e \in PlanWrites(plan) : ~FundamentalIn(PlanClasses(plan, Context)[e], founderPublic)
  BY VerifiedRun, Zenon
<1>2. PlanClasses(plan, Context)
        = [e \in PlanWrites(plan) |-> Classes(e, Context) \cup When(mixed, "authority_replacement")]
  BY Zenon DEF PlanClasses
<1>3. PlanClasses(plan, Context)[c] = Classes(c, Context) \cup When(mixed, "authority_replacement")
  <2> HIDE DEF mixed, plan
  <2>1. c \in PlanWrites(plan)
    BY DEF plan
  <2>2. QED
    BY <1>2, <2>1, Zenon
<1>4. \A k \in FundamentalClasses \ {"public_visibility"} :
        k \notin Classes(c, Context) \cup When(mixed, "authority_replacement")
  <2> HIDE DEF mixed
  <2>1. QED
    BY <1>1, <1>3, NeverExempt, Zenon
<1>5. \A k \in {"destructive", "replacement", "state_forget", "unknown_action", "unknown_change"} :
        k \notin Classes(c, Context)
  <2> HIDE DEF mixed
  <2>1. QED
    BY <1>4 DEF FundamentalClasses
<1>6. c \in plan /\ c.action \notin {"read", "no_op"}
  BY DEF PlanWrites
<1>7. Revokes(c)
  BY <1>5, <1>6, EmptyingIsRevocation
<1>8. ~mixed
  <2> HIDE DEF mixed
  <2>1. QED
    BY <1>4 DEF FundamentalClasses, When
<1>9. QED
  BY <1>6, <1>7, <1>8, Zenon

(***************************************************************************)
(* In every behaviour a removal was acknowledged and analysed for its      *)
(* plan, concerns an access grant or a retirable resource, and comes in an *)
(* apply that only removes.                                                *)
(***************************************************************************)
THEOREM RemovalsReviewed == Spec => RemovalsAreReviewed
<1>1. ASSUME IInv, [Next]_vars, Applies, NEW a \in Addresses, live[a] # Absent, live'[a] = Absent
      PROVE  /\ evidence.acknowledged /\ evidence.analysis # Absent
             /\ evidence.analysis.covers = Destructive(run.plan)
             /\ a[1] \in AccessTypes \cup RetirableTypes
             /\ \A b \in Addresses : live'[b] # live[b] => live'[b] = Absent
  <2>1. Apply
    BY <1>1, EndsByApply
  <2>2. step = "verified"
    BY <1>1 DEF Applies
  <2>3. PICK c \in PlanWrites(run.plan) : <<c.type, c.key>> = a /\ live'[a] = c.after
    BY <1>1, <2>1, AppliedWrite, Zenon
  <2>4. Revokes(c) /\ \A d \in PlanWrites(run.plan) : Revokes(d)
    BY <1>1, <2>2, <2>3, VerifiedRemovals, Zenon
  <2>5. a[1] \in AccessTypes \cup RetirableTypes
    BY <2>3, <2>4 DEF Revokes, Retires
  <2>6. Destructive(run.plan) # {}
    BY <2>4 DEF Destructive, PlanWrites, Revokes
  <2>7. ASSUME NEW b \in Addresses, live'[b] # live[b] PROVE live'[b] = Absent
    <3>1. PICK d \in PlanWrites(run.plan) : live'[b] = d.after
      BY <2>1, <2>7, AppliedWrite, Zenon
    <3>2. d \in run.plan /\ d.action = "delete"
      BY <2>4 DEF PlanWrites, Revokes
    <3>3. QED
      BY <1>1, <2>2, <3>1, <3>2 DEF IInv, DeletionsEmpty
  <2>8. QED
    BY <1>1, <2>2, <2>5, <2>6, <2>7, VerifiedRun, Zenon
<1>2. IInv /\ [Next]_vars =>
        (Applies => \A a \in Addresses : live[a] # Absent /\ live'[a] = Absent =>
           /\ evidence.acknowledged /\ evidence.analysis # Absent
           /\ evidence.analysis.covers = Destructive(run.plan)
           /\ a[1] \in AccessTypes \cup RetirableTypes
           /\ \A b \in Addresses : live'[b] # live[b] => live'[b] = Absent)
  BY <1>1, Zenon
<1>3. QED
  BY <1>2, Invariant, PTL DEF Spec, RemovalsAreReviewed

-----------------------------------------------------------------------------
(* Visibility.                                                             *)

\* Only the repository resource has a visibility to write.
LEMMA VisibilityOfRepositories ==
  ASSUME NEW type \in ManagedTypes, "visibility" \in ManagedPaths[type]
  PROVE  type = "github_repository"
  BY DEF ManagedTypes, ManagedPaths

\* In a verified run whatever a change leaves public was public before: the
\* founder exception, where it exempts the class, wants no public repository.
LEMMA VerifiedVisibility ==
  ASSUME IInv, step = "verified", NEW c \in PlanWrites(run.plan),
         New(c, "visibility") = "public"
  PROVE  Old(c, "visibility") = "public"
<1> SUFFICES ASSUME Old(c, "visibility") # "public" PROVE FALSE
  OBVIOUS
<1> DEFINE plan == run.plan
           classes == PlanClasses(plan, Context)[c]
           mixed == /\ \E e \in plan : Revokes(e)
                    /\ \E e \in PlanWrites(plan) : ~Revokes(e)
<1>1. PICK founderPublic \in BOOLEAN :
        /\ DecidedOn(evidence, founderPublic)
        /\ \A e \in PlanWrites(plan) : ~FundamentalIn(PlanClasses(plan, Context)[e], founderPublic)
  BY VerifiedRun, Zenon
<1>2. Classes(c, Context) \subseteq classes
  <2>1. PlanClasses(plan, Context)
          = [e \in PlanWrites(plan) |-> Classes(e, Context) \cup When(mixed, "authority_replacement")]
    BY Zenon DEF PlanClasses
  <2> HIDE DEF mixed
  <2>2. classes = Classes(c, Context) \cup When(mixed, "authority_replacement")
    BY <2>1, Zenon
  <2> HIDE DEF classes
  <2>3. QED
    BY <2>2
<1>3. ~FundamentalIn(classes, founderPublic)
  BY <1>1, Zenon
<1>4. \A k \in {"replacement", "state_forget", "unknown_action", "unknown_change"} :
        k \notin Classes(c, Context)
  <2> HIDE DEF classes
  <2>1. QED
    BY <1>2, <1>3, NeverExempt DEF FundamentalClasses
<1>5. c \in plan /\ c.action \notin {"read", "no_op"}
  BY DEF PlanWrites
<1>6. c.after # Absent /\ "visibility" \in DOMAIN c.after
  BY AbsentAssumption DEF New, Get
<1>7. c.action # "delete"
  BY <1>5, <1>6 DEF IInv, DeletionsEmpty
<1>8. c.action \in Writes
  <2> SUFFICES ASSUME c.action \notin Writes PROVE FALSE
    OBVIOUS
  <2>1. ActionClasses(c) \in {{"replacement"}, {"state_forget"}, {"unknown_action"}}
    BY <1>7 DEF ActionClasses, Writes
  <2>2. QED
    BY <1>4, <1>7, <2>1, FoundClass
<1>9. "public_visibility" \in Classes(c, Context)
  <2>1. "public_visibility" \in AudienceClasses(c)
    BY DEF AudienceClasses, When
  <2>2. QED
    BY <1>7, <2>1, FoundClass, Zenon
<1>10. founderPublic
  <2> HIDE DEF classes
  <2>1. QED
    BY <1>2, <1>3, <1>9 DEF FundamentalIn, FundamentalClasses
<1>11. ChangedFieldsAllowed(c)
  <2>1. "unknown_change" \notin ContractClasses(c)
    BY <1>4, <1>7, FoundClass, Zenon
  <2>2. QED
    BY <1>8, <2>1 DEF ContractClasses, When
<1>12. c.type = "github_repository"
  <2>1. "visibility" \in ChangedPaths(c)
    BY <1>6 DEF ChangedPaths, New
  <2>2. QED
    BY <1>11, <2>1, VisibilityOfRepositories DEF ChangedFieldsAllowed
<1>13. CatalogRepository(c, Context)
  <2>1. "unknown_change" \notin CatalogClasses(c, Context)
    BY <1>4, <1>7, FoundClass, Zenon
  <2>2. c.type \in CatalogTypes /\ c.type \notin AccessTypes
    BY <1>12 DEF CatalogTypes, ManagedTypes, ManagedPaths, AccessTypes
  <2>3. Differs(c)
    BY DEF Differs, Old, New
  <2>4. MatchesCatalog(c, Context)
    BY <1>8, <2>1, <2>2, <2>3, Zenon DEF CatalogClasses
  <2>5. QED
    BY <1>12, <2>4, Zenon DEF MatchesCatalog, AccessTypes
<1>14. \E r \in DOMAIN run.catalog.repositories :
         run.catalog.repositories[r].visibility = "public"
  <2>1. /\ c.key[1] \in DOMAIN Context.catalog.repositories
        /\ New(c, "visibility") = Context.catalog.repositories[c.key[1]].visibility
    BY <1>13 DEF CatalogRepository, Agrees
  <2>2. Context.catalog = run.catalog
    BY DEF Context
  <2>3. QED
    BY <2>1, <2>2
<1>15. QED
  BY <1>1, <1>10, <1>14, Zenon DEF DecidedOn

(***************************************************************************)
(* No behaviour makes a repository public, under no phase, no exception    *)
(* and no acknowledgement.                                                 *)
(***************************************************************************)
THEOREM NothingPublic == Spec => NothingGoesPublic
<1>1. ASSUME IInv, [Next]_vars, Applies, NEW a \in Addresses,
             Get(live'[a], "visibility") = "public"
      PROVE  Get(live[a], "visibility") = "public"
  <2> SUFFICES ASSUME live'[a] # live[a] PROVE Get(live[a], "visibility") = "public"
    BY <1>1
  <2>1. Apply /\ step = "verified"
    BY <1>1, EndsByApply DEF Applies
  <2>2. PICK c \in PlanWrites(run.plan) : <<c.type, c.key>> = a /\ live'[a] = c.after
    BY <1>1, <2>1, AppliedWrite, Zenon
  <2>3. Old(c, "visibility") = "public"
    BY <1>1, <2>1, <2>2, VerifiedVisibility DEF New
  <2>4. c.before = Absent \/ c.before = live[a]
    BY <1>1, <2>1, <2>2 DEF IInv, BeforesKnown, PlanWrites
  <2>5. QED
    BY <2>3, <2>4, AbsentAssumption DEF Old, Get
<1>2. IInv /\ [Next]_vars =>
        (Applies => \A a \in Addresses :
           Get(live'[a], "visibility") = "public" => Get(live[a], "visibility") = "public")
  BY <1>1, Zenon
<1>3. QED
  BY <1>2, Invariant, PTL DEF Spec, NothingGoesPublic

-----------------------------------------------------------------------------
(* What a run knows of the organization while it lasts.                    *)

\* What was observed is what GitHub holds, but for what may be edited by hand
\* between the observation and the plan.
ObservationCurrent ==
  step # "idle" =>
    /\ DOMAIN run.observed.state = Addresses
    /\ \A a \in Addresses :
         ~(a \in DOMAIN W.edits /\ "observed" \in W.editable) => run.observed.state[a] = live[a]

\* The run passed the preflight, with the catalog that is still on main.
RunQualified ==
  step # "idle" =>
    /\ PreflightReady(run.catalog, run.observed, run.phase, W.today)
    /\ run.catalog = catalog
CatalogReviewed == catalog \in W.initial \cup W.catalogs

ResourcesFormed == \A a \in Addresses : WellFormed(a[1], live[a])

\* Only addresses of the estate are managed or imported.
Registered ==
  /\ managed \subseteq Addresses
  /\ step # "idle" => run.imports \subseteq Addresses

\* What is managed or imported is planned from what GitHub holds, the rest as
\* if nothing was there, and only the rest is created.
PlanFormed ==
  step \in {"planned", "built", "verified"} =>
    \A c \in run.plan :
      /\ <<c.type, c.key>> \in Addresses
      /\ c.before = Known(<<c.type, c.key>>)
      /\ c.action = "create" => c.before = Absent
      /\ WellFormed(c.type, c.after)

Current ==
  /\ ObservationCurrent /\ RunQualified /\ CatalogReviewed /\ ResourcesFormed
  /\ Registered /\ PlanFormed

LEMMA InitCurrent == Init => Current
<1> SUFFICES ASSUME Init PROVE Current
  OBVIOUS
<1>1. /\ world \in WorldNames /\ live = World[world].live /\ catalog \in World[world].initial
      /\ step = "idle" /\ managed \subseteq Addresses
  BY DEF Init, W
<1>2. ResourcesFormed
  BY <1>1, ResourceAssumption DEF ResourcesFormed, Addresses, W
<1>3. QED
  BY <1>1, <1>2 DEF Current, ObservationCurrent, RunQualified, CatalogReviewed, Registered,
     PlanFormed, W

\* Nothing but the plan of the run and its evidence changes.
LEMMA UnmovedCurrent ==
  ASSUME Current, UNCHANGED <<world, live, managed, catalog, run>>,
         step' # "idle" => step # "idle",
         step' \in {"planned", "built", "verified"} => step \in {"planned", "built", "verified"}
  PROVE  Current'
  BY DEF Current, ObservationCurrent, RunQualified, CatalogReviewed, ResourcesFormed, Registered,
     PlanFormed, Addresses, W, Known

LEMMA MergeCurrent == ASSUME Current, Merge PROVE Current'
<1>1. /\ step = "idle" /\ catalog' \in W.catalogs /\ UNCHANGED <<world, live, managed, step>>
  BY DEF Merge
<1>2. QED
  BY <1>1 DEF Current, ObservationCurrent, RunQualified, CatalogReviewed, ResourcesFormed,
     Registered, PlanFormed, Addresses, W

LEMMA EditCurrent == ASSUME IInv, Current, Edit PROVE Current'
<1>1. PICK a \in DOMAIN W.edits : \E v \in W.edits[a] : live' = [live EXCEPT ![a] = v]
  BY DEF Edit
<1>2. PICK v \in W.edits[a] : live' = [live EXCEPT ![a] = v]
  BY <1>1
<1>3. /\ step \in W.editable /\ step \in {"idle", "observed"}
      /\ UNCHANGED <<world, managed, catalog, step, run>>
  BY WorldAssumption DEF Edit, IInv, PlanTypeOK, W
<1>4. WellFormed(a[1], v)
  BY <1>2, ResourceAssumption DEF IInv, PlanTypeOK, W
<1>5. \A b \in Addresses : live'[b] = IF b = a THEN v ELSE live[b]
  BY <1>2 DEF IInv, PlanTypeOK
<1>6. ObservationCurrent'
  <2>1. step = "observed" => "observed" \in W.editable
    BY <1>3
  <2>2. QED
    BY <1>1, <1>3, <1>5, <2>1 DEF Current, ObservationCurrent, Addresses, W
<1>7. ResourcesFormed'
  BY <1>3, <1>4, <1>5 DEF Current, ResourcesFormed, Addresses, W
<1>8. QED
  BY <1>3, <1>6, <1>7 DEF Current, RunQualified, CatalogReviewed, Registered, PlanFormed,
     Addresses, W

LEMMA ObserveCurrent ==
  ASSUME IInv, Current, NEW phase \in Phases, Observe(phase) PROVE Current'
<1>1. PICK health \in W.health :
        LET o == [f \in DOMAIN health \cup {"state"} |->
                    IF f = "state" THEN live ELSE health[f]]
        IN /\ PreflightReady(catalog, o, phase, W.today)
           /\ run' = [phase |-> phase, catalog |-> catalog, observed |-> o,
                      imports |-> Imports(catalog, o), plan |-> {}]
  BY Zenon DEF Observe
<1> DEFINE o == [f \in DOMAIN health \cup {"state"} |-> IF f = "state" THEN live ELSE health[f]]
<1>2. /\ PreflightReady(catalog, o, phase, W.today)
      /\ run' = [phase |-> phase, catalog |-> catalog, observed |-> o,
                 imports |-> Imports(catalog, o), plan |-> {}]
  BY <1>1, Zenon
<1>3. o.state = live
  OBVIOUS
<1>4. step' = "observed" /\ UNCHANGED <<world, live, managed, catalog>>
  BY DEF Observe
<1> HIDE DEF o
<1>5. /\ run'.observed = o /\ run'.phase = phase /\ run'.catalog = catalog
      /\ run'.imports = Imports(catalog, o)
  BY <1>2
<1>6. ObservationCurrent'
  BY <1>3, <1>4, <1>5 DEF ObservationCurrent, IInv, PlanTypeOK, Addresses, W
<1>7. RunQualified'
  BY <1>2, <1>4, <1>5, Zenon DEF RunQualified, W
<1>8. Registered'
  <2>1. Imports(catalog, o) \subseteq DOMAIN o.state
    BY Zenon DEF Imports, Importable
  <2>2. DOMAIN o.state = Addresses
    BY <1>3 DEF IInv, PlanTypeOK
  <2>3. QED
    BY <1>4, <1>5, <2>1, <2>2 DEF Current, Registered, Addresses, W
<1>9. QED
  BY <1>4, <1>6, <1>7, <1>8 DEF Current, CatalogReviewed, ResourcesFormed, PlanFormed, Addresses, W

\* What a proposal becomes when it is planned.
LEMMA ChangeFormed ==
  ASSUME NEW a, NEW p, a = <<a[1], a[2]>>, p.action \notin {"create", "update", "delete"},
         WellFormed(a[1], p.after)
  PROVE  LET c == Change(a, p)
         IN /\ <<c.type, c.key>> = a
            /\ c.before = Known(<<c.type, c.key>>)
            /\ c.action = "create" => c.before = Absent
            /\ WellFormed(c.type, c.after)
<1>1. /\ Change(a, p).type = a[1] /\ Change(a, p).key = a[2] /\ Change(a, p).before = Known(a)
      /\ Change(a, p).after = p.after
      /\ Change(a, p).action = "create" => Known(a) = Absent
  BY DEF Change
<1>2. QED
  BY <1>1

LEMMA PlanCurrent == ASSUME IInv, Current, Plan PROVE Current'
<1> DEFINE choices(touched) ==
             {f \in [touched -> UNION {Proposed(a) : a \in touched}] :
                \A a \in touched : f[a] \in Proposed(a)}
<1>1. PICK touched \in SUBSET DOMAIN W.proposals :
        \E plan \in {{f[a] : a \in touched} : f \in choices(touched)} :
          run' = [run EXCEPT !.plan = plan]
  BY Zenon DEF Plan
<1>2. PICK f \in choices(touched) : run' = [run EXCEPT !.plan = {f[a] : a \in touched}]
  <2> HIDE DEF choices
  <2>1. QED
    BY <1>1, Zenon
<1>3. step' = "planned" /\ step = "observed" /\ UNCHANGED <<world, live, managed, catalog>>
  BY DEF Plan
<1>4. /\ run'.plan = {f[a] : a \in touched} /\ run'.phase = run.phase
      /\ run'.catalog = run.catalog /\ run'.observed = run.observed /\ run'.imports = run.imports
  <2> HIDE DEF choices
  <2>1. DOMAIN run = {"phase", "catalog", "observed", "imports", "plan"}
    BY <1>3 DEF IInv, RunKept
  <2>2. QED
    BY <1>2, <2>1
<1>5. ASSUME NEW a \in touched
      PROVE  /\ <<f[a].type, f[a].key>> \in Addresses
             /\ f[a].before = Known(<<f[a].type, f[a].key>>)
             /\ f[a].action = "create" => f[a].before = Absent
             /\ WellFormed(f[a].type, f[a].after)
  <2>1. f[a] \in Proposed(a)
    BY <1>2
  <2>2. PICK q \in W.proposals[a] : f[a] = Change(a, q)
    BY <2>1, Zenon DEF Proposed
  <2>3. /\ q.action \notin {"create", "update", "delete"} /\ a = <<a[1], a[2]>>
        /\ a \in Addresses
    BY <2>2, WorldAssumption DEF W, IInv, PlanTypeOK, Addresses
  <2>4. WellFormed(a[1], q.after)
    BY <2>2, ResourceAssumption DEF W, IInv, PlanTypeOK
  <2>5. LET c == Change(a, q)
        IN /\ <<c.type, c.key>> = a
           /\ c.before = Known(<<c.type, c.key>>)
           /\ c.action = "create" => c.before = Absent
           /\ WellFormed(c.type, c.after)
    BY <2>3, <2>4, ChangeFormed
  <2>6. QED
    BY <2>2, <2>3, <2>5
<1>6. \A b : Known(b)' = Known(b)
  BY <1>3, <1>4 DEF Known
<1>7. PlanFormed'
  <2> HIDE DEF choices
  <2>1. QED
    BY <1>3, <1>4, <1>5, <1>6 DEF PlanFormed, Addresses, W
<1>8. QED
  BY <1>3, <1>4, <1>7 DEF Current, ObservationCurrent, RunQualified, CatalogReviewed,
     ResourcesFormed, Registered, Addresses, W

LEMMA ApplyCurrent == ASSUME IInv, Current, Apply PROVE Current'
<1>1. step = "verified" /\ step' = "idle" /\ UNCHANGED <<world, catalog>>
  BY DEF Apply
<1>2. ResourcesFormed'
  <2> SUFFICES ASSUME NEW a \in Addresses PROVE WellFormed(a[1], live'[a])
    BY <1>1 DEF ResourcesFormed, Addresses, W
  <2>1. CASE live'[a] = live[a]
    BY <2>1 DEF Current, ResourcesFormed
  <2>2. CASE live'[a] # live[a]
    <3>1. PICK c \in PlanWrites(run.plan) : <<c.type, c.key>> = a /\ live'[a] = c.after
      BY <2>2, AppliedWrite, Zenon
    <3>2. WellFormed(c.type, c.after) /\ c.type = a[1]
      BY <1>1, <3>1 DEF Current, PlanFormed, PlanWrites
    <3>3. QED
      BY <3>1, <3>2
  <2>3. QED
    BY <2>1, <2>2
<1>3. Registered'
  <2>1. PICK done \in SUBSET PlanWrites(run.plan) :
          managed' \subseteq managed \cup run.imports \cup {<<c.type, c.key>> : c \in done}
    <3> DEFINE after(done) ==
                 [a \in Addresses |->
                    IF \E c \in done : <<c.type, c.key>> = a
                    THEN (CHOOSE c \in done : <<c.type, c.key>> = a).after ELSE live[a]]
    <3>1. PICK done \in SUBSET PlanWrites(run.plan) :
            managed' = {a \in managed \cup run.imports \cup {<<c.type, c.key>> : c \in done} :
                          after(done)[a] # Absent}
      BY Zenon DEF Apply
    <3> HIDE DEF after
    <3>2. QED
      BY <3>1
  <2>2. \A c \in run.plan : <<c.type, c.key>> \in Addresses
    BY <1>1 DEF Current, PlanFormed
  <2>3. QED
    BY <1>1, <2>1, <2>2 DEF Current, Registered, PlanWrites, Addresses, W
<1>4. QED
  BY <1>1, <1>2, <1>3 DEF Current, ObservationCurrent, RunQualified, CatalogReviewed, PlanFormed, W

\* Every reachable state satisfies this invariant too: what a run observed, was
\* qualified with and planned from is what it later acts on.
THEOREM RunsCurrent == Spec => []Current
<1>1. Init => Current
  BY InitCurrent
<1>2. IInv /\ Current /\ [Next]_vars => Current'
  <2>1. ASSUME IInv, Current, Next PROVE Current'
    <3>1. CASE Build \/ Verify \/ Abandon
      <4>1. CASE Abandon
        BY <2>1, <4>1 DEF Abandon, Current, ObservationCurrent, RunQualified, CatalogReviewed,
           ResourcesFormed, Registered, PlanFormed, Addresses, W
      <4>2. CASE Build \/ Verify
        BY <2>1, <4>2, UnmovedCurrent DEF Build, Verify
      <4>3. QED
        BY <3>1, <4>1, <4>2
    <3>2. QED
      BY <2>1, <3>1, MergeCurrent, EditCurrent, ObserveCurrent, PlanCurrent, ApplyCurrent,
         Zenon DEF Next
  <2>2. ASSUME Current, UNCHANGED vars PROVE Current'
    BY <2>2, UnmovedCurrent DEF vars
  <2>3. QED
    BY <2>1, <2>2, Zenon
<1>3. QED
  BY <1>1, <1>2, Invariant, PTL DEF Spec

-----------------------------------------------------------------------------
(* What the classes say of a change that a verified run may apply.         *)

\* Nothing about it is prohibited, and what gives more was acknowledged.
Clean(c, x) == \A k \in FundamentalClasses \ {"public_visibility"} : k \notin Classes(c, x)

LEMMA VerifiedClasses ==
  ASSUME IInv, step = "verified", NEW c \in PlanWrites(run.plan)
  PROVE  /\ Clean(c, Context)
         /\ "privilege_expansion" \in Classes(c, Context) => evidence.risk
<1> DEFINE plan == run.plan
           classes == PlanClasses(plan, Context)
           mixed == /\ \E e \in plan : Revokes(e)
                    /\ \E e \in PlanWrites(plan) : ~Revokes(e)
           removals == Destructive(plan)
           analysed == evidence.analysis # Absent
           acknowledged == evidence.acknowledged
           phase == run.phase
           risk == evidence.risk
<1>1. PICK founderPublic \in BOOLEAN : DecidedOn(evidence, founderPublic)
  BY DEF IInv, Decided
<1>2. evidence.eligible
  BY DEF IInv, PlanTypeOK
<1>3. Blockers(classes, phase, founderPublic, risk, acknowledged, removals, analysed) = {}
  BY <1>1, <1>2, Zenon DEF DecidedOn
<1>4. /\ \A e \in DOMAIN classes : ~FundamentalIn(classes[e], founderPublic)
      /\ (\E e \in DOMAIN classes : "privilege_expansion" \in classes[e]) => risk
  <2> HIDE DEF classes, removals, analysed, acknowledged, phase, risk
  <2>1. QED
    BY <1>3 DEF Blockers, When
<1>5. c \in DOMAIN classes
  BY ClassesOfWrites, Zenon
<1>6. Classes(c, Context) \subseteq classes[c]
  <2>1. classes = [e \in PlanWrites(plan) |->
                     Classes(e, Context) \cup When(mixed, "authority_replacement")]
    BY Zenon DEF PlanClasses
  <2> HIDE DEF mixed, classes
  <2>2. classes[c] = Classes(c, Context) \cup When(mixed, "authority_replacement")
    BY <2>1, Zenon
  <2>3. QED
    BY <2>2
<1>7. ~FundamentalIn(classes[c], founderPublic)
  BY <1>4, <1>5, Zenon
<1> HIDE DEF classes, risk
<1>8. Clean(c, Context)
  BY <1>6, <1>7, NeverExempt DEF Clean
<1>9. QED
  BY <1>4, <1>5, <1>6, <1>8 DEF risk

\* A clean change that leaves something is a creation or an update within the
\* write contract.
LEMMA CleanWrite ==
  ASSUME NEW c, NEW x, Clean(c, x), c.action \notin {"read", "no_op"}, c.after # Absent,
         c.action = "delete" => c.after = Absent
  PROVE  c.action \in Writes /\ ChangedFieldsAllowed(c)
<1>1. c.action # "delete"
  OBVIOUS
<1>2. ASSUME NEW k \in FundamentalClasses \ {"public_visibility"}
      PROVE  k \notin ActionClasses(c) \cup ContractClasses(c)
  BY <1>1, <1>2, FoundClass DEF Clean
<1>3. c.action \in Writes
  <2> SUFFICES ASSUME c.action \notin Writes PROVE FALSE
    OBVIOUS
  <2>1. ActionClasses(c) \in {{"replacement"}, {"state_forget"}, {"unknown_action"}}
    BY <1>1 DEF ActionClasses, Writes
  <2>2. QED
    BY <1>2, <2>1 DEF FundamentalClasses
<1>4. ChangedFieldsAllowed(c)
  BY <1>2, <1>3 DEF ContractClasses, When, FundamentalClasses
<1>5. QED
  BY <1>3, <1>4

(***************************************************************************)
(* What an apply leaves other than it was comes from a clean change that   *)
(* was planned from the value it replaces, or as a creation.               *)
(***************************************************************************)
LEMMA AppliedChange ==
  ASSUME IInv, Current, Apply, NEW a \in Addresses, live'[a] # live[a], live'[a] # Absent
  PROVE  \E c \in PlanWrites(run.plan) :
           /\ <<c.type, c.key>> = a /\ live'[a] = c.after /\ WellFormed(c.type, c.after)
           /\ Clean(c, Context)
           /\ "privilege_expansion" \in Classes(c, Context) => evidence.risk
           /\ ChangedFieldsAllowed(c)
           /\ \/ c.action = "create" /\ (a \in managed \cup run.imports => live[a] = Absent)
              \/ c.action = "update" /\ c.before = live[a] /\ live[a] # Absent
<1>1. PICK c \in PlanWrites(run.plan) : <<c.type, c.key>> = a /\ live'[a] = c.after
  BY AppliedWrite, Zenon
<1>2. step = "verified"
  BY DEF Apply
<1>3. c \in run.plan /\ c.action \notin {"read", "no_op"}
  BY DEF PlanWrites
<1>4. /\ Clean(c, Context)
      /\ "privilege_expansion" \in Classes(c, Context) => evidence.risk
  BY <1>2, VerifiedClasses
<1>5. c.action = "delete" => c.after = Absent
  BY <1>2, <1>3 DEF IInv, DeletionsEmpty
<1>6. c.action \in Writes /\ ChangedFieldsAllowed(c)
  BY <1>1, <1>3, <1>4, <1>5, CleanWrite
<1>7. /\ c.before = Known(a)
      /\ c.action = "create" => c.before = Absent
      /\ WellFormed(c.type, c.after)
  BY <1>1, <1>2, <1>3 DEF Current, PlanFormed
<1>8. c.action = "update" => c.before # Absent
  BY <1>6 DEF ChangedFieldsAllowed
<1>9. \/ c.action = "create" /\ (a \in managed \cup run.imports => live[a] = Absent)
      \/ c.action = "update" /\ c.before = live[a] /\ live[a] # Absent
  BY <1>6, <1>7, <1>8 DEF Known, Writes
<1>10. QED
  BY <1>1, <1>4, <1>6, <1>7, <1>9, Zenon

-----------------------------------------------------------------------------
(* What a clean update can do to one resource.                             *)

\* An argument that differs is one the contract of the type names.
LEMMA DifferingPath ==
  ASSUME NEW c, ChangedFieldsAllowed(c), c.before # Absent,
         NEW f, f # "on", Get(c.before, f) # Get(c.after, f)
  PROVE  c.type \in ManagedTypes /\ f \in ManagedPaths[c.type]
<1>1. f \in ChangedPaths(c)
  BY DEF ChangedPaths, Get, Old, New
<1>2. QED
  BY <1>1 DEF ChangedFieldsAllowed

LEMMA DifferingFlag ==
  ASSUME NEW c, ChangedFieldsAllowed(c),
         NEW f \in (Flags(c.after) \ Flags(c.before)) \cup (Flags(c.before) \ Flags(c.after))
  PROVE  c.type \in ManagedTypes /\ f \in ManagedPaths[c.type]
  BY DEF ChangedFieldsAllowed, ChangedPaths

\* The types that own the arguments below.
LEMMA PathOwners ==
  ASSUME NEW type \in ManagedTypes, NEW f \in ManagedPaths[type]
  PROVE  /\ f = "access_level" => type = "github_actions_repository_access_level"
         /\ f = "privacy" => type = "github_team"
         /\ f \in {"reviewers", "can_admins_bypass", "deployment_branch_policy"} =>
              type = "github_repository_environment"
         /\ f = "values_editable_by" => type = "github_organization_custom_properties"
         /\ f \in {"include", "exclude", "bypass_actors"} =>
              type \in {"github_organization_ruleset", "github_repository_ruleset"}
         /\ f = "required_status_checks" => type = "github_organization_ruleset"
  BY DEF ManagedTypes, ManagedPaths

LEMMA UpToGrows ==
  ASSUME NEW name, NEW m \in Int, NEW n \in Int, m <= n
  PROVE  UpTo(name, m) \subseteq UpTo(name, n)
  BY DEF UpTo

LEMMA RanksAreIntegers ==
  ASSUME NEW v
  PROVE  /\ AccessRank(v) \in Int /\ VisibilityRank(v) \in Int /\ AccessLevelRank(v) \in Int
         /\ EnforcementRank(v) \in Int
<1>1. AccessRank(v) \in Int
  BY DEF AccessRank
<1>2. VisibilityRank(v) \in Int
  BY DEF VisibilityRank
<1>3. AccessLevelRank(v) \in Int
  BY DEF AccessLevelRank
<1>4. EnforcementRank(v) \in Int
  BY DEF EnforcementRank
<1>5. QED
  BY <1>1, <1>2, <1>3, <1>4

(***************************************************************************)
(* A clean update that is not classified as an expansion gives nobody more *)
(* than the resource gave before.                                          *)
(***************************************************************************)
LEMMA UpdateGivesNoMore ==
  ASSUME NEW c, NEW x, c.action = "update", c.before # Absent, c.after # Absent,
         ChangedFieldsAllowed(c), Clean(c, x), "privilege_expansion" \notin Classes(c, x),
         WellFormed(c.type, c.before)
  PROVE  /\ Rights(c.type, c.after) \subseteq Rights(c.type, c.before)
         /\ HoldLists(c.before, c.after) => Admitted(c.after) \subseteq Admitted(c.before)
<1> DEFINE r == c.before
           s == c.after
           kept(t) == {<<f, 0>> : f \in Flags(t) \cap AllowFlags}
           active(t) ==
             When(c.type = "github_repository" /\ "archived" \notin Flags(t), <<"active", 0>>)
           found(t) == When(Get(t, "privacy") = "closed", <<"discoverable", 0>>)
           handoff(t) == IF c.type = "github_actions_environment_variable"
                         THEN {<<"handoff", t.value>>} ELSE {}
<1>1. \A k \in {"privilege_expansion", "unknown_change", "actions_policy_expansion"} :
        /\ k \notin ActionsAccessClasses(c) /\ k \notin AudienceClasses(c)
        /\ k \notin ActionsPolicyClasses(c, x) /\ k \notin GrantClasses(c)
        /\ k \notin CapabilityClasses(c)
  <2>1. \A k \in {"privilege_expansion", "unknown_change", "actions_policy_expansion"} :
          k \notin Classes(c, x)
    BY DEF Clean, FundamentalClasses
  <2>2. QED
    BY <2>1, FoundClass
<1>2. UpTo("access", AccessRank(Get(s, "role"))) \subseteq UpTo("access", AccessRank(Get(r, "role")))
  <2>1. AccessRank(Get(s, "role")) <= AccessRank(Get(r, "role"))
    BY <1>1, RanksAreIntegers DEF GrantClasses, When, New, Old
  <2>2. QED
    BY <2>1, UpToGrows, RanksAreIntegers
<1>3. UpTo("access", AccessRank(Get(s, "permission")))
        \subseteq UpTo("access", AccessRank(Get(r, "permission")))
  <2>1. AccessRank(Get(s, "permission")) <= AccessRank(Get(r, "permission"))
    BY <1>1, RanksAreIntegers DEF GrantClasses, When, New, Old
  <2>2. QED
    BY <2>1, UpToGrows, RanksAreIntegers
<1>4. UpTo("audience", VisibilityRank(Get(s, "visibility")))
        \subseteq UpTo("audience", VisibilityRank(Get(r, "visibility")))
  <2>1. VisibilityRank(Get(s, "visibility")) <= VisibilityRank(Get(r, "visibility"))
    BY <1>1, RanksAreIntegers DEF AudienceClasses, When, New, Old
  <2>2. QED
    BY <2>1, UpToGrows, RanksAreIntegers
<1>5. UpTo("sharing", AccessLevelRank(Get(s, "access_level")))
        \subseteq UpTo("sharing", AccessLevelRank(Get(r, "access_level")))
  <2>1. CASE Get(s, "access_level") = Get(r, "access_level")
    BY <2>1
  <2>2. CASE Get(s, "access_level") # Get(r, "access_level")
    <3>1. c.type = "github_actions_repository_access_level"
      BY <2>2, DifferingPath, PathOwners
    <3>2. Differs(c)
      BY <2>2 DEF Differs
    <3>3. AccessLevelRank(Get(s, "access_level")) <= AccessLevelRank(Get(r, "access_level"))
      BY <1>1, <3>1, <3>2, RanksAreIntegers DEF ActionsAccessClasses, New, Old
    <3>4. QED
      BY <3>3, UpToGrows, RanksAreIntegers
  <2>3. QED
    BY <2>1, <2>2
<1>6. kept(s) \subseteq kept(r)
  <2>1. (Flags(s) \ Flags(r)) \cap AllowFlags = {}
    BY <1>1 DEF CapabilityClasses, When, TurnedOn, Updates
  <2>2. QED
    BY <2>1
<1>7. active(s) \subseteq active(r)
  BY <1>1 DEF CapabilityClasses, When, TurnedOff, Updates
<1>8. found(s) \subseteq found(r)
  <2> SUFFICES ASSUME Get(s, "privacy") = "closed", Get(r, "privacy") # "closed" PROVE FALSE
    BY DEF When
  <2>1. c.type = "github_team"
    BY DifferingPath, PathOwners
  <2>2. Get(r, "privacy") = "secret"
    BY <2>1 DEF WellFormed
  <2>3. QED
    BY <1>1, <2>1, <2>2 DEF CapabilityClasses, When, New, Old
<1>9. handoff(s) \subseteq handoff(r)
  BY <1>1 DEF CapabilityClasses, When, Differs
<1>10. Rights(c.type, s) \subseteq Rights(c.type, r)
  <2>1. /\ Rights(c.type, s) =
             {<<"exists", 0>>}
             \cup UpTo("access", AccessRank(Get(s, "role")))
             \cup UpTo("access", AccessRank(Get(s, "permission")))
             \cup UpTo("audience", VisibilityRank(Get(s, "visibility")))
             \cup UpTo("sharing", AccessLevelRank(Get(s, "access_level")))
             \cup kept(s) \cup active(s) \cup found(s) \cup handoff(s)
        /\ Rights(c.type, r) =
             {<<"exists", 0>>}
             \cup UpTo("access", AccessRank(Get(r, "role")))
             \cup UpTo("access", AccessRank(Get(r, "permission")))
             \cup UpTo("audience", VisibilityRank(Get(r, "visibility")))
             \cup UpTo("sharing", AccessLevelRank(Get(r, "access_level")))
             \cup kept(r) \cup active(r) \cup found(r) \cup handoff(r)
    BY Zenon DEF Rights
  <2> HIDE DEF kept, active, found, handoff
  <2>2. QED
    BY <1>2, <1>3, <1>4, <1>5, <1>6, <1>7, <1>8, <1>9, <2>1
<1>11. HoldLists(r, s) => Admitted(s) \subseteq Admitted(r)
  <2> SUFFICES ASSUME HoldLists(r, s), ~(Admitted(s) \subseteq Admitted(r)) PROVE FALSE
    OBVIOUS
  <2>1. Gained(c, "patterns_allowed") # {}
    BY DEF HoldLists, Admitted, Listed, Get, Gained, New, Old
  <2>2. PinRotation(c, x) \/ "actions_policy_expansion" \in ActionsPolicyClasses(c, x)
    <3> HIDE DEF r, s
    <3>1. QED
      BY <2>1 DEF ActionsPolicyClasses, When
  <2>3. PinRotation(c, x) => "privilege_expansion" \in ActionsPolicyClasses(c, x)
    BY DEF ActionsPolicyClasses, When
  <2>4. QED
    BY <1>1, <2>2, <2>3
<1>12. QED
  BY <1>10, <1>11

-----------------------------------------------------------------------------
(* Rights.                                                                 *)

LEMMA CreationExpands ==
  ASSUME NEW c, NEW x, c.action = "create"
  PROVE  "privilege_expansion" \in Classes(c, x)
<1>1. "privilege_expansion" \in ActionClasses(c)
  BY DEF ActionClasses
<1>2. QED
  BY <1>1, FoundClass, Zenon

(***************************************************************************)
(* In every behaviour, whatever the catalogs, the plans and the hand       *)
(* edits, an apply gives nobody more than before unless a privilege        *)
(* expansion was acknowledged for its plan.                                *)
(***************************************************************************)
THEOREM RightsAcknowledged == Spec => RightsGrowAcknowledged
<1>1. ASSUME IInv, Current, [Next]_vars, Applies, ~evidence.risk, NEW a \in Addresses
      PROVE  /\ Rights(a[1], live'[a]) \subseteq Rights(a[1], live[a])
             /\ HoldLists(live[a], live'[a]) => Admitted(live'[a]) \subseteq Admitted(live[a])
  <2>1. CASE live'[a] = live[a]
    BY <2>1
  <2>2. CASE live'[a] = Absent
    BY <2>2 DEF Rights, HoldLists, Get
  <2>3. CASE live'[a] # live[a] /\ live'[a] # Absent
    <3>1. Apply
      BY <1>1, <2>3, EndsByApply
    <3>2. PICK c \in PlanWrites(run.plan) :
            /\ <<c.type, c.key>> = a /\ live'[a] = c.after
            /\ Clean(c, Context)
            /\ "privilege_expansion" \in Classes(c, Context) => evidence.risk
            /\ ChangedFieldsAllowed(c)
            /\ \/ c.action = "create"
               \/ c.action = "update" /\ c.before = live[a] /\ live[a] # Absent
      BY <1>1, <2>3, <3>1, AppliedChange, Zenon
    <3>3. "privilege_expansion" \notin Classes(c, Context)
      BY <1>1, <3>2, Zenon
    <3>4. c.action = "update" /\ c.before = live[a] /\ live[a] # Absent
      BY <3>2, <3>3, CreationExpands, Zenon
    <3>5. c.type = a[1]
      BY <3>2
    <3>6. WellFormed(c.type, c.before)
      BY <1>1, <3>4, <3>5 DEF Current, ResourcesFormed
    <3>7. /\ Rights(c.type, c.after) \subseteq Rights(c.type, c.before)
          /\ HoldLists(c.before, c.after) => Admitted(c.after) \subseteq Admitted(c.before)
      BY <2>3, <3>2, <3>3, <3>4, <3>6, UpdateGivesNoMore, Zenon
    <3>8. QED
      BY <3>2, <3>4, <3>5, <3>7
  <2>4. QED
    BY <2>1, <2>2, <2>3, Zenon
<1>2. IInv /\ Current /\ [Next]_vars =>
        (Applies => \/ evidence.risk
                    \/ \A a \in Addresses :
                         /\ Rights(a[1], live'[a]) \subseteq Rights(a[1], live[a])
                         /\ HoldLists(live[a], live'[a]) =>
                              Admitted(live'[a]) \subseteq Admitted(live[a]))
  BY <1>1, Zenon
<1>3. QED
  BY <1>2, Invariant, RunsCurrent, PTL DEF Spec, RightsGrowAcknowledged

-----------------------------------------------------------------------------
(* Protections and the ways around them.                                   *)

\* A list that one kind of resource must have keeps an element unless the rule
\* on lost elements sees it go, and gains one only if the rule sees it come.
LEMMA KeptUnlessLost ==
  ASSUME NEW c, NEW f,
         Get(c.before, f) # Get(c.after, f) => Get(c.before, f) # Absent /\ Get(c.after, f) # Absent
  PROVE  /\ Lost(c, f) = {} => Listed(c.before, f) \subseteq Listed(c.after, f)
         /\ Gained(c, f) = {} => Listed(c.after, f) \subseteq Listed(c.before, f)
<1>1. CASE Get(c.before, f) = Get(c.after, f)
  BY <1>1 DEF Listed, Get
<1>2. CASE Get(c.before, f) # Absent /\ Get(c.after, f) # Absent
  BY <1>2 DEF Lost, Gained, Listed, Get, Old, New
<1>3. QED
  BY <1>1, <1>2

LEMMA MandatoryHeld ==
  ASSUME NEW c, c.before # Absent, c.after # Absent, ChangedFieldsAllowed(c),
         WellFormed(c.type, c.before), WellFormed(c.type, c.after),
         NEW f \in {"include", "exclude", "bypass_actors", "required_status_checks"},
         Get(c.before, f) # Get(c.after, f)
  PROVE  Get(c.before, f) # Absent /\ Get(c.after, f) # Absent
<1>1. c.type \in ManagedTypes /\ f \in ManagedPaths[c.type]
  BY DifferingPath
<1>2. f \in Mandatory(c.type)
  BY <1>1, PathOwners DEF Mandatory
<1>3. QED
  BY <1>2 DEF WellFormed

\* What no rule finds in a clean update.
LEMMA CleanUpdate ==
  ASSUME NEW c, NEW x, c.action = "update", Clean(c, x),
         NEW k \in {"protection_weakening", "security_weakening", "environment_bypass",
                    "actions_policy_expansion", "unknown_change"}
  PROVE  /\ k \notin RulesetClasses(c) /\ k \notin ProtectionClasses(c)
         /\ k \notin EnvironmentGateClasses(c) /\ k \notin ReviewerClasses(c)
         /\ k \notin BranchPolicyClasses(c) /\ k \notin ActionsPolicyClasses(c, x)
<1>1. k \notin Classes(c, x)
  BY DEF Clean, FundamentalClasses
<1>2. QED
  BY <1>1, FoundClass

(***************************************************************************)
(* A clean update protects at least as much as before and opens no new way *)
(* around: each protection and each opening is watched by a rule, or is    *)
(* out of the contract of every type that the rule does not look at.       *)
(***************************************************************************)
LEMMA UpdateProtectsNoLess ==
  ASSUME NEW c, NEW x, c.action = "update", c.before # Absent, c.after # Absent,
         ChangedFieldsAllowed(c), Clean(c, x),
         WellFormed(c.type, c.before), WellFormed(c.type, c.after)
  PROVE  /\ Protections(c.before) \subseteq Protections(c.after)
         /\ Openings(c.after) \subseteq Openings(c.before)
         /\ HoldLists(c.before, c.after) => Trusted(c.after) \subseteq Trusted(c.before)
<1> DEFINE r == c.before
           s == c.after
           strict(t) == {<<f, 0>> : f \in Flags(t) \cap
              {"deletion", "update", "creation", "required_signatures", "prevent_self_review",
               "sha_pinning_required", "web_commit_signoff_required", "required",
               "non_fast_forward", "required_linear_history"}}
           covers(t) == {<<"covers", i>> : i \in Listed(t, "include")}
           scans(t) == {<<"scans", i>> : i \in Listed(t, "status")}
           checks(t) ==
             {<<"checks", i>> : i \in UNION {b.checks : b \in Listed(t, "required_status_checks")}}
           reviewed(t) == When(Reviewers(t) # {}, <<"reviewed", 0>>)
           branches(t) == When(Get(t, "deployment_branch_policy") # Absent, <<"branches", 0>>)
           governed(t) == When(Get(t, "values_editable_by") = "org_actors", <<"governed", 0>>)
           loose(t) == {<<f, 0>> : f \in Flags(t) \cap
                          {"can_admins_bypass", "can_approve_pull_request_reviews"}}
           approves(t) == {<<"approves", u>> : u \in Reviewers(t)}
           bypasses(t) == {<<"bypasses", b>> : b \in Listed(t, "bypass_actors")}
           skips(t) == {<<"skips", e>> : e \in Listed(t, "exclude")}
           everywhere(t) == When(Get(t, "enabled_repositories") = "all", <<"everywhere", 0>>)
           everything(t) == When(Get(t, "allowed_actions") = "all", <<"everything", 0>>)
           writes(t) == When(Get(t, "default_workflow_permissions") = "write", <<"writes", 0>>)
<1>1. Updates(c)
  BY DEF Updates
\* Rulesets.
<1>2. /\ Gained(c, "bypass_actors") = {} /\ Lost(c, "required_status_checks") = {}
      /\ Lost(c, "include") = {} /\ Gained(c, "exclude") = {}
      /\ "creation" \notin TurnedOff(c)
      /\ ~(Approvals(s) < Approvals(r))
      /\ ~(EnforcementRank(Get(s, "enforcement")) < EnforcementRank(Get(r, "enforcement")))
  <2>1. "protection_weakening" \notin RulesetClasses(c)
    BY CleanUpdate
  <2>2. QED
    BY <1>1, <2>1 DEF RulesetClasses, When, New, Old
<1>3. UpTo("enforced", EnforcementRank(Get(r, "enforcement")))
        \subseteq UpTo("enforced", EnforcementRank(Get(s, "enforcement")))
  BY <1>2, UpToGrows, RanksAreIntegers
<1>4. UpTo("approvals", Approvals(r)) \subseteq UpTo("approvals", Approvals(s))
  <2>1. Approvals(r) \in Nat /\ Approvals(s) \in Nat
    BY DEF WellFormed
  <2>2. QED
    BY <1>2, <2>1, UpToGrows
<1>5. \A f \in {"include", "exclude", "bypass_actors", "required_status_checks"} :
        Get(r, f) # Get(s, f) => Get(r, f) # Absent /\ Get(s, f) # Absent
  BY MandatoryHeld
<1>6. covers(r) \subseteq covers(s)
  BY <1>2, <1>5, KeptUnlessLost
<1>7. checks(r) \subseteq checks(s)
  <2>1. Listed(r, "required_status_checks") \subseteq Listed(s, "required_status_checks")
    BY <1>2, <1>5, KeptUnlessLost
  <2>2. QED
    BY <2>1
<1>8. bypasses(s) \subseteq bypasses(r)
  BY <1>2, <1>5, KeptUnlessLost
<1>9. skips(s) \subseteq skips(r)
  BY <1>2, <1>5, KeptUnlessLost
\* Flags and security controls.
<1>10. /\ TurnedOff(c) \cap ProtectiveFlags = {}
       /\ Listed(r, "status") \ Listed(s, "status") = {}
       /\ ~(/\ c.type = "github_organization_custom_properties"
            /\ Get(r, "values_editable_by") # Get(s, "values_editable_by")
            /\ Get(s, "values_editable_by") # "org_actors")
  <2>1. /\ "protection_weakening" \notin ProtectionClasses(c)
        /\ "security_weakening" \notin ProtectionClasses(c)
    BY CleanUpdate
  <2>2. QED
    BY <1>1, <2>1 DEF ProtectionClasses, When, New, Old
<1>11. strict(r) \subseteq strict(s)
  <2>1. TurnedOff(c) = Flags(r) \ Flags(s)
    BY <1>1 DEF TurnedOff
  <2>2. ASSUME NEW f \in Flags(r), f \notin Flags(s)
        PROVE  f # "creation" /\ f \notin ProtectiveFlags
    BY <1>2, <1>10, <2>1, <2>2
  <2>3. QED
    BY <2>2 DEF ProtectiveFlags
<1>12. scans(r) \subseteq scans(s)
  BY <1>10
<1>13. governed(r) \subseteq governed(s)
  <2> SUFFICES ASSUME Get(r, "values_editable_by") = "org_actors",
                      Get(s, "values_editable_by") # "org_actors"
               PROVE  FALSE
    BY DEF When
  <2>1. c.type = "github_organization_custom_properties"
    BY DifferingPath, PathOwners
  <2>2. QED
    BY <1>10, <2>1
\* Environments.
<1>14. Reviewers(s) \subseteq Reviewers(r) /\ (Reviewers(r) # {} => Reviewers(s) # {})
  <2>1. CASE Get(r, "reviewers") = Get(s, "reviewers")
    BY <2>1 DEF Reviewers, Listed, Get
  <2>2. CASE Get(r, "reviewers") # Get(s, "reviewers")
    <3>1. c.type = "github_repository_environment"
      BY <2>2, DifferingPath, PathOwners
    <3>2. "environment_bypass" \notin ReviewerClasses(c)
      BY CleanUpdate
    <3>3. QED
      BY <3>1, <3>2 DEF ReviewerClasses, Writes, When
  <2>3. QED
    BY <2>1, <2>2
<1>15. reviewed(r) \subseteq reviewed(s) /\ approves(s) \subseteq approves(r)
  BY <1>14 DEF When
<1>16. branches(r) \subseteq branches(s)
  <2> SUFFICES ASSUME Get(r, "deployment_branch_policy") # Absent,
                      Get(s, "deployment_branch_policy") = Absent
               PROVE  FALSE
    BY DEF When
  <2>1. c.type = "github_repository_environment"
    BY DifferingPath, PathOwners
  <2>2. "environment_bypass" \notin BranchPolicyClasses(c)
    BY CleanUpdate
  <2>3. QED
    BY <2>1, <2>2 DEF BranchPolicyClasses, Writes, When, New, Old
\* The policy on actions.
<1>17. /\ ~Becomes(c, "enabled_repositories", "all") /\ ~Becomes(c, "allowed_actions", "all")
       /\ ~Becomes(c, "default_workflow_permissions", "write")
       /\ "can_approve_pull_request_reviews" \notin TurnedOn(c)
       /\ HoldLists(r, s) => TurnedOn(c) \cap {"github_owned_allowed", "verified_allowed"} = {}
  <2>1. "actions_policy_expansion" \notin ActionsPolicyClasses(c, x)
    BY CleanUpdate
  <2>2. QED
    BY <2>1 DEF ActionsPolicyClasses, When
<1>18. TurnedOn(c) = Flags(s) \ Flags(r)
  BY <1>1 DEF TurnedOn
<1>19. loose(s) \subseteq loose(r)
  <2> SUFFICES ASSUME "can_admins_bypass" \in Flags(s), "can_admins_bypass" \notin Flags(r)
               PROVE  FALSE
    BY <1>17, <1>18
  <2>1. c.type = "github_repository_environment"
    BY DifferingFlag, PathOwners
  <2>2. "environment_bypass" \notin EnvironmentGateClasses(c)
    BY CleanUpdate
  <2>3. QED
    BY <1>18, <2>1, <2>2 DEF EnvironmentGateClasses, When
<1>20. /\ everywhere(s) \subseteq everywhere(r) /\ everything(s) \subseteq everything(r)
       /\ writes(s) \subseteq writes(r)
  BY <1>17 DEF Becomes, When, New, Old
<1>21. HoldLists(r, s) => Trusted(s) \subseteq Trusted(r)
  BY <1>17, <1>18 DEF Trusted
\* Together.
<1>22. \A t : t # Absent =>
         /\ Protections(t) = UpTo("enforced", EnforcementRank(Get(t, "enforcement")))
              \cup UpTo("approvals", Approvals(t)) \cup strict(t) \cup covers(t) \cup scans(t)
              \cup checks(t) \cup reviewed(t) \cup branches(t) \cup governed(t)
         /\ Openings(t) = loose(t) \cup approves(t) \cup bypasses(t) \cup skips(t)
              \cup everywhere(t) \cup everything(t) \cup writes(t)
  BY Zenon DEF Protections, Openings
<1> HIDE DEF strict, covers, scans, checks, reviewed, branches, governed, loose, approves, bypasses,
             skips, everywhere, everything, writes
<1>23. Protections(r) \subseteq Protections(s)
  BY <1>3, <1>4, <1>6, <1>7, <1>11, <1>12, <1>13, <1>15, <1>16, <1>22
<1>24. Openings(s) \subseteq Openings(r)
  BY <1>8, <1>9, <1>15, <1>19, <1>20, <1>22
<1>25. QED
  BY <1>21, <1>23, <1>24

(***************************************************************************)
(* In every behaviour what is managed, or imported by the run, and stays   *)
(* keeps every protection and gets no new way around it, whatever was      *)
(* planned, acknowledged and edited by hand.                               *)
(***************************************************************************)
THEOREM ProtectionsKept == Spec => ProtectionsHold
<1>1. ASSUME IInv, Current, [Next]_vars, Applies, NEW a \in managed \cup run.imports,
             live[a] # Absent, live'[a] # Absent
      PROVE  /\ Protections(live[a]) \subseteq Protections(live'[a])
             /\ Openings(live'[a]) \subseteq Openings(live[a])
             /\ HoldLists(live[a], live'[a]) => Trusted(live'[a]) \subseteq Trusted(live[a])
  <2>1. a \in Addresses
    BY <1>1 DEF Current, Registered, Applies
  <2>2. CASE live'[a] = live[a]
    BY <2>2
  <2>3. CASE live'[a] # live[a]
    <3>1. Apply
      BY <1>1, <2>3, EndsByApply
    <3>2. PICK c \in PlanWrites(run.plan) :
            /\ <<c.type, c.key>> = a /\ live'[a] = c.after /\ WellFormed(c.type, c.after)
            /\ Clean(c, Context)
            /\ ChangedFieldsAllowed(c)
            /\ \/ c.action = "create" /\ (a \in managed \cup run.imports => live[a] = Absent)
               \/ c.action = "update" /\ c.before = live[a] /\ live[a] # Absent
      BY <1>1, <2>1, <2>3, <3>1, AppliedChange, Zenon
    <3>3. c.action = "update" /\ c.before = live[a] /\ c.type = a[1]
      BY <1>1, <3>2
    <3>4. WellFormed(c.type, c.before)
      BY <1>1, <2>1, <3>3 DEF Current, ResourcesFormed
    <3>5. /\ Protections(c.before) \subseteq Protections(c.after)
          /\ Openings(c.after) \subseteq Openings(c.before)
          /\ HoldLists(c.before, c.after) => Trusted(c.after) \subseteq Trusted(c.before)
      BY <1>1, <3>2, <3>3, <3>4, UpdateProtectsNoLess, Zenon
    <3>6. QED
      BY <3>2, <3>3, <3>5
  <2>4. QED
    BY <2>2, <2>3
<1>2. IInv /\ Current /\ [Next]_vars =>
        (Applies => \A a \in managed \cup run.imports : live[a] # Absent /\ live'[a] # Absent =>
           /\ Protections(live[a]) \subseteq Protections(live'[a])
           /\ Openings(live'[a]) \subseteq Openings(live[a])
           /\ HoldLists(live[a], live'[a]) => Trusted(live'[a]) \subseteq Trusted(live[a]))
  BY <1>1, Zenon
<1>3. QED
  BY <1>2, Invariant, RunsCurrent, PTL DEF Spec, ProtectionsHold

-----------------------------------------------------------------------------
(* Administrators.                                                         *)

\* The preflight of a run past adoption counted enough people, or took them to
\* be the founder.
LEMMA QuorumObserved ==
  ASSUME Current, step = "verified", run.phase # "adopt",
         ~FounderQualified(run.catalog, run.observed, run.phase, W.today)
  PROVE  ~(Cardinality(AdminPrincipals(run.catalog, run.observed)) < run.catalog.minimum_admins)
<1> DEFINE d == run.catalog
           o == run.observed
           founder == FounderQualified(d, o, run.phase, W.today)
<1>1. PreflightBlockers(d, o, run.phase, W.today) = {}
  BY DEF Current, RunQualified, PreflightReady
<1>2. QuorumBlockers(d, o, founder) \subseteq PreflightBlockers(d, o, run.phase, W.today)
  BY Zenon DEF PreflightBlockers
<1>3. When(~founder /\ Cardinality(AdminPrincipals(d, o)) < d.minimum_admins,
           "INSUFFICIENT_DISTINCT_HUMANS") \subseteq QuorumBlockers(d, o, founder)
  BY Zenon DEF QuorumBlockers
<1>4. ~founder
  BY Zenon
<1>5. QED
  <2> HIDE DEF founder, d, o
  <2>1. ~(Cardinality(AdminPrincipals(d, o)) < d.minimum_admins)
    BY <1>1, <1>2, <1>3, <1>4 DEF When
  <2>2. QED
    BY <2>1 DEF d, o

\* Where an administrator was observed, and nobody edits memberships while a
\* run is under way, there still is one.
LEMMA ObservedAdminLive ==
  ASSUME IInv, Current, step # "idle", PeopleLeftAlone(world),
         NEW l \in ObservedAdmins(run.observed)
  PROVE  LET a == <<"github_membership", <<l>>>>
         IN a \in Addresses /\ live[a] # Absent /\ Get(live[a], "role") = "admin"
<1> DEFINE a == <<"github_membership", <<l>>>>
           state == run.observed.state
<1>1. /\ DOMAIN state = Addresses
      /\ \A b \in Addresses : ~(b \in DOMAIN W.edits /\ "observed" \in W.editable) => state[b] = live[b]
  BY DEF Current, ObservationCurrent
<1>2. /\ l \in ObservedMembers(run.observed)
      /\ Held(run.observed, "github_membership", <<l>>).role = "admin"
  BY Zenon DEF ObservedAdmins
<1>3. PICK b \in DOMAIN state : b[1] = "github_membership" /\ state[b] # Absent /\ b[2][1] = l
  BY <1>2 DEF ObservedMembers
<1>4. b = a
  BY <1>1, <1>3, WorldAssumption DEF IInv, PlanTypeOK, Addresses, W
<1>5. state[a] = live[a]
  BY <1>1, <1>3, <1>4 DEF PeopleLeftAlone, W
<1>6. live[a].role = "admin" /\ live[a] # Absent /\ a \in Addresses
  <2> HIDE DEF a
  <2>1. Held(run.observed, "github_membership", <<l>>) = state[a]
    BY <1>3, <1>4 DEF Held, a
  <2>2. QED
    BY <1>1, <1>2, <1>3, <1>4, <1>5, <2>1
<1>7. Get(live[a], "role") # Absent
  BY <1>6 DEF Current, ResourcesFormed, WellFormed, Mandatory
<1>8. QED
  BY <1>6, <1>7 DEF Get

\* No verified run takes the role of an administrator whom the catalog wants.
LEMMA AdminKept ==
  ASSUME IInv, Current, Apply, NEW l \in DOMAIN run.catalog.members,
         run.catalog.members[l] = "admin",
         <<"github_membership", <<l>>>> \in Addresses,
         live[<<"github_membership", <<l>>>>] # Absent,
         Get(live[<<"github_membership", <<l>>>>], "role") = "admin"
  PROVE  Get(live'[<<"github_membership", <<l>>>>], "role") = "admin"
<1> DEFINE a == <<"github_membership", <<l>>>>
<1>1. step = "verified"
  BY DEF Apply
<1>2. Context.catalog = run.catalog
  BY DEF Context
<1>3. CASE live'[a] = live[a]
  BY <1>3
<1>4. CASE live'[a] # live[a] /\ live'[a] = Absent
  <2>1. PICK c \in PlanWrites(run.plan) : <<c.type, c.key>> = a /\ live'[a] = c.after
    BY <1>4, AppliedWrite, Zenon
  <2>2. c.type = "github_membership" /\ c.key = <<l>>
    BY <2>1
  <2>3. Revokes(c)
    BY <1>1, <1>4, <2>1, VerifiedRemovals, Zenon
  <2>4. c.action = "delete" /\ c.type \in AccessTypes /\ ~Retires(c)
    BY <2>2, <2>3 DEF Revokes, AccessTypes, Retires, RetirableTypes
  <2>5. "authority_replacement" \notin RevocationClasses(c, Context)
    <3>1. "authority_replacement" \notin Classes(c, Context)
      BY <1>1, VerifiedClasses DEF Clean, FundamentalClasses
    <3>2. QED
      BY <2>4, <3>1, FoundClass, Zenon
  <2>6. RevocationAllowed(c, Context)
    BY <2>4, <2>5 DEF RevocationClasses, When
  <2>7. c.key[1] \notin DOMAIN Context.catalog.members
    BY <2>2, <2>6 DEF RevocationAllowed
  <2>8. QED
    BY <1>2, <2>2, <2>7
<1>5. CASE live'[a] # live[a] /\ live'[a] # Absent
  <2>1. PICK c \in PlanWrites(run.plan) :
          /\ <<c.type, c.key>> = a /\ live'[a] = c.after /\ Clean(c, Context)
          /\ \/ c.action = "create" /\ (a \in managed \cup run.imports => live[a] = Absent)
             \/ c.action = "update" /\ c.before = live[a] /\ live[a] # Absent
    BY <1>5, AppliedChange, Zenon
  <2>2. c.type = "github_membership" /\ c.key = <<l>> /\ c.action \in Writes
    BY <2>1 DEF Writes
  <2>3. "administrative_grant" \notin CatalogClasses(c, Context)
    <3>1. "administrative_grant" \notin Classes(c, Context)
      BY <2>1 DEF Clean, FundamentalClasses
    <3>2. c.action # "delete"
      BY <2>1
    <3>3. QED
      BY <3>1, <3>2, FoundClass, Zenon
  <2>4. Differs(c)
    <3>1. c.before = Absent \/ c.before = live[a]
      BY <1>1, <2>1 DEF IInv, BeforesKnown, PlanWrites
    <3>2. QED
      BY <1>5, <2>1, <3>1 DEF Differs
  <2>5. c.type \in CatalogTypes /\ c.type \in AccessTypes
    BY <2>2 DEF CatalogTypes, AccessTypes, ManagedTypes, ManagedPaths
  <2>6. CatalogAccess(c, Context)
    BY <2>2, <2>3, <2>4, <2>5 DEF CatalogClasses, MatchesCatalog
  <2>7. New(c, "role") = Context.catalog.members[l]
    BY <2>2, <2>6 DEF CatalogAccess
  <2>8. QED
    BY <1>2, <2>1, <2>7 DEF New
<1>6. QED
  BY <1>3, <1>4, <1>5, Zenon

(***************************************************************************)
(* Where nobody changes a membership by hand while a run is under way, in  *)
(* every behaviour the people counted by the preflight still administer    *)
(* after the apply: as many as the catalog demands.                        *)
(***************************************************************************)
THEOREM QuorumSurvives == Spec /\ []PeopleLeftAlone(world) => AdminQuorumSurvives
<1>1. ASSUME IInv, Current, PeopleLeftAlone(world), [Next]_vars, Applies, run.phase # "adopt",
             ~FounderQualified(run.catalog, run.observed, run.phase, W.today)
      PROVE  Cardinality(LiveAdminPrincipals) >= run.catalog.minimum_admins
  <2> DEFINE counted == AdminPrincipals(run.catalog, run.observed)
             logins == {m \in DOMAIN run.catalog.members :
                          Get(live'[<<"github_membership", <<m>>>>], "role") = "admin"}
  <2>1. step = "verified" /\ step # "idle"
    BY <1>1 DEF Applies
  <2>2. ~(Cardinality(counted) < run.catalog.minimum_admins)
    BY <1>1, <2>1, QuorumObserved
  <2>3. ASSUME NEW l \in ActiveLogins(run.catalog, run.observed),
               run.catalog.members[l] = "admin", l \in ObservedAdmins(run.observed)
        PROVE  l \in logins
    <3>1. l \in DOMAIN run.catalog.members
      BY DEF ActiveLogins
    <3>2. /\ <<"github_membership", <<l>>>> \in Addresses
          /\ live[<<"github_membership", <<l>>>>] # Absent
          /\ Get(live[<<"github_membership", <<l>>>>], "role") = "admin"
      BY <1>1, <2>1, <2>3, ObservedAdminLive
    <3>3. Get(live'[<<"github_membership", <<l>>>>], "role") = "admin"
      <4>1. CASE Apply
        BY <1>1, <2>3, <3>1, <3>2, <4>1, AdminKept
      <4>2. CASE live' = live
        BY <3>2, <4>2
      <4>3. QED
        BY <1>1, <4>1, <4>2, EndsByApply
    <3>4. QED
      BY <3>1, <3>3
  <2>4. counted \subseteq LiveAdminPrincipals
    <3>1. counted = {run.catalog.principals[l] :
                       l \in {m \in ActiveLogins(run.catalog, run.observed) :
                                /\ run.catalog.members[m] = "admin"
                                /\ m \in ObservedAdmins(run.observed)}}
      BY Zenon DEF AdminPrincipals
    <3>2. LiveAdminPrincipals = {run.catalog.principals[l] : l \in logins}
      BY Zenon DEF LiveAdminPrincipals
    <3> HIDE DEF counted, logins
    <3>3. QED
      BY <2>3, <3>1, <3>2
  <2>5. IsFiniteSet(LiveAdminPrincipals) /\ run.catalog.minimum_admins \in Nat
    <3>1. run.catalog \in W.initial \cup W.catalogs
      BY <1>1, <2>1 DEF Current, RunQualified, CatalogReviewed
    <3>2. IsFiniteSet(DOMAIN run.catalog.members) /\ run.catalog.minimum_admins \in Nat
      BY <1>1, <3>1, CatalogAssumption DEF IInv, PlanTypeOK, W
    <3>3. IsFiniteSet(logins)
      BY <3>2, FS_Subset
    <3>4. LiveAdminPrincipals = {run.catalog.principals[l] : l \in logins}
      BY Zenon DEF LiveAdminPrincipals
    <3> HIDE DEF logins
    <3>5. IsFiniteSet({run.catalog.principals[l] : l \in logins})
      <4> DEFINE people == {run.catalog.principals[l] : l \in logins}
                 principal == [l \in logins |-> run.catalog.principals[l]]
      <4>1. principal \in Surjection(logins, people)
        BY DEF Surjection
      <4> HIDE DEF principal
      <4>2. QED
        BY <3>3, <4>1, FS_Surjection
    <3>6. QED
      BY <3>2, <3>4, <3>5
  <2>6. /\ Cardinality(counted) <= Cardinality(LiveAdminPrincipals) /\ IsFiniteSet(counted)
    BY <2>4, <2>5, FS_Subset
  <2>7. Cardinality(counted) \in Nat /\ Cardinality(LiveAdminPrincipals) \in Nat
    BY <2>5, <2>6, FS_CardinalityType
  <2> HIDE DEF counted
  <2>8. QED
    BY <2>2, <2>5, <2>6, <2>7
<1>2. IInv /\ Current /\ PeopleLeftAlone(world) /\ [Next]_vars =>
        (Applies /\ run.phase # "adopt"
           /\ ~FounderQualified(run.catalog, run.observed, run.phase, W.today) =>
           Cardinality(LiveAdminPrincipals) >= run.catalog.minimum_admins)
  BY <1>1, Zenon
<1>3. QED
  BY <1>2, Invariant, RunsCurrent, PTL DEF Spec, AdminQuorumSurvives

-----------------------------------------------------------------------------
(* Migration of custom properties.                                         *)

\* What a repository holds is in circulation: since the beginning, or since
\* the catalogs that were merged after it.
CirculatesAmong(cats) ==
  \A a \in ValueAddresses(world) :
    Listed(live[a], "property_value") \subseteq Circulating(world, cats, a)
ValuesCirculate ==
  \A a \in ValueAddresses(world) :
    \/ Listed(live[a], "property_value") \subseteq Circulating(world, W.initial, a)
    \/ /\ catalog \in W.catalogs
       /\ Listed(live[a], "property_value") \subseteq Circulating(world, W.initial \cup W.catalogs, a)

Migrates == ValuesCirculate /\ NoOrphan(live)

LEMMA CirculatingGrows ==
  ASSUME NEW w, NEW few, NEW many, few \subseteq many, NEW a
  PROVE  Circulating(w, few, a) \subseteq Circulating(w, many, a)
  BY DEF Circulating

LEMMA WantedCirculates ==
  ASSUME NEW w, NEW cats, NEW cat \in cats, NEW a
  PROVE  Wanted(cat, a) \subseteq Circulating(w, cats, a)
<1> DEFINE held == {Listed(r, "property_value") : r \in HeldAt(w, a)}
<1>1. Circulating(w, cats, a) = UNION ({Wanted(e, a) : e \in cats} \cup held)
  BY Zenon DEF Circulating
<1> HIDE DEF held
<1>2. QED
  BY <1>1

LEMMA HeldCirculates ==
  ASSUME NEW w, NEW cats, NEW a, NEW r \in HeldAt(w, a)
  PROVE  Listed(r, "property_value") \subseteq Circulating(w, cats, a)
<1> DEFINE wanted == {Wanted(e, a) : e \in cats}
<1>1. Circulating(w, cats, a) = UNION (wanted \cup {Listed(q, "property_value") : q \in HeldAt(w, a)})
  BY Zenon DEF Circulating
<1> HIDE DEF wanted
<1>2. QED
  BY <1>1

\* The catalog on main keeps everything in circulation allowed.
LEMMA MainKeeps ==
  ASSUME Current, ValuesCirculate, LegacyKept(world)
  PROVE  \E cats : Keeps(world, catalog, cats) /\ CirculatesAmong(cats)
<1>1. CASE catalog \in W.catalogs
  <2>1. Keeps(world, catalog, W.initial \cup W.catalogs)
    BY <1>1 DEF LegacyKept, W
  <2>2. CirculatesAmong(W.initial \cup W.catalogs)
    BY CirculatingGrows DEF ValuesCirculate, CirculatesAmong
  <2>3. QED
    BY <2>1, <2>2
<1>2. CASE catalog \notin W.catalogs
  <2>1. catalog \in W.initial
    BY <1>2 DEF Current, CatalogReviewed
  <2>2. Keeps(world, catalog, W.initial)
    BY <2>1 DEF LegacyKept, W
  <2>3. CirculatesAmong(W.initial)
    BY <1>2 DEF ValuesCirculate, CirculatesAmong
  <2>4. QED
    BY <2>2, <2>3
<1>3. QED
  BY <1>1, <1>2

LEMMA InitMigrates == ASSUME Init, LegacyKept(world) PROVE Migrates
<1>1. live = World[world].live
  BY DEF Init, W
<1>2. NoOrphan(live)
  BY <1>1 DEF LegacyKept
<1>3. ValuesCirculate
  BY <1>1, HeldCirculates DEF ValuesCirculate, HeldAt
<1>4. QED
  BY <1>2, <1>3 DEF Migrates

\* A value is accepted where its property is defined, by the definition that
\* stays.
LEMMA ValueAccepted ==
  ASSUME IInv, NEW after, Accepts(live, after), NEW a \in Addresses,
         a[1] = "github_repository_custom_property", after[a] # live[a], after[a] # Absent,
         LET d == <<"github_organization_custom_properties", <<a[2][2]>>>> IN after[d] = live[d]
  PROVE  LET d == <<"github_organization_custom_properties", <<a[2][2]>>>>
         IN after[a].property_value \subseteq Listed(live[d], "allowed_values")
<1> DEFINE d == <<"github_organization_custom_properties", <<a[2][2]>>>>
<1>1. after[a].property_value
        \subseteq Listed(live[d], "allowed_values") \cup Listed(after[d], "allowed_values")
  BY Zenon DEF Accepts, IInv, PlanTypeOK
<1>2. QED
  BY <1>1

LEMMA AllowedListed ==
  ASSUME NEW r, r # Absent, WellFormed("github_organization_custom_properties", r)
  PROVE  Listed(r, "allowed_values") = r.allowed_values
  BY DEF WellFormed, Mandatory, Listed

LEMMA ValuesListed ==
  ASSUME NEW r, r # Absent, WellFormed("github_repository_custom_property", r)
  PROVE  Listed(r, "property_value") = r.property_value /\ Get(r, "property_value") = r.property_value
  BY DEF WellFormed, Mandatory, Listed, Get

LEMMA EditMigrates ==
  ASSUME IInv, Current, Migrates, LegacyKept(world), Edit
  PROVE  Migrates'
<1>1. PICK a \in DOMAIN W.edits : \E v \in W.edits[a] :
        LET after == [live EXCEPT ![a] = v] IN Accepts(live, after) /\ live' = after
  BY DEF Edit
<1>2. PICK v \in W.edits[a] : Accepts(live, live') /\ live' = [live EXCEPT ![a] = v]
  BY <1>1, Zenon
<1>3. UNCHANGED <<world, catalog>>
  BY DEF Edit
<1>4. a[1] # "github_organization_custom_properties"
  BY DEF LegacyKept, W
<1>5. DOMAIN live' = Addresses /\ \A b \in Addresses : live'[b] = IF b = a THEN v ELSE live[b]
  BY <1>2 DEF IInv, PlanTypeOK
<1>6. ValuesCirculate'
  <2>1. v \in HeldAt(world, a)
    BY DEF HeldAt, W
  <2>2. \A cats : Listed(v, "property_value") \subseteq Circulating(world, cats, a)
    BY <2>1, HeldCirculates
  <2>3. QED
    BY <1>3, <1>5, <2>2 DEF Migrates, ValuesCirculate, ValueAddresses, Addresses, W
<1>7. NoOrphan(live')
  <2> SUFFICES ASSUME NEW b \in Addresses, b[1] = "github_repository_custom_property",
                      live'[b] # Absent,
                      <<"github_organization_custom_properties", <<b[2][2]>>>> \in Addresses,
                      live'[<<"github_organization_custom_properties", <<b[2][2]>>>>] # Absent
               PROVE  live'[b].property_value \subseteq
                        live'[<<"github_organization_custom_properties", <<b[2][2]>>>>].allowed_values
    BY <1>5 DEF NoOrphan
  <2> DEFINE d == <<"github_organization_custom_properties", <<b[2][2]>>>>
  <2>1. live'[d] = live[d]
    BY <1>4, <1>5
  <2>2. Listed(live[d], "allowed_values") = live[d].allowed_values
    BY <2>1, AllowedListed DEF Current, ResourcesFormed
  <2>3. CASE live'[b] = live[b]
    BY <2>1, <2>3 DEF Migrates, NoOrphan, IInv, PlanTypeOK
  <2>4. CASE live'[b] # live[b]
    BY <1>2, <2>1, <2>2, <2>4, ValueAccepted
  <2>5. QED
    BY <2>3, <2>4
<1>8. QED
  BY <1>6, <1>7 DEF Migrates

\* What an apply leaves in an assignment or a definition is what the catalog
\* on main wants there.
LEMMA AppliedProperty ==
  ASSUME IInv, Current, Apply, NEW a \in Addresses, live'[a] # live[a], live'[a] # Absent
  PROVE  /\ a[1] = "github_repository_custom_property" =>
              /\ Get(live'[a], "property_value") = Wanted(catalog, a)
         /\ a[1] = "github_organization_custom_properties" =>
              /\ catalog.migration.phase = "retire" => AssignmentsConverged(catalog, run.observed)
              /\ a[2][1] \in DOMAIN catalog.properties
              /\ Get(live'[a], "allowed_values") = EffectiveAllowedValues(catalog, a[2][1])
<1>1. step = "verified" /\ run.catalog = catalog
  BY DEF Apply, Current, RunQualified
<1>2. PICK c \in PlanWrites(run.plan) :
        /\ <<c.type, c.key>> = a /\ live'[a] = c.after /\ Clean(c, Context)
        /\ \/ c.action = "create" /\ (a \in managed \cup run.imports => live[a] = Absent)
           \/ c.action = "update" /\ c.before = live[a] /\ live[a] # Absent
  BY AppliedChange, Zenon
<1>3. c.type = a[1] /\ c.key = a[2] /\ c.action \in Writes /\ c.action # "delete"
  BY <1>2 DEF Writes
<1>4. Differs(c)
  <2>1. c.before = Absent \/ c.before = live[a]
    BY <1>1, <1>2 DEF IInv, BeforesKnown, PlanWrites
  <2>2. QED
    BY <1>2, <2>1 DEF Differs
<1>5. "unknown_change" \notin CatalogClasses(c, Context)
  <2>1. "unknown_change" \notin Classes(c, Context)
    BY <1>2 DEF Clean, FundamentalClasses
  <2>2. QED
    BY <1>3, <2>1, FoundClass, Zenon
<1>6. Context.catalog = catalog /\ Context.observed = run.observed
  BY <1>1 DEF Context
<1>7. CASE a[1] = "github_repository_custom_property"
  <2>1. c.type \in CatalogTypes /\ c.type \notin AccessTypes
    BY <1>3, <1>7 DEF CatalogTypes, AccessTypes, ManagedTypes, ManagedPaths
  <2>2. MatchesCatalog(c, Context)
    BY <1>3, <1>4, <1>5, <2>1, Zenon DEF CatalogClasses
  <2>3. CatalogRepositoryProperty(c, Context)
    BY <1>3, <1>7, <2>2, Zenon DEF MatchesCatalog, AccessTypes
  <2>4. /\ a[2][1] \in DOMAIN catalog.repositories
        /\ a[2][2] \in DOMAIN catalog.repositories[a[2][1]].properties
        /\ New(c, "property_value") = catalog.repositories[a[2][1]].properties[a[2][2]]
    BY <1>3, <1>6, <2>3 DEF CatalogRepositoryProperty, Agrees
  <2>5. QED
    BY <1>2, <1>7, <2>4 DEF New, Wanted
<1>8. CASE a[1] = "github_organization_custom_properties"
  <2>1. c.type \in CatalogTypes /\ c.type \notin AccessTypes
    BY <1>3, <1>8 DEF CatalogTypes, AccessTypes, ManagedTypes, ManagedPaths
  <2>2. MatchesCatalog(c, Context)
    BY <1>3, <1>4, <1>5, <2>1, Zenon DEF CatalogClasses
  <2>3. CatalogOrganizationProperty(c, Context)
    BY <1>3, <1>8, <2>2, Zenon DEF MatchesCatalog, AccessTypes
  <2>4. /\ catalog.migration.phase = "retire" => AssignmentsConverged(catalog, run.observed)
        /\ a[2][1] \in DOMAIN catalog.properties
        /\ New(c, "allowed_values") = EffectiveAllowedValues(catalog, a[2][1])
    BY <1>3, <1>6, <2>3 DEF CatalogOrganizationProperty, Agrees
  <2>5. QED
    BY <1>2, <1>8, <2>4 DEF New
<1>9. QED
  BY <1>7, <1>8, Zenon

\* When a definition changes, each value that stays in place is one it allows.
LEMMA DefinitionKeeps ==
  ASSUME IInv, Current, ValuesCirculate, LegacyKept(world), step # "idle",
         NEW a \in Addresses, a[1] = "github_repository_custom_property", live[a] # Absent,
         a[2][2] \in DOMAIN catalog.properties,
         catalog.migration.phase = "retire" => AssignmentsConverged(catalog, run.observed)
  PROVE  live[a].property_value \subseteq EffectiveAllowedValues(catalog, a[2][2])
<1>1. PICK cats : Keeps(world, catalog, cats) /\ CirculatesAmong(cats)
  BY MainKeeps
<1>2. a \in ValueAddresses(world)
  BY DEF ValueAddresses, Addresses, W
<1>3. /\ Listed(live[a], "property_value") = live[a].property_value
      /\ Get(live[a], "property_value") = live[a].property_value
  BY ValuesListed DEF Current, ResourcesFormed
<1>4. CASE catalog.migration.phase # "retire"
  <2>1. Circulating(world, cats, a) \subseteq EffectiveAllowedValues(catalog, a[2][2])
    <3>1. catalog.migration.phase = "preserve"
      BY <1>4, CatalogAssumption DEF Current, CatalogReviewed, IInv, PlanTypeOK, W
    <3>2. Circulating(world, cats, a) \subseteq
            catalog.properties[a[2][2]].allowed
            \cup IF a[2][2] \in DOMAIN catalog.migration.legacy
                 THEN catalog.migration.legacy[a[2][2]] ELSE {}
      BY <1>1, <1>2, <1>4, Zenon DEF Keeps
    <3>3. QED
      BY <3>1, <3>2 DEF EffectiveAllowedValues
  <2>2. live[a].property_value \subseteq Circulating(world, cats, a)
    BY <1>1, <1>2, <1>3 DEF CirculatesAmong
  <2>3. QED
    BY <2>1, <2>2
<1>5. CASE catalog.migration.phase = "retire"
  <2>1. /\ a[2][1] \in DOMAIN catalog.repositories
        /\ a[2][2] \in DOMAIN catalog.repositories[a[2][1]].properties
        /\ Wanted(catalog, a) \subseteq catalog.properties[a[2][2]].allowed
    BY <1>1, <1>2, <1>5, Zenon DEF Keeps
  <2>2. Get(Held(run.observed, "github_repository_custom_property", <<a[2][1], a[2][2]>>),
            "property_value")
          = catalog.repositories[a[2][1]].properties[a[2][2]]
    BY <1>5, <2>1, Zenon DEF AssignmentsConverged
  <2>3. a = <<"github_repository_custom_property", <<a[2][1], a[2][2]>>>>
    BY WorldAssumption DEF IInv, PlanTypeOK, Addresses, W
  <2>4. a \in DOMAIN run.observed.state /\ run.observed.state[a] = live[a]
    BY DEF Current, ObservationCurrent, LegacyKept, W
  <2>5. Held(run.observed, "github_repository_custom_property", <<a[2][1], a[2][2]>>) = live[a]
    BY <2>3, <2>4 DEF Held
  <2>6. live[a].property_value = Wanted(catalog, a)
    BY <1>3, <2>1, <2>2, <2>5 DEF Wanted
  <2>7. QED
    BY <2>1, <2>6 DEF EffectiveAllowedValues
<1>6. QED
  BY <1>4, <1>5

LEMMA ApplyMigrates ==
  ASSUME IInv, Current, Migrates, LegacyKept(world), Apply
  PROVE  Migrates'
<1>1. UNCHANGED <<world, catalog>> /\ step = "verified" /\ step # "idle"
  BY DEF Apply
<1>2. DOMAIN live' = Addresses
  BY AppliedWrite
<1>3. Accepts(live, live')
  BY Zenon DEF Apply
<1>4. ASSUME NEW a \in Addresses PROVE WellFormed(a[1], live'[a])
  <2>1. Current'
    BY ApplyCurrent
  <2>2. QED
    BY <1>1, <2>1 DEF Current, ResourcesFormed, Addresses, W
<1>5. ValuesCirculate'
  <2> SUFFICES ASSUME NEW a \in ValueAddresses(world)
               PROVE  \/ Listed(live'[a], "property_value") \subseteq Circulating(world, W.initial, a)
                      \/ /\ catalog \in W.catalogs
                         /\ Listed(live'[a], "property_value")
                              \subseteq Circulating(world, W.initial \cup W.catalogs, a)
    BY <1>1 DEF ValuesCirculate, W
  <2>1. a \in Addresses /\ a[1] = "github_repository_custom_property"
    BY DEF ValueAddresses, Addresses, W
  <2>2. CASE live'[a] = live[a]
    BY <2>2 DEF Migrates, ValuesCirculate
  <2>3. CASE live'[a] = Absent
    BY <2>3 DEF Listed, Get
  <2>4. CASE live'[a] # live[a] /\ live'[a] # Absent
    <3>1. Get(live'[a], "property_value") = Wanted(catalog, a)
      BY <2>1, <2>4, AppliedProperty
    <3>2. Listed(live'[a], "property_value") = Wanted(catalog, a)
      BY <1>4, <2>1, <2>4, <3>1, ValuesListed
    <3>3. catalog \in W.initial \cup W.catalogs
      BY DEF Current, CatalogReviewed
    <3>4. QED
      BY <3>2, <3>3, WantedCirculates
  <2>5. QED
    BY <2>2, <2>3, <2>4
<1>6. NoOrphan(live')
  <2> SUFFICES ASSUME NEW a \in Addresses, a[1] = "github_repository_custom_property",
                      live'[a] # Absent,
                      <<"github_organization_custom_properties", <<a[2][2]>>>> \in Addresses,
                      live'[<<"github_organization_custom_properties", <<a[2][2]>>>>] # Absent
               PROVE  live'[a].property_value \subseteq
                        live'[<<"github_organization_custom_properties", <<a[2][2]>>>>].allowed_values
    BY <1>2 DEF NoOrphan
  <2> DEFINE d == <<"github_organization_custom_properties", <<a[2][2]>>>>
  <2>1. Listed(live'[d], "allowed_values") = live'[d].allowed_values
    BY <1>4, AllowedListed
  <2>2. CASE live'[d] = live[d]
    <3>1. CASE live'[a] = live[a]
      BY <2>2, <3>1 DEF Migrates, NoOrphan, IInv, PlanTypeOK
    <3>2. CASE live'[a] # live[a]
      BY <1>3, <2>1, <2>2, <3>2, ValueAccepted
    <3>3. QED
      BY <3>1, <3>2
  <2>3. CASE live'[d] # live[d]
    <3>1. /\ catalog.migration.phase = "retire" => AssignmentsConverged(catalog, run.observed)
          /\ a[2][2] \in DOMAIN catalog.properties
          /\ Get(live'[d], "allowed_values") = EffectiveAllowedValues(catalog, a[2][2])
      <4>1. d[1] = "github_organization_custom_properties" /\ d[2][1] = a[2][2]
        OBVIOUS
      <4>2. QED
        BY <2>3, <4>1, AppliedProperty
    <3>2. live'[d].allowed_values = EffectiveAllowedValues(catalog, a[2][2])
      <4>1. Get(live'[d], "allowed_values") # Absent
        BY <1>4 DEF WellFormed, Mandatory
      <4>2. QED
        BY <3>1, <4>1 DEF Get
    <3>3. CASE live'[a] = live[a]
      BY <1>1, <3>1, <3>2, <3>3, DefinitionKeeps DEF Migrates
    <3>4. CASE live'[a] # live[a]
      <4>1. live'[a].property_value = Wanted(catalog, a)
        BY <1>4, <3>4, AppliedProperty, ValuesListed
      <4>2. PICK cats : Keeps(world, catalog, cats)
        BY MainKeeps DEF Migrates
      <4>3. Wanted(catalog, a) \subseteq catalog.properties[a[2][2]].allowed
        BY <3>1, <4>2 DEF Keeps, ValueAddresses, Addresses, W
      <4>4. QED
        BY <3>2, <4>1, <4>3 DEF EffectiveAllowedValues
    <3>5. QED
      BY <3>3, <3>4
  <2>4. QED
    BY <2>2, <2>3
<1>7. QED
  BY <1>5, <1>6 DEF Migrates

(***************************************************************************)
(* Where reviewers keep legacy values in circulation, no behaviour, with   *)
(* whatever hand edits of assignments between runs and half-finished       *)
(* applies, leaves a repository with a value that is not defined any more. *)
(***************************************************************************)
THEOREM MigrationOrphansNothing == Spec /\ []LegacyKept(world) => []MigrationNeverOrphans
<1>1. Init /\ LegacyKept(world) => Migrates
  BY InitMigrates
<1>2. IInv /\ Current /\ LegacyKept(world) /\ Migrates /\ [Next]_vars => Migrates'
  <2>1. ASSUME Migrates, UNCHANGED <<world, live>>, catalog' = catalog \/ catalog' \in W.catalogs
        PROVE  Migrates'
    <3>1. ASSUME NEW a \in ValueAddresses(world)
          PROVE  Circulating(world, W.initial, a)
                   \subseteq Circulating(world, W.initial \cup W.catalogs, a)
      BY CirculatingGrows
    <3>2. QED
      BY <2>1, <3>1 DEF Migrates, ValuesCirculate, W
  <2>2. ASSUME IInv, Current, LegacyKept(world), Migrates, [Next]_vars PROVE Migrates'
    <3>1. CASE Apply
      BY <2>2, <3>1, ApplyMigrates
    <3>2. CASE Edit
      BY <2>2, <3>2, EditMigrates
    <3>3. CASE ~Apply /\ ~Edit
      <4>1. UNCHANGED <<world, live>> /\ (catalog' = catalog \/ catalog' \in W.catalogs)
        BY <2>2, <3>3 DEF Next, Merge, Observe, Plan, Build, Verify, Abandon, vars
      <4>2. QED
        BY <2>1, <2>2, <4>1
    <3>4. QED
      BY <3>1, <3>2, <3>3
  <2>3. QED
    BY <2>2, Zenon
<1>3. Migrates => MigrationNeverOrphans
  BY DEF Migrates, MigrationNeverOrphans
<1>4. QED
  BY <1>1, <1>2, <1>3, Invariant, RunsCurrent, PTL DEF Spec
=============================================================================
