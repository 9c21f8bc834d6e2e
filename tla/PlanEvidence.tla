---------------------------- MODULE PlanEvidence ----------------------------
(***************************************************************************)
(* The decision path from a reviewed catalog to a change on GitHub:        *)
(* observe the organization and run the preflight, plan, build the plan    *)
(* evidence, verify it in the apply job, apply.  Classification is         *)
(* PlanClassifier, the preflight is Preflight; here are Build, Verify and  *)
(* VerifyAuthenticated of                                                  *)
(* src/compiler/internal/evidence/plan_evidence.go with the identity, the  *)
(* dependency analysis and the founder exception they check.               *)
(*                                                                         *)
(* A world is one estate to explore: the catalogs reviewers may merge, the *)
(* resources live at first, the edits somebody may make by hand and when,  *)
(* and what a plan may propose for each address.  The plan is not trusted: *)
(* a proposal need not be what the catalog asks for.                       *)
(***************************************************************************)
EXTENDS Preflight

CONSTANTS
  WorldNames, World,        \* World[w] describes w \in WorldNames
  Phases,                   \* the rollout phases that are run
  FounderRepositories,      \* the seven names and visibilities the exception is bound to
  FounderExpiry             \* the hour the exception ends

ASSUME PhasesAssumption == Phases \subseteq {"adopt", "foundation", "enforce"}

\* The exception lets none of its seven repositories be public.
ASSUME FounderAssumption == \A r \in DOMAIN FounderRepositories : FounderRepositories[r] # "public"

\* Edits by hand may come before a run or while it observes, "live" says of
\* every address what is there, an address is a type and a key (a login for a
\* membership, a repository and a name for a property value), and the action
\* OpenTofu reports fits what it knows and plans (Change) unless it is one of
\* the odd ones.
ASSUME WorldAssumption ==
  \A w \in WorldNames :
    /\ World[w].editable \subseteq {"idle", "observed"}
    /\ DOMAIN World[w].proposals \subseteq DOMAIN World[w].live
    /\ \A a \in DOMAIN World[w].proposals :
         /\ a = <<a[1], a[2]>>
         /\ \A p \in World[w].proposals[a] : p.action \notin {"create", "update", "delete"}
    /\ \A a \in DOMAIN World[w].live :
         /\ a[1] = "github_membership" => a = <<a[1], <<a[2][1]>>>>
         /\ a[1] = "github_repository_custom_property" => a = <<a[1], <<a[2][1], a[2][2]>>>>

\* Arguments that the provider requires of a resource; block lists may be empty.
Mandatory(type) ==
  CASE type = "github_membership" -> {"role"}
    [] type = "github_organization_custom_properties" -> {"allowed_values"}
    [] type = "github_repository_custom_property" -> {"property_value"}
    [] type = "github_organization_ruleset" ->
         {"bypass_actors", "include", "exclude", "required_status_checks"}
    [] type = "github_repository_ruleset" -> {"bypass_actors", "include", "exclude"}
    [] OTHER -> {}

WellFormed(type, r) ==
  r # Absent =>
    /\ \A f \in Mandatory(type) : Get(r, f) # Absent
    /\ type = "github_team" => Get(r, "privacy") \in {"secret", "closed"}
    /\ Approvals(r) \in Nat

\* What GitHub holds, what hands may put there and what a plan may propose are
\* resources of their type.
ASSUME ResourceAssumption ==
  \A w \in WorldNames :
    /\ \A a \in DOMAIN World[w].live : WellFormed(a[1], World[w].live[a])
    /\ \A a \in DOMAIN World[w].edits : \A v \in World[w].edits[a] : WellFormed(a[1], v)
    /\ \A a \in DOMAIN World[w].proposals :
         \A p \in World[w].proposals[a] : WellFormed(a[1], p.after)

\* A catalog names finitely many people and how many of them must administer,
\* and its schema knows two phases of a migration.
ASSUME CatalogAssumption ==
  \A w \in WorldNames : \A cat \in World[w].initial \cup World[w].catalogs :
    /\ cat.minimum_admins \in Nat /\ IsFiniteSet(DOMAIN cat.members)
    /\ cat.migration.phase \in {"preserve", "retire"}

VARIABLES
  world,       \* the estate explored; it never changes
  live,        \* what GitHub holds at each address
  managed,     \* the addresses in the OpenTofu state
  catalog,     \* the catalog on main
  step,        \* how far the current run came
  run,         \* its phase, observation and plan
  evidence     \* the plan evidence it built

vars == <<world, live, managed, catalog, step, run, evidence>>

W == World[world]
Addresses == DOMAIN W.live

WindowLimit == 6    \* hours an evidence document may live

-----------------------------------------------------------------------------
(* Identity of the run that builds evidence. *)

\* A run either reports no attempt, or reports one outcome consistently.
ValidAttempt(a) ==
  IF a.status = Absent THEN a.started = Absent /\ a.stage = Absent /\ a.exit = Absent
  ELSE /\ a.started # Absent
       /\ a.stage # Absent => a.status = "failed"
       /\ a.exit # Absent => a.started = "true"
       /\ CASE a.status = "started" -> a.stage = Absent /\ a.exit = Absent
            [] a.status = "succeeded" -> a.started = "true" /\ a.exit = 0 /\ a.stage = Absent
            [] a.status = "failed" -> a.stage # Absent
            [] OTHER -> FALSE

Protected(i) == i.plan_app # Absent \/ i.apply_app # Absent

ValidWindow(i) ==
  /\ i.created # Absent /\ i.expires # Absent
  /\ i.created > 0 /\ i.created < i.expires /\ i.expires - i.created <= WindowLimit

\* Mutant: a protected run need not name its qualification evidence.
ValidIdentityUnqualified(i) ==
  /\ Protected(i) =>
       /\ i.plan_app # Absent /\ i.apply_app # Absent /\ i.plan_app.text # i.apply_app.text
       /\ \A f \in {"reference", "workflow", "source_sha", "actor"} : i[f] # Absent
  /\ ValidAttempt(i.attempt)
  /\ i.created # Absent \/ i.expires # Absent => ValidWindow(i)

\* The two applications are told apart by the texts of their ids, here, and by
\* the numbers that these spell, in ValidDocument: leading zeros are digits.
\* The commit stands for both revisions an identity names, the qualification
\* for its other digests and the token issuer.
ValidIdentity(i) ==
  /\ Protected(i) =>
       /\ i.plan_app # Absent /\ i.apply_app # Absent /\ i.plan_app.text # i.apply_app.text
       /\ \A f \in {"reference", "workflow", "source_sha", "actor", "qualification"} : i[f] # Absent
  /\ ValidAttempt(i.attempt)
  /\ i.created # Absent \/ i.expires # Absent => ValidWindow(i)

-----------------------------------------------------------------------------
\* Mutant: the exception does not fix the visibilities of its estate.
AllowsFounderPublicAnyVisibility(cat, created) ==
  /\ created <= FounderExpiry
  /\ ExceptionExact(cat)
  /\ DOMAIN cat.repositories = DOMAIN FounderRepositories

(***************************************************************************)
(* The founder exception as Build applies it: it may let one foundation    *)
(* plan make repositories public, for the exact estate of the exception.   *)
(***************************************************************************)
AllowsFounderPublic(cat, created) ==
  /\ created <= FounderExpiry
  /\ ExceptionExact(cat)
  /\ DOMAIN cat.repositories = DOMAIN FounderRepositories
  /\ \A r \in DOMAIN cat.repositories :
       /\ cat.repositories[r].visibility = FounderRepositories[r]
       /\ cat.repositories[r].properties.data_classification = {"public"}
       /\ cat.repositories[r].properties.production_authority = {"none"}
  /\ \A a \in FounderAccounts :
       a \in DOMAIN cat.members /\ cat.members[a] = "admin" /\ cat.principals[a] = FounderPrincipal

\* What the exception states of itself in the evidence, Absent where it does
\* not apply.
FounderProjection(applicable) ==
  IF applicable
  THEN [operation |-> "foundation-apply", ends |-> "CONSUMED", production_authority |-> FALSE]
  ELSE Absent

\* protected-apply.yml as main has it, the workflow the exception is bound to.
MainWorkflow == "protected-apply.yml@main"

ValidFounderProjection(e) ==
  e.founder # Absent =>
    /\ e.phase = "foundation"
    /\ e.bindings.workflow = MainWorkflow
    /\ e.founder = [operation |-> "foundation-apply", ends |-> "CONSUMED",
                    production_authority |-> FALSE]

\* The dependency analysis speaks of this plan, of this change reference, and
\* of every destructive change in it.
ValidAnalysis(a, plan, reference) ==
  /\ a.plan = plan
  /\ reference # Absent /\ a.reference = reference
  /\ a.covers = Destructive(plan)

-----------------------------------------------------------------------------
(* Build's decision, and the document. *)

FundamentalIn(classes, founderPublic) ==
  classes \cap (FundamentalClasses \ (IF founderPublic THEN {"public_visibility"} ELSE {})) # {}

\* Mutant: privilege expansions need no acknowledgement.
BlockersAnyExpansion(classes, phase, founderPublic, risk, destructive, removals, analysed) ==
  When(\E c \in DOMAIN classes : FundamentalIn(classes[c], founderPublic), "prohibited")
  \cup When(phase = "adopt" /\ DOMAIN classes # {}, "adopt_writes")
  \cup When(removals # {} /\ ~destructive, "removals_unacknowledged")
  \cup When(removals # {} /\ ~analysed, "removals_unanalysed")
  \cup When(removals = {} /\ (destructive \/ analysed), "needless_review")

\* Mutant: adoption is not kept apart.
BlockersAnyPhase(classes, phase, founderPublic, risk, destructive, removals, analysed) ==
  When(\E c \in DOMAIN classes : FundamentalIn(classes[c], founderPublic), "prohibited")
  \cup When((\E c \in DOMAIN classes : "privilege_expansion" \in classes[c]) /\ ~risk,
            "expansion_unacknowledged")
  \cup When(removals # {} /\ ~destructive, "removals_unacknowledged")
  \cup When(removals # {} /\ ~analysed, "removals_unanalysed")
  \cup When(removals = {} /\ (destructive \/ analysed), "needless_review")

Blockers(classes, phase, founderPublic, risk, destructive, removals, analysed) ==
  When(\E c \in DOMAIN classes : FundamentalIn(classes[c], founderPublic), "prohibited")
  \cup When(phase = "adopt" /\ DOMAIN classes # {}, "adopt_writes")
  \cup When((\E c \in DOMAIN classes : "privilege_expansion" \in classes[c]) /\ ~risk,
            "expansion_unacknowledged")
  \cup When(removals # {} /\ ~destructive, "removals_unacknowledged")
  \cup When(removals # {} /\ ~analysed, "removals_unanalysed")
  \cup When(removals = {} /\ (destructive \/ analysed), "needless_review")

\* Document is Absent where Build fails.
Document(i, risk, destructive, analysis) ==
  LET x == [catalog |-> run.catalog, observed |-> run.observed, phase |-> run.phase,
            uses |-> W.uses]
      removals == Destructive(run.plan)
      founderPublic == /\ Protected(i) /\ run.phase = "foundation"
                       /\ AllowsFounderPublic(run.catalog, i.created)
      blockers == Blockers(PlanClasses(run.plan, x), run.phase, founderPublic,
                           risk, destructive, removals, analysis # Absent)
  IN IF \/ ~ValidIdentity(i)
        \/ ~run.observed.core_complete
        \/ run.observed.organization # run.catalog.organization
        \/ Protected(i) /\ (i.run = Absent \/ ~ValidWindow(i))
        \/ analysis # Absent /\ ~ValidAnalysis(analysis, run.plan, i.reference)
     THEN Absent
     ELSE [phase |-> run.phase, plan |-> run.plan, bindings |-> i,
           risk |-> risk, acknowledged |-> destructive, analysis |-> analysis,
           requires |-> removals # {}, founder |-> FounderProjection(founderPublic),
           eligible |-> blockers = {}]

-----------------------------------------------------------------------------
(* Verification. *)

ValidReview(e) ==
  /\ e.requires = (Destructive(e.plan) # {})
  /\ e.eligible /\ e.requires => e.acknowledged /\ e.analysis # Absent

ValidDocument(e) ==
  /\ ValidReview(e)
  /\ Protected(e.bindings) =>
       /\ e.bindings.plan_app # Absent /\ e.bindings.apply_app # Absent
       /\ e.bindings.plan_app.number # e.bindings.apply_app.number
       /\ \A f \in {"reference", "workflow", "source_sha", "actor", "qualification", "run"} :
            e.bindings[f] # Absent
       /\ ValidWindow(e.bindings)
       /\ ValidFounderProjection(e)

\* What the apply job demands of the bindings: its own workflow, commit and
\* review.
Expected == [reference |-> "pr", workflow |-> MainWorkflow, source_sha |-> "sha",
             qualification |-> "q"]

\* Mutant: the decision is not read.
AuthenticatedAnyDecision(e, expected, at) ==
  /\ ValidDocument(e)
  /\ \A f \in DOMAIN expected : e.bindings[f] = expected[f]
  /\ e.bindings.created # Absent /\ e.bindings.created <= at /\ at < e.bindings.expires

\* The apply job authenticates the document, demands the bindings it expects,
\* the present hour within the window, and eligibility.
Authenticated(e, expected, at) ==
  /\ ValidDocument(e)
  /\ \A f \in DOMAIN expected : e.bindings[f] = expected[f]
  /\ e.bindings.created # Absent /\ e.bindings.created <= at /\ at < e.bindings.expires
  /\ e.eligible

-----------------------------------------------------------------------------
(* The system. *)

Init ==
  /\ world \in WorldNames
  /\ live = W.live
  /\ managed = Addresses \ W.unmanaged
  /\ catalog \in W.initial
  /\ step = "idle"
  /\ run = Absent
  /\ evidence = Absent

\* A reviewed pull request moves the catalog; the loader accepts it.
Merge ==
  /\ step = "idle"
  /\ catalog' \in W.catalogs
  /\ ValidMigration(catalog')
  /\ UNCHANGED <<world, live, managed, step, run, evidence>>

\* GitHub refuses a property value that the organization does not define.
Accepts(was, is) ==
  \A a \in DOMAIN was :
    a[1] = "github_repository_custom_property" /\ is[a] # was[a] /\ is[a] # Absent =>
      LET d == <<"github_organization_custom_properties", <<a[2][2]>>>>
          allowed(r) == Listed(r, "allowed_values")
      IN is[a].property_value \subseteq allowed(was[d]) \cup allowed(is[d])

\* Somebody changes GitHub by hand.
Edit ==
  /\ step \in W.editable
  /\ \E a \in DOMAIN W.edits : \E v \in W.edits[a] :
       LET after == [live EXCEPT ![a] = v]
       IN Accepts(live, after) /\ live' = after
  /\ UNCHANGED <<world, managed, catalog, step, run, evidence>>

\* The observer reads GitHub; the health of the observation is its own.
Observe(phase) ==
  /\ step = "idle"
  /\ \E health \in W.health :
       LET o == [f \in DOMAIN health \cup {"state"} |->
                   IF f = "state" THEN live ELSE health[f]]
       IN /\ PreflightReady(catalog, o, phase, W.today)
          /\ run' = [phase |-> phase, catalog |-> catalog, observed |-> o,
                     imports |-> Imports(catalog, o), plan |-> {}]
  /\ step' = "observed"
  /\ UNCHANGED <<world, live, managed, catalog, evidence>>

\* What is neither in the state nor imported looks new to the plan.
Known(a) == IF a \in managed \cup run.imports THEN live[a] ELSE Absent

Change(a, proposal) ==
  [type |-> a[1], key |-> a[2], canonical |-> proposal.canonical, before |-> Known(a),
   action |-> IF proposal.action # "natural" THEN proposal.action
              ELSE IF Known(a) = Absent THEN "create"
              ELSE IF proposal.after = Absent THEN "delete" ELSE "update",
   after |-> proposal.after, unknown |-> proposal.unknown]

Proposed(a) == {Change(a, p) : p \in {q \in W.proposals[a] : q.after # Known(a)}}

\* OpenTofu proposes a change for some of the addresses.
Plan ==
  /\ step = "observed"
  /\ \E touched \in SUBSET DOMAIN W.proposals :
       \E plan \in {{f[a] : a \in touched} :
                      f \in {g \in [touched -> UNION {Proposed(a) : a \in touched}] :
                               \A a \in touched : g[a] \in Proposed(a)}} :
         run' = [run EXCEPT !.plan = plan]
  /\ step' = "planned"
  /\ UNCHANGED <<world, live, managed, catalog, evidence>>

\* The reviewed inputs of Build: acknowledgements, and an analysis that may
\* be about another plan or another pull request, or cover less.
Analyses ==
  IF Destructive(run.plan) = {} /\ ~W.needless THEN {Absent}
  ELSE {Absent} \cup [plan : {run.plan, {}}, reference : {"pr"},
                      covers : {Destructive(run.plan), {}}]

Build ==
  /\ step = "planned"
  /\ \E i \in W.identities, risk, destructive \in BOOLEAN, analysis \in Analyses :
       evidence' = Document(i, risk, destructive, analysis)
  /\ evidence' # Absent
  /\ step' = "built"
  /\ UNCHANGED <<world, live, managed, catalog, run>>

Verify ==
  /\ step = "built"
  /\ \E at \in W.hours : Authenticated(evidence, Expected, at)
  /\ step' = "verified"
  /\ UNCHANGED <<world, live, managed, catalog, run, evidence>>

\* OpenTofu may fail anywhere: any part of the plan takes effect.
Apply ==
  /\ step = "verified"
  /\ \E done \in SUBSET PlanWrites(run.plan) :
       LET after == [a \in Addresses |->
                       IF \E c \in done : <<c.type, c.key>> = a
                       THEN (CHOOSE c \in done : <<c.type, c.key>> = a).after ELSE live[a]]
       IN /\ Accepts(live, after)
          /\ live' = after
          /\ managed' = {a \in managed \cup run.imports \cup {<<c.type, c.key>> : c \in done} :
                          after[a] # Absent}
  /\ step' = "idle" /\ run' = Absent /\ evidence' = Absent
  /\ UNCHANGED <<world, catalog>>

\* A run that is refused anywhere, or gives up, leaves GitHub alone.
Abandon ==
  /\ step # "idle"
  /\ step' = "idle" /\ run' = Absent /\ evidence' = Absent
  /\ UNCHANGED <<world, live, managed, catalog>>

Next ==
  \/ Merge \/ Edit \/ Plan \/ Build \/ Verify \/ Apply \/ Abandon
  \/ \E phase \in Phases : Observe(phase)

Spec == Init /\ [][Next]_vars

-----------------------------------------------------------------------------
(* Properties. *)

Applies == step = "verified" /\ step' = "idle"

(***************************************************************************)
(* What a resource lets somebody do, and what it protects, said without    *)
(* the classes: sets that grow with authority and with protection.         *)
(***************************************************************************)
UpTo(name, rank) == {<<name, n>> : n \in 0..rank}

Rights(type, r) ==
  IF r = Absent THEN {}
  ELSE {<<"exists", 0>>}
       \cup UpTo("access", AccessRank(Get(r, "role")))
       \cup UpTo("access", AccessRank(Get(r, "permission")))
       \cup UpTo("audience", VisibilityRank(Get(r, "visibility")))
       \cup UpTo("sharing", AccessLevelRank(Get(r, "access_level")))
       \cup {<<f, 0>> : f \in Flags(r) \cap AllowFlags}
       \cup When(type = "github_repository" /\ "archived" \notin Flags(r), <<"active", 0>>)
       \cup When(Get(r, "privacy") = "closed", <<"discoverable", 0>>)
       \cup IF type = "github_actions_environment_variable" THEN {<<"handoff", r.value>>} ELSE {}

\* What an allow-list of actions admits.  Only lists are compared: where every
\* action was allowed, or only those of the organization, there is no list, and
\* a first one is a routine write, whatever it admits.
Admitted(r) == Listed(r, "patterns_allowed")
Trusted(r)  == Flags(r) \cap {"github_owned_allowed", "verified_allowed"}

Protections(r) ==
  IF r = Absent THEN {}
  ELSE UpTo("enforced", EnforcementRank(Get(r, "enforcement")))
       \cup UpTo("approvals", Approvals(r))
       \cup {<<f, 0>> : f \in Flags(r) \cap
              {"deletion", "update", "creation", "required_signatures", "prevent_self_review",
               "sha_pinning_required", "web_commit_signoff_required", "required",
               "non_fast_forward", "required_linear_history"}}
       \cup {<<"covers", i>> : i \in Listed(r, "include")}
       \cup {<<"scans", i>> : i \in Listed(r, "status")}
       \cup {<<"checks", i>> : i \in UNION {b.checks : b \in Listed(r, "required_status_checks")}}
       \cup When(Reviewers(r) # {}, <<"reviewed", 0>>)
       \cup When(Get(r, "deployment_branch_policy") # Absent, <<"branches", 0>>)
       \cup When(Get(r, "values_editable_by") = "org_actors", <<"governed", 0>>)

\* Ways around a protection.
Openings(r) ==
  IF r = Absent THEN {}
  ELSE {<<f, 0>> : f \in Flags(r) \cap {"can_admins_bypass", "can_approve_pull_request_reviews"}}
       \cup {<<"approves", t>> : t \in Reviewers(r)}
       \cup {<<"bypasses", b>> : b \in Listed(r, "bypass_actors")}
       \cup {<<"skips", e>> : e \in Listed(r, "exclude")}
       \cup When(Get(r, "enabled_repositories") = "all", <<"everywhere", 0>>)
       \cup When(Get(r, "allowed_actions") = "all", <<"everything", 0>>)
       \cup When(Get(r, "default_workflow_permissions") = "write", <<"writes", 0>>)

\* The records are what the steps say they are: an observation is kept while
\* a run lasts, and evidence is of that run's plan.
PlanTypeOK ==
  /\ world \in WorldNames
  /\ DOMAIN live = Addresses
  /\ step \in {"idle", "observed", "planned", "built", "verified"}
  /\ step = "idle" => run = Absent
  /\ step \in {"idle", "observed", "planned"} => evidence = Absent
  /\ step \in {"built", "verified"} =>
       evidence # Absent /\ evidence.plan = run.plan /\ evidence.phase = run.phase
  /\ step = "verified" => evidence.eligible

(***************************************************************************)
(* An adoption changes nothing on GitHub, whatever was planned for it and  *)
(* acknowledged, also while the resources it imports are being changed by  *)
(* hand: it only moves what exists into the state.                         *)
(***************************************************************************)
AdoptChangesNothing ==
  [][Applies /\ run.phase = "adopt" => \A a \in Addresses : live'[a] = live[a]]_vars

(***************************************************************************)
(* No part of an applied plan gives anybody more than they had unless the  *)
(* dispatcher acknowledged a privilege expansion for that very plan        *)
(* (README.md:296), however the plan came about and wherever the apply     *)
(* stops.                                                                  *)
(***************************************************************************)
RightsGrowAcknowledged ==
  [][Applies => \/ evidence.risk
                \/ \A a \in Addresses :
                     /\ Rights(a[1], live'[a]) \subseteq Rights(a[1], live[a])
                     /\ HoldLists(live[a], live'[a]) =>
                          Admitted(live'[a]) \subseteq Admitted(live[a])]_vars

(***************************************************************************)
(* A managed resource that stays never protects less after an apply, and   *)
(* gets no new way around its protection: such a plan is never eligible    *)
(* (SECURITY.md:51), whatever the catalog says and whoever acknowledges.   *)
(***************************************************************************)
ProtectionsHold ==
  [][Applies => \A a \in managed \cup run.imports : live[a] # Absent /\ live'[a] # Absent =>
       /\ Protections(live[a]) \subseteq Protections(live'[a])
       /\ Openings(live'[a]) \subseteq Openings(live[a])
       /\ HoldLists(live[a], live'[a]) => Trusted(live'[a]) \subseteq Trusted(live[a])]_vars

(***************************************************************************)
(* No repository becomes public, not even under the founder exception that *)
(* exempts public visibility from the prohibited classes: its exact estate *)
(* wants every repository private or internal.                             *)
(***************************************************************************)
NothingGoesPublic ==
  [][Applies => \A a \in Addresses :
       Get(live'[a], "visibility") = "public" => Get(live[a], "visibility") = "public"]_vars

(***************************************************************************)
(* Whatever disappears from GitHub was acknowledged and analysed for this  *)
(* plan, it leaves alone (no other resource is written by the same apply), *)
(* and it is an access grant the catalog dropped or a resource it retires. *)
(***************************************************************************)
RemovalsAreReviewed ==
  [][Applies => \A a \in Addresses : live[a] # Absent /\ live'[a] = Absent =>
       /\ evidence.acknowledged /\ evidence.analysis # Absent
       /\ evidence.analysis.covers = Destructive(run.plan)
       /\ a[1] \in AccessTypes \cup RetirableTypes
       /\ \A b \in Addresses : live'[b] # live[b] => live'[b] = Absent]_vars

(***************************************************************************)
(* While a custom property migrates over several rollouts, with hand edits *)
(* and half-finished applies between, no repository is ever left holding a *)
(* value that the organization no longer defines.                          *)
(***************************************************************************)
NoOrphan(state) ==
  \A a \in DOMAIN state : a[1] = "github_repository_custom_property" /\ state[a] # Absent =>
    LET d == <<"github_organization_custom_properties", <<a[2][2]>>>>
    IN d \in DOMAIN state /\ state[d] # Absent =>
         state[a].property_value \subseteq state[d].allowed_values
MigrationNeverOrphans == NoOrphan(live)

\* What the catalog cat wants a repository to hold at the address a.
Wanted(cat, a) ==
  LET r == a[2][1]
      p == a[2][2]
  IN IF r \in DOMAIN cat.repositories /\ p \in DOMAIN cat.repositories[r].properties
     THEN cat.repositories[r].properties[p] ELSE {}

\* What repositories hold at a from the beginning, or by hand.
HeldAt(w, a) ==
  {World[w].live[a]} \cup IF a \in DOMAIN World[w].edits THEN World[w].edits[a] ELSE {}

\* Every value a repository may hold at a, if the catalogs cats were applied.
Circulating(w, cats, a) ==
  UNION ({Wanted(cat, a) : cat \in cats} \cup {Listed(r, "property_value") : r \in HeldAt(w, a)})

ValueAddresses(w) == {a \in DOMAIN World[w].live : a[1] = "github_repository_custom_property"}

\* A catalog allows what it assigns; in the preserve phase it allows every value
\* in circulation or lists it as a legacy one, and later it assigns each value
\* that a repository holds.
Keeps(w, cat, cats) ==
  \A a \in ValueAddresses(w) : a[2][2] \in DOMAIN cat.properties =>
    /\ Wanted(cat, a) \subseteq cat.properties[a[2][2]].allowed
    /\ IF cat.migration.phase = "retire"
       THEN /\ a[2][1] \in DOMAIN cat.repositories
            /\ a[2][2] \in DOMAIN cat.repositories[a[2][1]].properties
       ELSE Circulating(w, cats, a) \subseteq
              cat.properties[a[2][2]].allowed
              \cup IF a[2][2] \in DOMAIN cat.migration.legacy THEN cat.migration.legacy[a[2][2]] ELSE {}

(***************************************************************************)
(* What reviewers owe a migration, because no code demands it: catalogs    *)
(* keep legacy values in circulation (the first ones those that were there *)
(* before), nobody edits a definition by hand, and nobody a value while a  *)
(* run is under way.                                                       *)
(***************************************************************************)
LegacyKept(w) ==
  /\ NoOrphan(World[w].live)
  /\ \A cat \in World[w].initial : Keeps(w, cat, World[w].initial)
  /\ \A cat \in World[w].catalogs : Keeps(w, cat, World[w].initial \cup World[w].catalogs)
  /\ \A a \in DOMAIN World[w].edits :
       /\ a[1] # "github_organization_custom_properties"
       /\ a[1] = "github_repository_custom_property" => "observed" \notin World[w].editable

(***************************************************************************)
(* After any apply of a rollout past adoption there are still as many      *)
(* distinct human administrators as the catalog demands, or it was a       *)
(* foundation under the founder exception: people are counted when the run *)
(* starts, and nothing the run may do then removes one of them.            *)
(***************************************************************************)
LiveAdminPrincipals ==
  {run.catalog.principals[l] :
     l \in {m \in DOMAIN run.catalog.members :
              Get(live'[<<"github_membership", <<m>>>>], "role") = "admin"}}
AdminQuorumSurvives ==
  [][Applies /\ run.phase # "adopt"
       /\ ~FounderQualified(run.catalog, run.observed, run.phase, W.today) =>
       Cardinality(LiveAdminPrincipals) >= run.catalog.minimum_admins]_vars

\* What the count above is worth: nobody changes a membership by hand between
\* the observation it was taken from and the apply.
PeopleLeftAlone(w) ==
  \A a \in DOMAIN World[w].edits :
    a[1] = "github_membership" => "observed" \notin World[w].editable

\* What only the verifier looks at: the workflow of a run under the founder
\* exception, and the numbers that the ids of the two applications spell.
VerifierOnly(e) ==
  /\ Protected(e.bindings)
  /\ \/ e.founder # Absent /\ e.bindings.workflow # MainWorkflow
     \/ e.bindings.plan_app.number = e.bindings.apply_app.number

(***************************************************************************)
(* Build and the verifier agree but for two demands that only the verifier *)
(* makes: the founder exception is used from the workflow on main          *)
(* (plan_evidence.go:816), and the two applications have different         *)
(* numbers, not only different texts (716 against 1034).  Every other      *)
(* document that Build emits is accepted as a document, so that no other   *)
(* reviewed plan is stranded by its own evidence; and no verified document *)
(* lives longer than a window.                                             *)
(***************************************************************************)
EvidenceRoundTrips ==
  /\ step = "built" => (ValidDocument(evidence) <=> ~VerifierOnly(evidence))
  /\ step = "verified" => ValidWindow(evidence.bindings)
=============================================================================
