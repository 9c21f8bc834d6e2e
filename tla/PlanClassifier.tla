--------------------------- MODULE PlanClassifier ---------------------------
(***************************************************************************)
(* How the plan-evidence compiler classifies one OpenTofu plan             *)
(* (src/compiler/internal/evidence/plan_evidence.go): each resource change *)
(* gets a set of classes, from its action, from the managed write          *)
(* contract, from the match of its after-state with the compiled catalog   *)
(* and with the observed organization, and from the fields that change.    *)
(* The module is pure: PlanEvidence runs it inside the workflow.           *)
(*                                                                         *)
(* A change is a record                                                    *)
(*   [type, key, canonical, action, before, after, unknown].  The address  *)
(* is split into the resource type, the for_each key (a tuple) and         *)
(* "canonical": the rest of the address is the module path that governs    *)
(* the type.  before and after are Absent or a record of provider          *)
(* arguments: "of" is the object the identity arguments name, "on" the set *)
(* of boolean arguments that are true, "status" the enabled security       *)
(* controls, and block lists are sets.  unknown says which after-values    *)
(* the provider leaves unknown: "none", "computed" ones only, or "other".  *)
(* A context x is [catalog, observed, phase, uses], where observed.state   *)
(* maps an address <<type, key>> to what GitHub holds there and uses is    *)
(* the set of action pins <<source, commit>> the workflow files call.      *)
(***************************************************************************)
EXTENDS Integers, FiniteSets

CONSTANT Absent    \* no object, no block, no value

ASSUME AbsentAssumption == Absent \notin {"private", "internal", "public"}

FundamentalClasses ==
  {"administrative_grant", "actions_policy_expansion", "destructive", "authority_replacement",
   "direct_collaborator", "environment_bypass", "oidc_mutation", "protection_weakening",
   "public_visibility", "replacement", "security_weakening", "state_forget",
   "unknown_action", "unknown_change"}

\* Types whose deletion only takes access away.
AccessTypes == {"github_membership", "github_team_membership", "github_team_repository",
                "github_repository_collaborator"}

RetirableTypes ==
  {"github_actions_environment_variable", "github_repository_environment",
   "github_repository_environment_deployment_policy", "github_organization_ruleset",
   "github_repository_ruleset", "github_team"}

(***************************************************************************)
(* The exact argument surface the OpenTofu modules assign, by leaf name;   *)
(* identity arguments are "of".  Its domain is the write allowlist.        *)
(***************************************************************************)
ManagedPaths ==
  [github_actions_environment_variable |-> {"of", "value"},
   github_actions_organization_permissions |->
     {"of", "allowed_actions", "enabled_repositories", "sha_pinning_required",
      "github_owned_allowed", "patterns_allowed", "verified_allowed"},
   github_actions_organization_workflow_permissions |->
     {"of", "default_workflow_permissions", "can_approve_pull_request_reviews"},
   github_actions_organization_oidc_subject_claim_customization_template |->
     {"of", "include_claim_keys"},
   github_actions_repository_oidc_subject_claim_customization_template |->
     {"of", "use_default", "include_claim_keys"},
   github_actions_repository_access_level |-> {"of", "access_level"},
   github_membership |-> {"of", "role"},
   github_organization_custom_properties |->
     {"of", "value_type", "required", "allowed_values", "values_editable_by"},
   github_organization_role_team |-> {"of", "role_id"},
   github_organization_ruleset |->
     {"of", "target", "enforcement", "bypass_actors", "include", "exclude", "protected",
      "creation", "update", "deletion", "non_fast_forward", "required_linear_history",
      "required_signatures", "pull_request", "required_status_checks", "required_workflows"},
   github_organization_settings |-> {},
   github_repository |->
     {"of", "visibility", "archived", "archive_on_destroy", "delete_branch_on_merge",
      "allow_auto_merge", "allow_update_branch", "web_commit_signoff_required", "status"},
   github_repository_ruleset |->
     {"of", "enforcement", "bypass_actors", "include", "exclude", "merge_queue"},
   github_repository_collaborator |-> {"of", "permission", "permission_diff_suppression"},
   github_repository_custom_property |-> {"of", "property_type", "property_value"},
   github_repository_environment |->
     {"of", "can_admins_bypass", "prevent_self_review", "reviewers", "deployment_branch_policy"},
   github_repository_environment_deployment_policy |-> {"of", "branch_pattern", "tag_pattern"},
   github_team |-> {"of", "privacy"},
   github_team_membership |-> {"of", "team_id", "role"},
   github_team_repository |-> {"of", "team_id", "permission"}]

ManagedTypes == DOMAIN ManagedPaths

-----------------------------------------------------------------------------
(* Reading a change. *)

Get(r, f) == IF r = Absent THEN Absent ELSE IF f \in DOMAIN r THEN r[f] ELSE Absent
Listed(r, f) == IF Get(r, f) = Absent THEN {} ELSE r[f]
Flags(r)  == Listed(r, "on")

Old(c, f) == Get(c.before, f)
New(c, f) == Get(c.after, f)
Updates(c) == c.before # Absent /\ c.after # Absent
Differs(c) == c.before # c.after

\* A transition of a boolean needs a known boolean on both sides.
TurnedOn(c)  == IF Updates(c) THEN Flags(c.after) \ Flags(c.before) ELSE {}
TurnedOff(c) == IF Updates(c) THEN Flags(c.before) \ Flags(c.after) ELSE {}

\* Elements a list gains, or loses, when both sides hold a list.
Gained(c, f) == IF Old(c, f) = Absent \/ New(c, f) = Absent THEN {} ELSE New(c, f) \ Old(c, f)
Lost(c, f)   == IF Old(c, f) = Absent \/ New(c, f) = Absent THEN {} ELSE Old(c, f) \ New(c, f)

When(condition, class) == IF condition THEN {class} ELSE {}

\* Every argument path the change touches, on create all that are set.
ChangedPaths(c) ==
  {f \in (DOMAIN c.after \cup (IF c.before = Absent THEN {} ELSE DOMAIN c.before)) \ {"on"} :
     Old(c, f) # New(c, f)}
  \cup (Flags(c.after) \ Flags(c.before)) \cup (Flags(c.before) \ Flags(c.after))

\* Only values the provider computes may be unknown, and only on create: an
\* update that forgets one changes a path outside the contract.
UnknownsAllowed(c) == c.unknown = "none" \/ (c.unknown = "computed" /\ c.action = "create")

ChangedFieldsAllowed(c) ==
  /\ c.type \in ManagedTypes
  /\ c.after # Absent
  /\ c.action = "update" => c.before # Absent
  /\ UnknownsAllowed(c)
  /\ ChangedPaths(c) \subseteq ManagedPaths[c.type]

-----------------------------------------------------------------------------
(* Orders the rules compare by; an unset or unknown value ranks below all. *)

AccessRank(v) ==
  CASE v \in {"none"} -> 0 [] v \in {"read", "pull", "member"} -> 1
    [] v \in {"triage", "maintainer"} -> 2 [] v \in {"write", "push"} -> 3
    [] v = "maintain" -> 4 [] v = "admin" -> 5 [] OTHER -> -1
VisibilityRank(v) ==
  CASE v = "private" -> 0 [] v = "internal" -> 1 [] v = "public" -> 2 [] OTHER -> -1
EnforcementRank(v) ==
  CASE v = "disabled" -> 0 [] v = "evaluate" -> 1 [] v = "active" -> 2 [] OTHER -> -1
AccessLevelRank(v) == CASE v = "none" -> 0 [] v = "organization" -> 1 [] OTHER -> -1
ClassificationRank(v) ==
  CASE v = "public" -> 0 [] v = "internal" -> 1 [] v = "confidential" -> 2
    [] v = "restricted" -> 3 [] OTHER -> -1
CriticalityRank(v) ==
  CASE v = "low" -> 0 [] v = "medium" -> 1 [] v = "high" -> 2 [] v = "critical" -> 3
    [] OTHER -> -1

\* Boolean arguments whose name marks a protection.
ProtectiveFlags ==
  {"required", "sha_pinning_required", "required_linear_history", "required_signatures",
   "require_code_owner_review", "require_last_push_approval", "dismiss_stale_reviews_on_push",
   "required_review_thread_resolution", "protected", "prevent_self_review", "non_fast_forward",
   "deletion", "update", "allow_update_branch", "web_commit_signoff_required"}
AllowFlags == {"allow_auto_merge", "allow_update_branch"}

-----------------------------------------------------------------------------
(* What GitHub held when the organization was observed. *)

Held(o, type, key) == IF <<type, key>> \in DOMAIN o.state THEN o.state[<<type, key>>] ELSE Absent

\* The numeric identity of a team stands for the team; it is known once the
\* team was observed.
ObservedTeamID(o, team) == IF Held(o, "github_team", <<team>>) = Absent THEN Absent ELSE team

ObservedRulesetEnforcement(o, type, key) ==
  LET e == Get(Held(o, type, key), "enforcement")
  IN IF e \in {"disabled", "evaluate", "active"} THEN e ELSE "disabled"

-----------------------------------------------------------------------------
(* The after-state a compiled catalog allows, type by type. *)

Agrees(c, expected) == \A f \in DOMAIN expected : New(c, f) = expected[f]

\* Membership, team membership and team access: one exact grant of the
\* catalog, through the observed identity of its team.
CatalogAccess(c, x) ==
  LET k == c.key
      cat == x.catalog
      teamOK(team) == /\ ObservedTeamID(x.observed, team) # Absent
                      /\ New(c, "team_id") = ObservedTeamID(x.observed, team)
  IN /\ c.canonical
     /\ New(c, "of") = k
     /\ CASE c.type = "github_membership" ->
               k[1] \in DOMAIN cat.members /\ New(c, "role") = cat.members[k[1]]
          [] c.type = "github_team_membership" ->
               /\ k[1] \in DOMAIN cat.teams
               /\ k[2] \in DOMAIN cat.teams[k[1]].members
               /\ New(c, "role") = cat.teams[k[1]].members[k[2]]
               /\ teamOK(k[1])
          [] c.type = "github_team_repository" ->
               /\ k[1] \in DOMAIN cat.repositories
               /\ k[2] \in DOMAIN cat.teams \cap DOMAIN cat.repositories[k[1]].grants
               /\ New(c, "permission") = cat.repositories[k[1]].grants[k[2]]
               /\ teamOK(k[2])

CatalogRepositoryProperty(c, x) ==
  LET r == c.key[1]
      p == c.key[2]
      cat == x.catalog
  IN /\ c.canonical
     /\ r \in DOMAIN cat.repositories
     /\ p \in DOMAIN cat.repositories[r].properties \cap DOMAIN cat.properties
     /\ Agrees(c, [of |-> c.key, property_value |-> cat.repositories[r].properties[p]])

CatalogActionsAccess(c, x) ==
  /\ c.canonical
  /\ c.key[1] \in DOMAIN x.catalog.repositories
  /\ Agrees(c, [of |-> c.key, access_level |-> x.catalog.repositories[c.key[1]].access_level])

\* Every repository the catalog governs is live, no other is, and each
\* property the catalog assigns is observed at its desired value.
AssignmentsConverged(cat, o) ==
  /\ DOMAIN cat.repositories # {}
  /\ o.repositories = DOMAIN cat.repositories
  /\ \A r \in DOMAIN cat.repositories : \A p \in DOMAIN cat.repositories[r].properties :
       Get(Held(o, "github_repository_custom_property", <<r, p>>), "property_value")
         = cat.repositories[r].properties[p]

\* Mutant: the definition contracts at once.
EffectiveAllowedValuesContracted(cat, p) == cat.properties[p].allowed

\* While the migration preserves, the legacy values stay allowed.
EffectiveAllowedValues(cat, p) ==
  cat.properties[p].allowed
  \cup IF cat.migration.phase = "preserve" /\ p \in DOMAIN cat.migration.legacy
       THEN cat.migration.legacy[p] ELSE {}

CatalogOrganizationProperty(c, x) ==
  LET p == c.key[1]
      cat == x.catalog
  IN /\ c.canonical
     /\ cat.migration.phase = "retire" => AssignmentsConverged(cat, x.observed)
     /\ p \in DOMAIN cat.properties
     /\ Agrees(c, [of |-> c.key, allowed_values |-> EffectiveAllowedValues(cat, p),
                   values_editable_by |-> cat.properties[p].editable_by,
                   on |-> cat.properties[p].on])

CatalogTeam(c, x) ==
  /\ c.canonical
  /\ c.key[1] \in DOMAIN x.catalog.teams
  /\ Agrees(c, [of |-> c.key, privacy |-> x.catalog.teams[c.key[1]].privacy])

CatalogRepository(c, x) ==
  LET r == c.key[1]
      repo == x.catalog.repositories[r]
  IN /\ c.canonical
     /\ r \in DOMAIN x.catalog.repositories
     /\ Agrees(c, [of |-> c.key, visibility |-> repo.visibility, on |-> repo.on,
                   status |-> repo.security])

\* A handoff variable exists only for an environment whose activation is ready.
CatalogEnvironmentVariable(c, x) ==
  LET e == c.key[1]
      env == x.catalog.environments[e]
  IN /\ c.canonical
     /\ e \in DOMAIN x.catalog.environments
     /\ env.ready
     /\ c.key[2] \in env.repositories \cap DOMAIN x.catalog.repositories
     /\ c.key[3] \in DOMAIN env.variables
     /\ Agrees(c, [of |-> c.key, value |-> env.variables[c.key[3]]])

\* Exactly one of the two patterns is set: <<"branch" or "tag", pattern>>.
PolicyPattern(r) ==
  IF (Get(r, "branch_pattern") = Absent) = (Get(r, "tag_pattern") = Absent) THEN Absent
  ELSE IF Get(r, "branch_pattern") # Absent THEN <<"branch", r.branch_pattern>>
  ELSE <<"tag", r.tag_pattern>>

CatalogDeploymentPolicy(c, x) ==
  LET e == c.key[1]
      env == x.catalog.environments[e]
  IN /\ c.canonical
     /\ e \in DOMAIN x.catalog.environments
     /\ c.key[2] \in env.repositories \cap DOMAIN x.catalog.repositories
     /\ <<c.key[3], c.key[4]>> \in env.patterns
     /\ PolicyPattern(c.after) = <<c.key[3], c.key[4]>>
     /\ New(c, "of") = c.key

CatalogEnvironment(c, x) ==
  LET e == c.key[1]
      env == x.catalog.environments[e]
  IN /\ c.canonical
     /\ e \in DOMAIN x.catalog.environments
     /\ c.key[2] \in env.repositories \cap DOMAIN x.catalog.repositories
     /\ Agrees(c, [of |-> c.key, on |-> env.on, deployment_branch_policy |-> env.branch_policy])
     /\ \A t \in env.reviewers : ObservedTeamID(x.observed, t) # Absent
     /\ New(c, "reviewers") = env.reviewers

\* A logical ruleset is split into physical ones, one for each role that its
\* target has.
RulesetRoleAllowed(role, ruleset) ==
  CASE role \in {"integrity", "pr_governance", "required_workflow"} -> ruleset.target = "branch"
    [] role = "creator_gate" -> ruleset.target = "tag" /\ "creation_restricted" \in ruleset.on
    [] role = "immutability" -> ruleset.target = "tag"
    [] OTHER -> FALSE

\* The rules the physical ruleset of one role carries.
PhysicalRules(ruleset, role, phase) ==
  [on |-> {"protected"} \cup
      CASE role = "immutability" -> ruleset.on \cap {"update", "deletion", "non_fast_forward"}
        [] role = "creator_gate" -> When(phase = "enforce", "creation")
        [] role = "integrity" -> ruleset.on \cap {"deletion", "non_fast_forward",
                                   "required_linear_history", "required_signatures"}
        [] OTHER -> {},
   pull_request |-> IF role = "pr_governance" THEN ruleset.pull_request ELSE Absent,
   required_status_checks |-> IF role = "required_workflow" THEN ruleset.checks ELSE {},
   required_workflows |-> IF role = "required_workflow" THEN ruleset.workflows ELSE {}]

\* A required workflow is named by the observed identity of its repository.
PhysicalRulesKnown(ruleset, role, o) ==
  role = "required_workflow" =>
    \A w \in ruleset.workflows : Held(o, "github_repository", <<w.repository>>) # Absent

\* Who may bypass it: reviewed teams on the pull-request rules, and from
\* enforcement on the creator integrations on the tag gate.
PhysicalActors(ruleset, role, phase) ==
  CASE role = "pr_governance" -> ruleset.bypass_teams
    [] role = "creator_gate" /\ phase = "enforce" -> ruleset.creators
    [] OTHER -> {}

PhysicalActorsKnown(ruleset, role, phase, o) ==
  \A a \in PhysicalActors(ruleset, role, phase) :
    IF role = "pr_governance" THEN ObservedTeamID(o, a) # Absent ELSE a \in o.integrations

CatalogRuleset(c, x) ==
  LET ruleset == x.catalog.rulesets[c.key[1]]
      role == c.key[2]
      enforcement == CASE x.phase = "adopt" ->
                            ObservedRulesetEnforcement(x.observed, c.type, c.key)
                       [] x.phase = "foundation" -> "evaluate"
                       [] OTHER -> ruleset.enforcement
  IN /\ c.canonical
     /\ c.key[1] \in DOMAIN x.catalog.rulesets
     /\ RulesetRoleAllowed(role, ruleset)
     /\ ruleset.repositories \subseteq DOMAIN x.catalog.repositories
     /\ PhysicalRulesKnown(ruleset, role, x.observed)
     /\ PhysicalActorsKnown(ruleset, role, x.phase, x.observed)
     /\ Agrees(c, [of |-> c.key, target |-> ruleset.target, enforcement |-> enforcement,
                   bypass_actors |-> PhysicalActors(ruleset, role, x.phase),
                   include |-> ruleset.repositories \cup ruleset.include,
                   exclude |-> ruleset.exclude])
     /\ Agrees(c, PhysicalRules(ruleset, role, x.phase))

\* The merge queue of one repository stays disabled until enforcement.
CatalogRepositoryRuleset(c, x) ==
  LET ruleset == x.catalog.rulesets[c.key[1]]
      enforcement == CASE x.phase = "adopt" ->
                            ObservedRulesetEnforcement(x.observed, c.type, c.key)
                       [] x.phase = "foundation" -> "disabled"
                       [] OTHER -> ruleset.enforcement
  IN /\ c.canonical
     /\ c.key[1] \in DOMAIN x.catalog.rulesets
     /\ ruleset.target = "branch"
     /\ "merge_queue" \in ruleset.on
     /\ c.key[2] \in ruleset.repositories \cap DOMAIN x.catalog.repositories
     /\ Agrees(c, [of |-> c.key, enforcement |-> enforcement, bypass_actors |-> {},
                   include |-> ruleset.include, exclude |-> ruleset.exclude,
                   merge_queue |-> TRUE])

CatalogActions(c, x) ==
  LET policy == x.catalog.actions
  IN /\ c.canonical
     /\ IF c.type = "github_actions_organization_workflow_permissions"
        THEN Agrees(c, [of |-> c.key, default_workflow_permissions |-> policy.default_permissions,
                        on |-> policy.on \cap {"can_approve_pull_request_reviews"}])
        ELSE /\ Agrees(c, [allowed_actions |-> policy.mode,
                           enabled_repositories |-> policy.enabled_repositories])
             /\ "sha_pinning_required" \in Flags(c.after)
                  <=> "sha_pinning_required" \in policy.on
             /\ IF policy.mode # "selected" THEN New(c, "patterns_allowed") = Absent
                ELSE /\ Flags(c.after) = policy.on \ {"can_approve_pull_request_reviews"}
                     /\ policy.pins # {}
                     /\ New(c, "patterns_allowed") = policy.pins

-----------------------------------------------------------------------------
(* Whether the catalog and the observation justify one special mutation. *)

\* The actions that keep their pin set but move some pins, each to the commit
\* the catalog names and every workflow file already calls.
Pinned(pins) == \A p, q \in pins : p[1] = q[1] => p = q
Sources(pins) == {p[1] : p \in pins}

PinRotation(c, x) ==
  LET was == Old(c, "patterns_allowed")
      is  == New(c, "patterns_allowed")
  IN /\ c.type = "github_actions_organization_permissions"
     /\ was # Absent /\ is # Absent
     /\ was # {} /\ is = x.catalog.actions.pins
     /\ Pinned(was) /\ Pinned(is)
     /\ Sources(was) = Sources(is)
     /\ is \ was # {}
     /\ \A p \in is \ was : {u[2] : u \in {v \in x.uses : v[1] = p[1]}} = {p[2]}

OIDCMatchesCatalog(c, x) ==
  LET policy == x.catalog.oidc
  IN /\ c.after # Absent
     /\ ~policy.use_default /\ policy.immutable /\ policy.claims # {}
     /\ New(c, "include_claim_keys") = policy.claims
     /\ "use_default" \notin Flags(c.after)
     /\ c.canonical
     /\ c.type = "github_actions_repository_oidc_subject_claim_customization_template" =>
          New(c, "of") = c.key /\ c.key[1] \in DOMAIN x.catalog.repositories

OutsideCollaboratorGrant(c, x) ==
  /\ c.after # Absent
  /\ "permission_diff_suppression" \notin Flags(c.after)
  /\ c.canonical
  /\ New(c, "of") = c.key
  /\ c.key \in DOMAIN x.catalog.outside
  /\ New(c, "permission") = x.catalog.outside[c.key]

SecurityManagerAssignment(c, x) ==
  /\ c.canonical
  /\ c.after # Absent
  /\ x.observed.security_manager_roles = {New(c, "role_id")}
  /\ New(c, "of") = <<x.catalog.security_manager_team>>

(***************************************************************************)
(* An access deletion is a revocation only if the deleted grant is the one *)
(* observed, and the catalog no longer wants any grant for that subject.   *)
(***************************************************************************)
RevocationAllowed(c, x) ==
  LET k == c.key
      cat == x.catalog
      held == Held(x.observed, c.type, k)
      sameTeam(team) == /\ ObservedTeamID(x.observed, team) # Absent
                        /\ Old(c, "team_id") = ObservedTeamID(x.observed, team)
  IN /\ c.canonical
     /\ Old(c, "of") = k
     /\ CASE c.type = "github_membership" ->
               /\ Old(c, "role") \in {"member", "admin"}
               /\ k[1] \notin DOMAIN cat.members
               /\ Get(held, "role") = Old(c, "role")
          [] c.type = "github_team_membership" ->
               /\ Old(c, "role") \in {"member", "maintainer"}
               /\ k[1] \in DOMAIN cat.teams
               /\ k[2] \notin DOMAIN cat.teams[k[1]].members
               /\ sameTeam(k[1])
               /\ Get(held, "role") = Old(c, "role")
          [] c.type = "github_team_repository" ->
               /\ k[1] \in DOMAIN cat.repositories
               /\ k[2] \in DOMAIN cat.teams
               /\ k[2] \notin DOMAIN cat.repositories[k[1]].grants
               /\ sameTeam(k[2])
               /\ Get(held, "permission") = Old(c, "permission")
          [] c.type = "github_repository_collaborator" ->
               /\ k[2] \in DOMAIN cat.repositories
               /\ k \notin DOMAIN cat.outside
               /\ Get(held, "permission") = Old(c, "permission")

\* The catalog address a retirement may delete.
Retires(c) == c.type \in RetirableTypes /\ c.canonical

-----------------------------------------------------------------------------
(* The classes of a change. *)

ActionClasses(c) ==
  CASE c.action = "delete" ->
         {IF c.type \in AccessTypes THEN "permission_reduction"
          ELSE IF Retires(c) THEN "governed_retirement" ELSE "destructive"}
    [] c.action = "replace" -> {"replacement"}
    [] c.action = "forget"  -> {"state_forget"}
    [] c.action = "create"  -> {"privilege_expansion"}
    [] c.action = "update"  -> {}
    [] OTHER -> {"unknown_action"}

Writes == {"create", "update"}

ContractClasses(c) ==
  When(\/ c.action \notin Writes /\ c.unknown = "other"
       \/ c.type \notin ManagedTypes
       \/ c.action \in Writes /\ ~ChangedFieldsAllowed(c), "unknown_change")

CatalogTypes == ManagedTypes \
  {"github_organization_settings", "github_organization_role_team", "github_repository_collaborator",
   "github_actions_organization_oidc_subject_claim_customization_template",
   "github_actions_repository_oidc_subject_claim_customization_template"}

MatchesCatalog(c, x) ==
  CASE c.type \in AccessTypes -> CatalogAccess(c, x)
    [] c.type = "github_repository_custom_property" -> CatalogRepositoryProperty(c, x)
    [] c.type = "github_organization_custom_properties" -> CatalogOrganizationProperty(c, x)
    [] c.type = "github_repository_environment" -> CatalogEnvironment(c, x)
    [] c.type = "github_repository_environment_deployment_policy" -> CatalogDeploymentPolicy(c, x)
    [] c.type = "github_actions_environment_variable" -> CatalogEnvironmentVariable(c, x)
    [] c.type = "github_actions_repository_access_level" -> CatalogActionsAccess(c, x)
    [] c.type = "github_team" -> CatalogTeam(c, x)
    [] c.type = "github_repository" -> CatalogRepository(c, x)
    [] c.type = "github_organization_ruleset" -> CatalogRuleset(c, x)
    [] c.type = "github_repository_ruleset" -> CatalogRepositoryRuleset(c, x)
    [] OTHER -> CatalogActions(c, x)

\* A written after-state differs from every one the catalog allows.
CatalogClasses(c, x) ==
  IF c.action \in Writes /\ Differs(c) /\ c.type \in CatalogTypes /\ ~MatchesCatalog(c, x)
  THEN {IF c.type \in AccessTypes THEN "administrative_grant" ELSE "unknown_change"}
  ELSE {}

RevocationClasses(c, x) ==
  When(c.action = "delete" /\ c.type \in AccessTypes /\ ~RevocationAllowed(c, x),
       "authority_replacement")

AccessClasses(c, x) ==
  CASE c.type = "github_repository_collaborator" /\ c.action # "delete" ->
         {"privilege_expansion"} \cup When(~OutsideCollaboratorGrant(c, x), "direct_collaborator")
    [] c.type = "github_organization_role_team" /\ c.action # "delete" ->
         {"privilege_expansion"} \cup When(~SecurityManagerAssignment(c, x), "administrative_grant")
    [] OTHER -> {}

OIDCTypes == {"github_actions_organization_oidc_subject_claim_customization_template",
              "github_actions_repository_oidc_subject_claim_customization_template"}

OIDCClasses(c, x) ==
  IF c.type \notin OIDCTypes THEN {}
  ELSE LET authorized == c.action \notin {"delete", "replace", "forget"} /\ OIDCMatchesCatalog(c, x)
       IN When(authorized, "privilege_expansion")
          \cup When(/\ ~authorized
                    /\ \/ c.action \notin {"delete", "replace", "forget"}
                       \/ Old(c, "include_claim_keys") # New(c, "include_claim_keys"),
                    "oidc_mutation")

\* Administrator bypass or self-review of a protected environment, whether
\* the change opens it or the after-state merely has it.
EnvironmentGateClasses(c) ==
  When(/\ c.type \in {"github_repository_environment", "github_actions_environment_variable",
                      "github_repository_environment_deployment_policy"}
       /\ \/ "can_admins_bypass" \in TurnedOn(c)
          \/ "prevent_self_review" \in TurnedOff(c)
          \/ /\ c.type = "github_repository_environment"
             /\ c.action \in Writes
             /\ \/ "can_admins_bypass" \in Flags(c.after)
                \/ "prevent_self_review" \notin Flags(c.after),
       "environment_bypass")

ActionsAccessClasses(c) ==
  LET old == AccessLevelRank(Old(c, "access_level"))
      new == AccessLevelRank(New(c, "access_level"))
  IN IF c.type # "github_actions_repository_access_level" \/ c.action # "update" \/ ~Differs(c)
     THEN {}
     ELSE CASE old = -1 \/ new = -1 -> {"unknown_change"}
            [] old < new -> {"privilege_expansion"}
            [] old > new -> {"permission_reduction"}
            [] OTHER -> {}

\* Reviewers of an environment approve as alternatives: one more widens the
\* gate, the last one removed opens it, fewer narrow it.
Reviewers(r) == Listed(r, "reviewers")
ReviewerClasses(c) ==
  LET was == Reviewers(c.before)
      is  == Reviewers(c.after)
  IN CASE c.type # "github_repository_environment" \/ c.action \notin Writes -> {}
       [] c.after = Absent \/ (c.action = "update" /\ c.before = Absent) -> {"unknown_change"}
       [] c.action = "create" -> When(is = {}, "environment_bypass")
       [] OTHER -> When(is \ was # {} \/ (was # {} /\ is = {}), "environment_bypass")
                   \cup When(is # {} /\ is \subseteq was /\ is # was, "permission_reduction")

BranchPolicyClasses(c) ==
  LET was == Old(c, "deployment_branch_policy")
      is  == New(c, "deployment_branch_policy")
  IN When(/\ c.type = "github_repository_environment" /\ c.action \in Writes /\ c.after # Absent
          /\ IF c.action = "create" THEN is = Absent ELSE was # Absent /\ is # was,
          "environment_bypass")

DeploymentPolicyClasses(c) ==
  LET was == PolicyPattern(c.before)
      is  == PolicyPattern(c.after)
      applies == /\ c.type = "github_repository_environment_deployment_policy"
                 /\ c.action \in Writes /\ Differs(c)
  IN When(applies /\ (is = Absent \/ (c.action = "update" /\ was = Absent)), "unknown_change")
     \cup When(/\ applies /\ c.action = "update"
               /\ is = Absent \/ (was # Absent /\ is # was), "protection_weakening")

\* Moving a repository down a classification, or to another owner.
PropertySemanticClasses(c) ==
  LET was == CHOOSE v \in Old(c, "property_value") : TRUE
      is  == CHOOSE v \in New(c, "property_value") : TRUE
      single(v) == v # Absent /\ Cardinality(v) = 1
      name == c.after.of[2]
  IN CASE \/ c.type # "github_repository_custom_property"
          \/ c.action # "update" \/ ~Differs(c) -> {}
       [] \/ Old(c, "of") # New(c, "of")
          \/ ~single(Old(c, "property_value"))
          \/ ~single(New(c, "property_value")) -> {"unknown_change"}
       [] name = "data_classification" ->
            When(ClassificationRank(is) < ClassificationRank(was), "protection_weakening")
       [] name = "criticality" ->
            When(CriticalityRank(is) < CriticalityRank(was), "protection_weakening")
       [] name \in {"production_authority", "owner_team", "repository_class"} ->
            When(is # was, "protection_weakening")
       [] OTHER -> {}

-----------------------------------------------------------------------------
(***************************************************************************)
(* The rules on single fields, over every field that differs.  They see    *)
(* into a nested block only where both sides hold one.                     *)
(***************************************************************************)

AudienceClasses(c) ==
  When(VisibilityRank(New(c, "visibility")) > VisibilityRank(Old(c, "visibility")),
       "privilege_expansion")
  \cup When(New(c, "visibility") = "public" /\ Old(c, "visibility") # "public",
            "public_visibility")

Becomes(c, f, v) == New(c, f) = v /\ Old(c, f) # v

\* Both sides hold the block of an allow-list, with its pins and its flags.
HoldLists(r, s) == Get(r, "patterns_allowed") # Absent /\ Get(s, "patterns_allowed") # Absent

ActionsPolicyClasses(c, x) ==
  When(\/ Becomes(c, "enabled_repositories", "all")
       \/ Becomes(c, "allowed_actions", "all")
       \/ Old(c, "allowed_actions") = "selected" /\ New(c, "allowed_actions") = "local_only"
       \/ Becomes(c, "default_workflow_permissions", "write")
       \/ "can_approve_pull_request_reviews" \in TurnedOn(c)
       \/ /\ HoldLists(c.before, c.after)
          /\ TurnedOn(c) \cap {"github_owned_allowed", "verified_allowed"} # {}
       \/ Gained(c, "patterns_allowed") # {} /\ ~PinRotation(c, x),
       "actions_policy_expansion")
  \cup When(c.action = "update" /\ Becomes(c, "enabled_repositories", "none"), "destructive")
  \cup When(PinRotation(c, x), "privilege_expansion")

Approvals(r) == IF Get(r, "pull_request") = Absent THEN 0 ELSE r.pull_request.approvals

\* Mutant: the level of enforcement is not compared.
RulesetClassesAnyEnforcement(c) ==
  When(\/ Gained(c, "bypass_actors") # {}
       \/ Lost(c, "required_status_checks") # {}
       \/ Lost(c, "include") # {}
       \/ Gained(c, "exclude") # {}
       \/ "creation" \in TurnedOff(c)
       \/ Updates(c) /\ Approvals(c.after) < Approvals(c.before),
       "protection_weakening")

\* A ruleset that covers less, checks less, or lets more around it.
RulesetClasses(c) ==
  When(\/ Gained(c, "bypass_actors") # {}
       \/ Lost(c, "required_status_checks") # {}
       \/ Lost(c, "include") # {}
       \/ Gained(c, "exclude") # {}
       \/ /\ Updates(c)
          /\ \E w \in Listed(c.before, "required_workflows"),
                v \in Listed(c.after, "required_workflows") :
               ~w.late /\ v.late
       \/ "creation" \in TurnedOff(c)
       \/ Updates(c) /\ Approvals(c.after) < Approvals(c.before)
       \/ EnforcementRank(New(c, "enforcement")) < EnforcementRank(Old(c, "enforcement")),
       "protection_weakening")

\* Booleans that protect, in a block or not, and the security controls.
ProtectionClasses(c) ==
  When(\/ TurnedOff(c) \cap ProtectiveFlags # {}
       \/ /\ Old(c, "pull_request") # Absent /\ New(c, "pull_request") # Absent
          /\ (c.before.pull_request.on \ c.after.pull_request.on) \cap ProtectiveFlags # {}
       \/ /\ c.type = "github_organization_custom_properties"
          /\ Old(c, "values_editable_by") # New(c, "values_editable_by")
          /\ New(c, "values_editable_by") # "org_actors", "protection_weakening")
  \cup When(Updates(c) /\ Listed(c.before, "status") \ Listed(c.after, "status") # {},
            "security_weakening")

GrantClasses(c) ==
  LET rises(f) == AccessRank(New(c, f)) > AccessRank(Old(c, f))
  IN When(rises("role") \/ rises("permission"), "privilege_expansion")
     \cup When(Becomes(c, "role", "admin") \/ Becomes(c, "permission", "admin"),
               "administrative_grant")

CapabilityClasses(c) ==
  When(\/ c.type = "github_team" /\ Old(c, "privacy") = "secret" /\ New(c, "privacy") = "closed"
       \/ c.type = "github_repository" /\ c.action = "update" /\ "archived" \in TurnedOff(c)
       \/ TurnedOn(c) \cap AllowFlags # {}
       \/ c.type = "github_actions_environment_variable" /\ c.action # "delete" /\ Differs(c),
       "privilege_expansion")
  \cup When(c.type = "github_repository" /\ c.action = "update" /\ "archived" \in TurnedOn(c),
            "destructive")

Classes(c, x) ==
  LET found == ActionClasses(c) \cup ContractClasses(c) \cup CatalogClasses(c, x)
        \cup RevocationClasses(c, x) \cup AccessClasses(c, x) \cup OIDCClasses(c, x)
        \cup EnvironmentGateClasses(c) \cup ActionsAccessClasses(c) \cup ReviewerClasses(c)
        \cup BranchPolicyClasses(c) \cup DeploymentPolicyClasses(c) \cup PropertySemanticClasses(c)
        \cup AudienceClasses(c) \cup ActionsPolicyClasses(c, x) \cup RulesetClasses(c)
        \cup ProtectionClasses(c) \cup GrantClasses(c) \cup CapabilityClasses(c)
  IN IF c.action = "delete" /\ Retires(c)
     THEN {"governed_retirement"} \cup When(c.unknown = "other", "unknown_change")
     ELSE IF found = {} THEN {"routine_write"} ELSE found

-----------------------------------------------------------------------------
(* The classes of a whole plan. *)

PlanWrites(plan)   == {c \in plan : c.action \notin {"read", "no_op"}}
Destructive(plan)  == {c \in plan : c.action \in {"delete", "replace", "forget"}}
Revokes(c) == c.action = "delete" /\ (c.type \in AccessTypes \/ Retires(c))

\* Mutant: each change is judged alone.
PlanClassesSeparately(plan, x) == [c \in PlanWrites(plan) |-> Classes(c, x)]

\* A revocation is safe only in a plan of nothing but revocations: beside any
\* other write it could be half of a rename or of a change of authority.
PlanClasses(plan, x) ==
  LET mixed == /\ \E c \in plan : Revokes(c)
               /\ \E c \in PlanWrites(plan) : ~Revokes(c)
  IN [c \in PlanWrites(plan) |-> Classes(c, x) \cup When(mixed, "authority_replacement")]
=============================================================================
