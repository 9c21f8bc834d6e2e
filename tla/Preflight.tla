----------------------------- MODULE Preflight -----------------------------
(***************************************************************************)
(* The activation preflight (PreflightReport and its helpers in            *)
(* src/compiler/internal/validation/validation.go): the set of reasons why *)
(* the organization, as observed, may not be planned for in a rollout      *)
(* phase.  Nothing is planned unless the set is empty.                     *)
(*                                                                         *)
(* d is the compiled catalog, o the observation: o.state maps the address  *)
(* of a resource to what GitHub holds, as in PlanClassifier, and the other *)
(* fields are the observer's own verdicts and inventories.  Time counts    *)
(* days.  A digest stands for the content it was taken of.                 *)
(***************************************************************************)
EXTENDS PlanClassifier

FounderAccounts  == {"mindclade-founder", "robpearc"}
FounderPrincipal == "founder-primary"

AttestationTTL == 7    \* maximumIntegrationAttestationTTL, in days

-----------------------------------------------------------------------------
(* Who is there. *)

ObservedMembers(o) ==
  {a[2][1] : a \in {b \in DOMAIN o.state : b[1] = "github_membership" /\ o.state[b] # Absent}}
ObservedAdmins(o) ==
  {l \in ObservedMembers(o) : Held(o, "github_membership", <<l>>).role = "admin"}

\* Mutant: every administrator account counts.
AdminPrincipalsByLogin(d, o) ==
  {l \in DOMAIN d.members : d.members[l] = "admin" /\ l \in d.active /\ l \in ObservedAdmins(o)}

\* A person is a principal, not a login: one human with two accounts counts
\* once, and only through active, catalogued and observed accounts.
ActiveLogins(d, o) == {l \in DOMAIN d.members : l \in d.active /\ l \in ObservedMembers(o)}
AdminPrincipals(d, o) ==
  {d.principals[l] : l \in {m \in ActiveLogins(d, o) :
                              d.members[m] = "admin" /\ m \in ObservedAdmins(o)}}
TeamPrincipals(d, o, t) ==
  {d.principals[l] : l \in ActiveLogins(d, o) \cap DOMAIN d.teams[t].members}

(***************************************************************************)
(* The founder bootstrap exception: only for foundation, only while unused *)
(* and unexpired, and only if both founder accounts are declared and       *)
(* observed as active administrators.                                      *)
(***************************************************************************)
ExceptionExact(d) ==
  /\ d.exception # Absent
  /\ d.exception.state = "UNUSED"
  /\ d.exception.accounts = FounderAccounts
  /\ ~d.exception.production_authority

FounderQualified(d, o, phase, now) ==
  /\ phase = "foundation"
  /\ ExceptionExact(d)
  /\ now < d.exception.expires
  /\ \A a \in FounderAccounts :
       /\ a \in DOMAIN d.members \cap d.active
       /\ d.members[a] = "admin"
       /\ d.principals[a] = FounderPrincipal
       /\ a \in ObservedAdmins(o)

-----------------------------------------------------------------------------
(* Blockers about the observation itself. *)

ObservationBlockers(d, o, phase) ==
  When(~o.core_complete, "CORE_OBSERVATION_INCOMPLETE")
  \cup When(phase # "adopt" /\ ~o.complete, "CAPABILITY_OBSERVATION_INCOMPLETE")
  \cup When(phase = "enforce" /\ o.unknown, "OBSERVED_STATE_UNKNOWN")
  \cup When(phase = "enforce" /\ ~o.converged, "MANAGED_STATE_NOT_CONVERGED")
  \cup When(o.organization # d.organization, "ORGANIZATION_IDENTITY_MISMATCH")

\* Every catalogued repository is observed with an immutable id of its own.
OIDCIdentityComplete(d, o) ==
  /\ o.core_complete
  /\ o.organization # Absent
  /\ DOMAIN d.repositories \subseteq DOMAIN o.ids
  /\ \A r, s \in DOMAIN d.repositories : o.ids[r] = o.ids[s] => r = s

-----------------------------------------------------------------------------
(* The custom-property migration. *)

\* What the catalog loader accepts: legacy values belong to a declared
\* property, are not desired any more, and are gone once the phase is retire.
ValidMigration(d) ==
  LET m == d.migration
  IN /\ m.phase = "retire" => DOMAIN m.legacy = {}
     /\ DOMAIN m.legacy \subseteq DOMAIN d.properties
     /\ \A p \in DOMAIN m.legacy :
          m.legacy[p] # {} /\ m.legacy[p] \cap d.properties[p].allowed = {}

MigrationBlockers(d, o, phase) ==
  When(phase # "adopt" /\ d.migration.phase = "retire" /\ ~AssignmentsConverged(d, o),
       "CUSTOM_PROPERTY_RETIREMENT_UNQUALIFIED")
  \cup When(phase = "enforce" /\ (d.migration.phase # "retire" \/ DOMAIN d.migration.legacy # {}),
            "CUSTOM_PROPERTY_MIGRATION_PENDING")

-----------------------------------------------------------------------------
(***************************************************************************)
(* Adoption.  What GitHub already holds is imported into the OpenTofu      *)
(* state before it is planned for.  Resources with an identity of their    *)
(* own are imported as they are; plain settings only when they already     *)
(* have the desired value, and otherwise they look new to the plan.        *)
(***************************************************************************)
Desired(d, a) ==
  LET k == a[2]
  IN CASE a[1] = "github_team" -> k[1] \in DOMAIN d.teams
       [] a[1] \in {"github_repository", "github_actions_repository_access_level",
                    "github_actions_repository_oidc_subject_claim_customization_template"} ->
            k[1] \in DOMAIN d.repositories
       [] a[1] = "github_organization_ruleset" ->
            k[1] \in DOMAIN d.rulesets /\ RulesetRoleAllowed(k[2], d.rulesets[k[1]])
       [] a[1] = "github_repository_ruleset" ->
            /\ k[1] \in DOMAIN d.rulesets /\ d.rulesets[k[1]].target = "branch"
            /\ k[2] \in d.rulesets[k[1]].repositories
       [] a[1] = "github_repository_environment" ->
            k[1] \in DOMAIN d.environments /\ k[2] \in d.environments[k[1]].repositories
       [] a[1] = "github_repository_environment_deployment_policy" ->
            /\ k[1] \in DOMAIN d.environments /\ k[2] \in d.environments[k[1]].repositories
            /\ <<k[3], k[4]>> \in d.environments[k[1]].patterns
       [] a[1] = "github_membership" -> k[1] \in DOMAIN d.members
       [] a[1] = "github_team_membership" ->
            k[1] \in DOMAIN d.teams /\ k[2] \in DOMAIN d.teams[k[1]].members
       [] a[1] = "github_team_repository" ->
            k[1] \in DOMAIN d.repositories /\ k[2] \in DOMAIN d.repositories[k[1]].grants
       [] a[1] = "github_repository_collaborator" -> k \in DOMAIN d.outside
       [] a[1] = "github_organization_custom_properties" -> k[1] \in DOMAIN d.properties
       [] a[1] = "github_repository_custom_property" ->
            k[1] \in DOMAIN d.repositories /\ k[2] \in DOMAIN d.repositories[k[1]].properties
       [] a[1] = "github_organization_role_team" -> k[1] = d.security_manager_team
       [] OTHER -> a[1] \in {"github_actions_organization_permissions",
                             "github_actions_organization_workflow_permissions",
                             "github_actions_organization_oidc_subject_claim_customization_template"}

\* The setting already has the value the catalog wants.
AlreadyDesired(d, a, r) ==
  LET k == a[2]
  IN CASE a[1] = "github_membership" -> (r.role = "admin") = (d.members[k[1]] = "admin")
       [] a[1] = "github_team_membership" -> r.role = d.teams[k[1]].members[k[2]]
       [] a[1] = "github_team_repository" -> r.permission = d.repositories[k[1]].grants[k[2]]
       [] a[1] = "github_repository_collaborator" -> r.permission = d.outside[k]
       [] a[1] = "github_actions_repository_access_level" ->
            /\ d.repositories[k[1]].visibility # "public"
            /\ r.access_level = d.repositories[k[1]].access_level
       [] a[1] = "github_repository_custom_property" ->
            r.property_value = d.repositories[k[1]].properties[k[2]]
       [] a[1] = "github_organization_custom_properties" ->
            /\ r.allowed_values = EffectiveAllowedValues(d, k[1])
            /\ r.values_editable_by = d.properties[k[1]].editable_by
            /\ r.on = d.properties[k[1]].on
       [] a[1] \in OIDCTypes ->
            ~d.oidc.use_default /\ r.include_claim_keys = d.oidc.claims /\ "use_default" \notin Flags(r)
       [] OTHER -> TRUE

\* The team or the repository the setting belongs to is observed as well, and
\* a security manager role only counts when a single team holds it.
Anchored(o, a) ==
  CASE a[1] = "github_team_membership" -> ObservedTeamID(o, a[2][1]) # Absent
    [] a[1] = "github_team_repository" ->
         a[2][1] \in o.repositories /\ ObservedTeamID(o, a[2][2]) # Absent
    [] a[1] = "github_repository_collaborator" -> a[2][2] \in o.repositories
    [] a[1] \in {"github_actions_repository_access_level", "github_repository_custom_property",
                 "github_actions_repository_oidc_subject_claim_customization_template"} ->
         a[2][1] \in o.repositories
    [] a[1] = "github_organization_role_team" ->
         \A b \in DOMAIN o.state : b[1] = a[1] /\ o.state[b] # Absent => b = a
    [] OTHER -> TRUE

\* o.unread names the types some read of which failed: none is imported.
Importable(d, o) ==
  {a \in DOMAIN o.state : /\ o.state[a] # Absent /\ a[1] \notin o.unread /\ Desired(d, a)
                          /\ Anchored(o, a) /\ AlreadyDesired(d, a, o.state[a])}

\* o.unidentified holds what was observed without the identity its import
\* needs: no positive id, several candidates, an unread policy list, a subject
\* template not proven immutable.
AdoptionBlockers(d, o) ==
  When(/\ o.core_complete
       /\ \E a \in Importable(d, o) :
            \/ a \in o.unidentified
            \/ a[1] = "github_repository_ruleset" /\ o.state[a].enforcement = "evaluate"
            \/ a[1] = "github_organization_role_team" /\ Cardinality(o.security_manager_roles) # 1,
       "ADOPTION_IDENTITY_INCOMPLETE")

Imports(d, o) == IF o.core_complete THEN Importable(d, o) ELSE {}

-----------------------------------------------------------------------------
(* People and access. *)

QuorumBlockers(d, o, founder) ==
  When(~founder /\ Cardinality(AdminPrincipals(d, o)) < d.minimum_admins,
       "INSUFFICIENT_DISTINCT_HUMANS")
  \cup When(/\ ~founder
            /\ \E e \in DOMAIN d.environments :
                 Cardinality(UNION {TeamPrincipals(d, o, t) : t \in d.environments[e].reviewers})
                   < d.environments[e].quorum, "REVIEWER_QUORUM_UNSATISFIED")

PermissionRank == [pull |-> 1, triage |-> 2, push |-> 3, maintain |-> 4]

\* Teams hold declared members; no team is granted administration, the owner
\* maintains, and a reviewer can at least read what it reviews.
DesiredAccessValid(d) ==
  LET grants(r) == d.repositories[r].grants
      rank(r, t) == IF t \in DOMAIN grants(r) /\ grants(r)[t] \in DOMAIN PermissionRank
                    THEN PermissionRank[grants(r)[t]] ELSE 0
  IN /\ \A t \in DOMAIN d.teams : DOMAIN d.teams[t].members \subseteq DOMAIN d.members
     /\ \A r \in DOMAIN d.repositories :
          /\ \A t \in DOMAIN d.repositories[r].grants : rank(r, t) \in 1..4
          /\ rank(r, d.repositories[r].owner) = 4
     /\ \A e \in DOMAIN d.environments :
          \A t \in d.environments[e].reviewers, r \in d.environments[e].repositories :
            rank(r, t) >= 1

\* In foundation a capability must be available, in enforcement switched on.
CapabilityBlockers(d, o, phase) ==
  LET wanted == IF phase = "foundation" THEN "available" ELSE "on"
  IN When("enterprise" \in d.capabilities /\ <<"enterprise", "on">> \notin o.capabilities,
          "ENTERPRISE_CLOUD_UNCONFIRMED")
     \cup When("advanced_security" \in d.capabilities
                 /\ <<"advanced_security", wanted>> \notin o.capabilities, "GHAS_UNCONFIRMED")
     \cup When(DOMAIN d.environments # {}
                 /\ <<"protected_environments", wanted>> \notin o.capabilities,
               "PROTECTED_ENVIRONMENTS_UNCONFIRMED")
     \cup When(d.two_factor # o.two_factor, "TWO_FACTOR_REQUIREMENT_MISMATCH")

-----------------------------------------------------------------------------
(* GitHub App integrations and their bootstrap attestations. *)

FreshWindow(created, expires, now) ==
  created < expires /\ expires - created <= AttestationTTL /\ now < expires

AttestationValid(i, now) ==
  LET a == i.attestation
  IN /\ a # Absent
     /\ a.authority = "bootstrap"
     /\ a.app = i.actor
     /\ a.scope = i.scope
     /\ {p[1] : p \in a.repositories} = i.repositories
     /\ \A p, q \in a.repositories : p[1] = q[1] \/ p[2] = q[2] => p = q
     /\ FreshWindow(a.created, a.expires, now)
     /\ i.digest = a

\* The live installation is the attested one, scope and repositories included.
IntegrationQualified(d, o, id, now) ==
  LET i == d.integrations[id]
      live == o.installations[id]
  IN /\ id \in DOMAIN o.installations
     /\ i.ready
     /\ AttestationValid(i, now)
     /\ live.installation = i.attestation.installation
     /\ live.actor = i.attestation.app
     /\ live.scope = i.attestation.scope
     /\ ~live.suspended
     /\ o.core_complete
     /\ \A p \in i.attestation.repositories : p[1] \in DOMAIN o.ids /\ o.ids[p[1]] = p[2]

\* Every live installation is accounted for exactly once, and every
\* catalogued one is qualified.
InventoryQualified(d, o, now) ==
  LET q == d.inventory
  IN /\ q # Absent
     /\ FreshWindow(q.created, q.expires, now)
     /\ q.digest = q.dispositions
     /\ DOMAIN q.dispositions = DOMAIN o.installations
     /\ \A s \in DOMAIN q.dispositions :
          /\ q.dispositions[s].installation = o.installations[s].installation
          /\ IF q.dispositions[s].kind = "catalog"
             THEN s \in DOMAIN d.integrations /\ IntegrationQualified(d, o, s, now)
             ELSE s \notin DOMAIN d.integrations
     /\ DOMAIN d.integrations \subseteq DOMAIN q.dispositions

\* Once the security policy is ready, each required check names the live
\* integration that reports it, one integration for each issuer.
ChecksQualified(d, o) ==
  d.checks_ready =>
    /\ \A c \in d.checks : c.integration # Absent /\ [c EXCEPT !.issuer = Absent] \in o.checks
    /\ \A c, e \in d.checks : c.issuer = e.issuer => c.integration = e.integration

IntegrationBlockers(d, o, now) ==
  When(~InventoryQualified(d, o, now), "INSTALLATION_INVENTORY_UNQUALIFIED")
  \cup When(\E id \in DOMAIN d.integrations : ~IntegrationQualified(d, o, id, now),
            "INTEGRATION_UNQUALIFIED")
  \cup When(~ChecksQualified(d, o), "STATUS_CHECK_INTEGRATION_UNQUALIFIED")

\* The catalog's own activation records; the founder exception waives the
\* ones that wait for a second human.
WaivedBlockers == {"independent-administrator-required", "independent-reviewer-required",
                   "independent-security-reviewer-required"}
ActivationBlockers(d, founder) ==
  When(d.activation \ (IF founder THEN WaivedBlockers ELSE {}) # {}, "DESIRED_ACTIVATION_BLOCKED")

-----------------------------------------------------------------------------
PreflightBlockers(d, o, phase, now) ==
  LET founder == FounderQualified(d, o, phase, now)
  IN ObservationBlockers(d, o, phase)
     \cup MigrationBlockers(d, o, phase)
     \cup AdoptionBlockers(d, o)
     \cup IF phase = "adopt" THEN {}
          ELSE When(~OIDCIdentityComplete(d, o), "OIDC_IDENTITY_INCOMPLETE")
               \cup QuorumBlockers(d, o, founder)
               \cup When(~DesiredAccessValid(d), "DESIRED_ACCESS_INVALID")
               \cup CapabilityBlockers(d, o, phase)
               \cup IntegrationBlockers(d, o, now)
               \cup ActivationBlockers(d, founder)

PreflightReady(d, o, phase, now) == PreflightBlockers(d, o, phase, now) = {}
=============================================================================
