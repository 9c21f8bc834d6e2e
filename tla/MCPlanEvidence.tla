--------------------------- MODULE MCPlanEvidence ---------------------------
(***************************************************************************)
(* The worlds TLC explores: each is a small estate with the catalogs,      *)
(* hand edits and proposals around one kind of resource.                   *)
(***************************************************************************)
EXTENDS PlanEvidence, TLC

-----------------------------------------------------------------------------
(* Two administrators, one repository, one team that owns it. *)

BaseCatalog ==
  [organization |-> "org",
   members |-> ("a" :> "admin" @@ "b" :> "admin"),
   principals |-> ("a" :> "pa" @@ "b" :> "pb" @@ "c" :> "pa"),
   active |-> {"a", "b", "c"}, minimum_admins |-> 2,
   teams |-> ("own" :> [privacy |-> "closed", members |-> ("a" :> "maintainer" @@ "b" :> "member")]),
   repositories |->
     ("r" :> [visibility |-> "internal", on |-> {}, security |-> {"scanning"},
              properties |-> <<>>, access_level |-> "none",
              grants |-> ("own" :> "maintain"), owner |-> "own"]),
   environments |-> <<>>, rulesets |-> <<>>, outside |-> <<>>, properties |-> <<>>,
   migration |-> [phase |-> "retire", legacy |-> <<>>],
   actions |-> [mode |-> "local_only", enabled_repositories |-> "selected", pins |-> {},
                on |-> {"sha_pinning_required"}, default_permissions |-> "read"],
   oidc |-> [use_default |-> FALSE, immutable |-> TRUE, claims |-> {"repo", "context"}],
   security_manager_team |-> "own", two_factor |-> TRUE, capabilities |-> {},
   exception |-> Absent, activation |-> {}, integrations |-> <<>>,
   inventory |-> [created |-> 0, expires |-> 5, digest |-> <<>>, dispositions |-> <<>>],
   checks_ready |-> TRUE, checks |-> {}]

Healthy ==
  [core_complete |-> TRUE, complete |-> TRUE, unknown |-> FALSE, converged |-> TRUE,
   organization |-> "org", ids |-> ("r" :> 1),
   capabilities |-> {<<"protected_environments", s>> : s \in {"available", "on"}},
   two_factor |-> TRUE, installations |-> <<>>, checks |-> {}, repositories |-> {"r"},
   security_manager_roles |-> {"manager"}, integrations |-> {}, unidentified |-> {},
   unread |-> {}]

MemberAt(l) == <<"github_membership", <<l>>>>
MemberIs(l, role) == [of |-> <<l>>, role |-> role]
TeamAt(t) == <<"github_team", <<t>>>>
TeamIs(t, privacy) == [of |-> <<t>>, privacy |-> privacy]

BaseLive ==
  MemberAt("a") :> MemberIs("a", "admin") @@ MemberAt("b") :> MemberIs("b", "admin")
    @@ TeamAt("own") :> TeamIs("own", "closed")

Succeeded == [status |-> Absent, started |-> Absent, stage |-> Absent, exit |-> Absent]
App(n, text) == [number |-> n, text |-> text]
ProtectedRun ==
  [plan_app |-> App(1, "1"), apply_app |-> App(2, "2"), reference |-> "pr",
   workflow |-> MainWorkflow, source_sha |-> "sha", actor |-> "a", qualification |-> "q",
   run |-> "1", created |-> 10, expires |-> 16, attempt |-> Succeeded]

\* Nothing to merge, edit or propose but what a world adds.
Plain ==
  [live |-> BaseLive, initial |-> {BaseCatalog}, catalogs |-> {BaseCatalog},
   edits |-> <<>>, editable |-> {}, health |-> {Healthy}, proposals |-> <<>>,
   identities |-> {ProtectedRun}, uses |-> {}, today |-> 1, hours |-> {12},
   needless |-> FALSE, unmanaged |-> {}]

Offer(after) == [after |-> after, canonical |-> TRUE, action |-> "natural", unknown |-> "none"]
Offers(afters) == {Offer(v) : v \in afters}
Odd(after, canonical, action, unknown) ==
  [after |-> after, canonical |-> canonical, action |-> action, unknown |-> unknown]

\* A world: more of the estate live, other catalogs, edits between runs,
\* proposals.
Estate(state, catalogs, edits, proposals) ==
  [Plain EXCEPT !.live = state @@ BaseLive, !.initial = catalogs, !.catalogs = catalogs,
                !.edits = edits, !.editable = IF edits = <<>> THEN {} ELSE {"idle"},
                !.proposals = proposals]

-----------------------------------------------------------------------------
(* People, teams and grants. *)

C == MemberAt("c")
WithC(role) == [BaseCatalog EXCEPT !.members = ("c" :> role) @@ BaseCatalog.members]
WithoutB(count) ==
  [BaseCatalog EXCEPT !.members = ("a" :> "admin" @@ "c" :> "admin"), !.minimum_admins = count,
                      !.teams["own"].members = ("a" :> "maintainer")]
Members ==
  Estate(C :> MemberIs("c", "admin"), {BaseCatalog, WithC("member"), WithoutB(2)},
         MemberAt("b") :> {MemberIs("b", "member")},
         MemberAt("b") :> Offers({Absent, MemberIs("b", "member"), MemberIs("b", "admin")})
           @@ C :> Offers({Absent, MemberIs("c", "member"), MemberIs("c", "admin")}))

InTeam == <<"github_team_membership", <<"own", "b">>>>
InTeamIs(role) == [of |-> <<"own", "b">>, team_id |-> "own", role |-> role]
Grant == <<"github_team_repository", <<"r", "t">>>>
GrantIs(p) == [of |-> <<"r", "t">>, team_id |-> "t", permission |-> p]
WithGrant(grant) ==
  [BaseCatalog EXCEPT !.teams = ("t" :> [privacy |-> "secret", members |-> <<>>]) @@ @,
                      !.repositories["r"].grants = grant @@ @]
Granted == TeamAt("t") :> TeamIs("t", "secret") @@ Grant :> GrantIs("push")

\* The grant may be changed by hand while a run is under way.
Teams ==
  [Estate(Granted @@ InTeam :> InTeamIs("member"),
          {WithGrant("t" :> "pull"), WithGrant("t" :> "maintain"),
           [WithGrant(<<>>) EXCEPT !.teams["own"].members = ("a" :> "maintainer")]},
          Grant :> {GrantIs("maintain")},
          Grant :> Offers({Absent, GrantIs("pull"), GrantIs("maintain")})
            @@ InTeam :> Offers({Absent, InTeamIs("maintainer")}))
   EXCEPT !.editable = {"idle", "observed"}]

\* What somebody set by hand is imported only if it is what the catalog wants.
Adopting ==
  [Estate(Granted @@ C :> MemberIs("c", "admin"),
          {[WithGrant("t" :> p) EXCEPT !.members = ("c" :> "member") @@ BaseCatalog.members] :
             p \in {"pull", "push"}},
          Grant :> {GrantIs("pull"), Absent},
          Grant :> Offers({Absent, GrantIs("pull"), GrantIs("push")})
            @@ C :> Offers({Absent, MemberIs("c", "member")}))
   EXCEPT !.unmanaged = {Grant, C, TeamAt("t")}]

\* A team retires, alone or with another write.
Retirements ==
  Estate(Granted, {WithGrant(<<>>), BaseCatalog}, <<>>,
         TeamAt("t") :> Offers({Absent, TeamIs("t", "closed")})
           @@ Grant :> Offers({Absent, GrantIs("pull")}))

Outside == <<"github_repository_collaborator", <<"x", "r">>>>
OutsideIs(p, suppressed) ==
  [of |-> <<"x", "r">>, permission |-> p,
   on |-> IF suppressed THEN {"permission_diff_suppression"} ELSE {}]
Manager == <<"github_organization_role_team", <<"own">>>>
ManagerIs(t, role) == [of |-> <<t>>, role_id |-> role]
Outsiders ==
  Estate(Outside :> Absent @@ Manager :> Absent,
         {BaseCatalog, [BaseCatalog EXCEPT !.outside = (<<"x", "r">> :> "push")]},
         Outside :> {Absent, OutsideIs("push", FALSE), OutsideIs("admin", FALSE)},
         Outside :> Offers({Absent, OutsideIs("push", FALSE), OutsideIs("push", TRUE),
                            OutsideIs("admin", FALSE)})
           @@ Manager :> Offers({ManagerIs("own", "manager"), ManagerIs("own", "owner"),
                                 ManagerIs("t", "manager")}))

-----------------------------------------------------------------------------
(* Repositories and their values. *)

Repo == <<"github_repository", <<"r">>>>
RepoIs(visibility, on, status) ==
  [of |-> <<"r">>, visibility |-> visibility, on |-> on, status |-> status]
Sharing == <<"github_actions_repository_access_level", <<"r">>>>
SharingIs(level) == [of |-> <<"r">>, access_level |-> level]
WithRepo(visibility, on, security, level) ==
  [BaseCatalog EXCEPT !.repositories["r"] =
     [@ EXCEPT !.visibility = visibility, !.on = on, !.security = security, !.access_level = level]]
Repositories ==
  Estate(Repo :> RepoIs("internal", {"web_commit_signoff_required"}, {"scanning"})
           @@ Sharing :> SharingIs("none"),
         {WithRepo("private", {"allow_auto_merge", "web_commit_signoff_required"}, {"scanning"}, "none"),
          WithRepo("internal", {}, {"scanning", "push_protection"}, "organization"),
          WithRepo("public", {"web_commit_signoff_required"}, {"scanning"}, "organization"),
          WithRepo("internal", {"archived", "web_commit_signoff_required"}, {}, "none")},
         Sharing :> {SharingIs("organization")},
         Repo :> Offers({Absent, RepoIs("internal", {}, {"scanning", "push_protection"})} \cup
                        {RepoIs("private", {"allow_auto_merge", "web_commit_signoff_required"}, {"scanning"}),
                         RepoIs("public", {"web_commit_signoff_required"}, {"scanning"}),
                         RepoIs("internal", {"archived", "web_commit_signoff_required"}, {})})
           @@ Sharing :> Offers({SharingIs("none"), SharingIs("organization")}))

\* The founder exception with its exact estate, spent, or with a repository
\* that would be public.
FounderRepository(visibility) ==
  [BaseCatalog.repositories["r"] EXCEPT !.visibility = visibility,
     !.properties = ("data_classification" :> {"public"} @@ "production_authority" :> {"none"})]
FounderCatalog(state, visibility) ==
  [BaseCatalog EXCEPT
     !.members = [l \in FounderAccounts |-> "admin"],
     !.principals = [l \in FounderAccounts |-> FounderPrincipal],
     !.active = FounderAccounts,
     !.teams["own"].members = [l \in FounderAccounts |-> "member"],
     !.repositories["r"] = FounderRepository(visibility),
     !.exception = [state |-> state, accounts |-> FounderAccounts, expires |-> 2,
                    production_authority |-> FALSE],
     !.migration.phase = "preserve", !.activation = {"independent-administrator-required"}]
Founder ==
  [Estate(Repo :> RepoIs("private", {}, {"scanning"}) @@ TeamAt("t") :> Absent
            @@ [m \in {MemberAt(l) : l \in FounderAccounts} |-> MemberIs(m[2][1], "admin")],
          {FounderCatalog("UNUSED", v) : v \in {"internal", "public"}}
            \cup {FounderCatalog("CONSUMED", "internal")}, <<>>,
          Repo :> Offers({RepoIs("internal", {}, {"scanning"}), RepoIs("public", {}, {"scanning"})})
            @@ MemberAt("robpearc") :> Offers({MemberIs("robpearc", "member")}))
   EXCEPT !.identities =
            {[ProtectedRun EXCEPT !.created = n, !.expires = n + 6] : n \in {10, 20}}
              \cup {[ProtectedRun EXCEPT !.workflow = "protected-apply.yml@fix"]},
          !.hours = {12, 22}]

Defined(p) == <<"github_organization_custom_properties", <<p>>>>
DefinedIs(p, allowed, editors) ==
  [of |-> <<p>>, allowed_values |-> allowed, values_editable_by |-> editors, on |-> {"required"}]
Value(p) == <<"github_repository_custom_property", <<"r", p>>>>
ValueIs(p, v) == [of |-> <<"r", p>>, property_value |-> {v}]
Assigning(p, allowed, v, phase, legacy) ==
  [BaseCatalog EXCEPT !.properties = (p :> [allowed |-> allowed, editable_by |-> "org_actors",
                                            on |-> {"required"}]),
                      !.repositories["r"].properties = (p :> {v}),
                      !.migration = [phase |-> phase, legacy |-> legacy]]

Before == Assigning("tier", {"old"}, "old", "preserve", <<>>)
Preserving == Assigning("tier", {"new"}, "new", "preserve", "tier" :> {"old"})
Retiring == Assigning("tier", {"new"}, "new", "retire", <<>>)

\* A value is renamed in three reviewed steps; hand edits come between runs.
Migrating ==
  [Estate(Defined("tier") :> DefinedIs("tier", {"old"}, "org_actors")
            @@ Value("tier") :> ValueIs("tier", "old"),
          {Preserving, Retiring}, Value("tier") :> {ValueIs("tier", "old")},
          Defined("tier") :> Offers({DefinedIs("tier", {"new"}, "org_actors"),
                                     DefinedIs("tier", {"old", "new"}, "org_actors"),
                                     DefinedIs("tier", {"old", "new"}, "repository_actors")})
            @@ Value("tier") :> Offers({ValueIs("tier", "new")}))
   EXCEPT !.initial = {Before}]

\* The preserving catalog forgets its legacy value before anything converged.
Dropping ==
  [Migrating EXCEPT !.catalogs = {Assigning("tier", {"new"}, "new", "preserve", <<>>)}]

Classification ==
  Estate(Defined("data_classification") :>
             DefinedIs("data_classification", {"public", "internal", "restricted"}, "org_actors")
           @@ Value("data_classification") :> ValueIs("data_classification", "internal"),
         {Assigning("data_classification", {"public", "internal", "restricted"}, v, "preserve", <<>>) :
            v \in {"public", "restricted"}}, <<>>,
         Value("data_classification") :>
           Offers({ValueIs("data_classification", v) : v \in {"public", "restricted"}}))

-----------------------------------------------------------------------------
(* Actions and OIDC. *)

Actions == <<"github_actions_organization_permissions", <<"this">>>>
ActionsIs(mode, scope, on, pins) ==
  [allowed_actions |-> mode, enabled_repositories |-> scope, on |-> on, patterns_allowed |-> pins]
Tokens == <<"github_actions_organization_workflow_permissions", <<"this">>>>
TokensIs(default, on) == [of |-> <<"this">>, default_workflow_permissions |-> default, on |-> on]
WithActions(mode, scope, on, pins, default) ==
  [BaseCatalog EXCEPT !.actions = [mode |-> mode, enabled_repositories |-> scope, pins |-> pins,
                                   on |-> on, default_permissions |-> default]]
Pin(n) == {<<"checkout", n>>}
Actioned ==
  [Estate(Actions :> ActionsIs("selected", "selected", {"sha_pinning_required"}, Pin("1"))
            @@ Tokens :> TokensIs("read", {}),
          {WithActions("selected", "selected", {"sha_pinning_required"}, Pin("2"), "read"),
           WithActions("selected", "all", {"github_owned_allowed"}, Pin("1"), "read"),
           WithActions("all", "selected", {"sha_pinning_required"}, {}, "write")}, <<>>,
          Actions :> Offers({ActionsIs("selected", "selected", {"sha_pinning_required"}, Pin("2")),
                             ActionsIs("selected", "selected", {"sha_pinning_required"}, Pin("3")),
                             ActionsIs("selected", "all", {"github_owned_allowed"}, Pin("1")),
                             ActionsIs("all", "selected", {"sha_pinning_required"}, Absent)})
            @@ Tokens :> Offers({TokensIs("write", {}), TokensIs("read", {"can_approve_pull_request_reviews"})}))
   EXCEPT !.uses = {<<"checkout", "2">>}]

Subject == <<"github_actions_repository_oidc_subject_claim_customization_template", <<"r">>>>
SubjectIs(claims, on) == [of |-> <<"r">>, include_claim_keys |-> claims, on |-> on]
OrganizationSubject == <<"github_actions_organization_oidc_subject_claim_customization_template", <<"this">>>>
Subjects ==
  Estate(Subject :> SubjectIs({"repo"}, {})
           @@ OrganizationSubject :> [include_claim_keys |-> {"repo"}],
         {BaseCatalog, [BaseCatalog EXCEPT !.oidc.immutable = FALSE]}, <<>>,
         Subject :> Offers({Absent, SubjectIs({"repo", "context"}, {}),
                            SubjectIs({"repo", "context"}, {"use_default"})})
           @@ OrganizationSubject :> Offers({[include_claim_keys |-> {"repo", "context"}],
                                             [include_claim_keys |-> {}]}))

-----------------------------------------------------------------------------
(* Environments and rulesets. *)

Gate == <<"github_repository_environment", <<"e", "r">>>>
GateIs(reviewers, on, policy) ==
  [of |-> <<"e", "r">>, reviewers |-> reviewers, on |-> on, deployment_branch_policy |-> policy]
Handoff == <<"github_actions_environment_variable", <<"e", "r", "v">>>>
HandoffIs(v) == [of |-> <<"e", "r", "v">>, value |-> v]
Branches == <<"github_repository_environment_deployment_policy", <<"e", "r", "branch", "main">>>>
BranchesIs(pattern) == [of |-> <<"e", "r", "branch", "main">>, branch_pattern |-> pattern]
WithEnvironment(reviewers, on, ready, quorum, patterns) ==
  [WithGrant("t" :> "pull") EXCEPT
     !.environments = ("e" :> [repositories |-> {"r"}, reviewers |-> reviewers, on |-> on,
                               branch_policy |-> "custom", patterns |-> patterns,
                               variables |-> ("v" :> "1"), ready |-> ready, quorum |-> quorum])]
Main == {<<"branch", "main">>}
Environments ==
  Estate(Granted @@ Gate :> GateIs({"own"}, {"prevent_self_review"}, "custom") @@ Handoff :> Absent,
         {WithEnvironment({"own", "t"}, {"prevent_self_review"}, TRUE, 2, Main),
          WithEnvironment({"own"}, {"prevent_self_review"}, FALSE, 2, Main),
          WithEnvironment({"own"}, {"can_admins_bypass"}, TRUE, 2, Main),
          WithGrant("t" :> "push")},
         Gate :> {GateIs({"own", "t"}, {"prevent_self_review"}, "custom")},
         Gate :> Offers({Absent, GateIs({"own"}, {"prevent_self_review"}, "custom"),
                         GateIs({"own", "t"}, {"prevent_self_review"}, "custom"),
                         GateIs({}, {"prevent_self_review"}, "custom"),
                         GateIs({"own"}, {"can_admins_bypass"}, "custom")})
           @@ Handoff :> Offers({Absent, HandoffIs("1"), HandoffIs("2")}))
Policies ==
  Estate(Granted @@ Gate :> GateIs({"own"}, {"prevent_self_review"}, "custom")
           @@ Branches :> BranchesIs("main"),
         {WithEnvironment({"own"}, {"prevent_self_review"}, TRUE, 2, p) :
            p \in {Main, {<<"branch", "release">>}}},
         Branches :> {Absent},
         Gate :> Offers({GateIs({"own"}, {"prevent_self_review"}, Absent)})
           @@ Branches :> Offers({Absent, BranchesIs("main"), BranchesIs("release")}))

Rules(role, target, on) ==
  [of |-> <<"rs", role>>, target |-> target, enforcement |-> "evaluate",
   bypass_actors |-> {}, include |-> {"r", "ref"}, exclude |-> {}, on |-> {"protected"} \cup on,
   pull_request |-> Absent, required_status_checks |-> {}, required_workflows |-> {}]
RulesAt(role) == <<"github_organization_ruleset", <<"rs", role>>>>
Required(n, on) == [approvals |-> n, on |-> on]
WithRules(enforcement, target, on, excluded, approvals, bypass, checks) ==
  [BaseCatalog EXCEPT !.rulesets =
     ("rs" :> [target |-> target, enforcement |-> enforcement, repositories |-> {"r"},
               include |-> {"ref"}, exclude |-> excluded, on |-> on,
               pull_request |-> approvals, checks |-> checks, workflows |-> {},
               bypass_teams |-> bypass, creators |-> {"app"}])]
Both == {"deletion", "required_signatures"}

ReviewRules ==
  LET is(enforcement, bypass, approvals) ==
        [Rules("pr_governance", "branch", {}) EXCEPT !.enforcement = enforcement,
           !.bypass_actors = bypass, !.pull_request = approvals]
      two == Required(2, {"require_code_owner_review"})
  IN Estate(RulesAt("pr_governance") :> is("evaluate", {}, two)
              @@ RulesAt("integrity") :> Rules("integrity", "branch", Both),
            {WithRules("active", "branch", Both, {}, two, {}, {}),
             WithRules("active", "branch", {"deletion"}, {}, Required(1, {}), {"own"}, {}),
             WithRules("active", "branch", Both, {"ref"}, two, {}, {})}, <<>>,
            RulesAt("pr_governance") :> Offers({Absent, is("active", {}, two), is("evaluate", {}, two),
                                                is("active", {"own"}, Required(1, {}))})
              @@ RulesAt("integrity") :>
                   Offers({Rules("integrity", "branch", {"deletion"}),
                           [Rules("integrity", "branch", Both) EXCEPT !.enforcement = "active"],
                           [Rules("integrity", "branch", Both) EXCEPT !.exclude = {"ref"}]}))

Queue == <<"github_repository_ruleset", <<"rs", "r">>>>
QueueIs(enforcement) ==
  [of |-> <<"rs", "r">>, enforcement |-> enforcement, bypass_actors |-> {}, include |-> {"ref"},
   exclude |-> {}, merge_queue |-> TRUE]
CheckRules ==
  LET is(enforcement, checks) ==
        [Rules("required_workflow", "branch", {}) EXCEPT !.enforcement = enforcement,
           !.required_status_checks = checks]
      block(checks) == {[checks |-> checks, strict |-> TRUE]}
      both == block({"ci", "lint"})
  IN Estate(RulesAt("required_workflow") :> is("evaluate", both) @@ Queue :> Absent,
            {WithRules("active", "branch", {"merge_queue"}, {}, Absent, {}, both),
             WithRules("active", "branch", {"merge_queue"}, {}, Absent, {}, block({"ci"}))},
            Queue :> {QueueIs("active")},
            RulesAt("required_workflow") :>
                Offers({is("active", both), is("active", block({"ci"})), is("evaluate", {}),
                        [is("active", both) EXCEPT !.include = {"r"}]})
              @@ Queue :> Offers({Absent, QueueIs("disabled"), QueueIs("active")}))

TagRules ==
  LET gate(enforcement, on, bypass) ==
        [Rules("creator_gate", "tag", on) EXCEPT !.enforcement = enforcement, !.bypass_actors = bypass]
      kept(enforcement, on) ==
        [Rules("immutability", "tag", on) EXCEPT !.enforcement = enforcement]
  IN [Estate(RulesAt("creator_gate") :> gate("evaluate", {}, {})
               @@ RulesAt("immutability") :> kept("active", {"update", "deletion"}),
             {WithRules("active", "tag", {"creation_restricted", "update", "deletion"}, {}, Absent, {}, {}),
              WithRules("evaluate", "tag", {"update"}, {}, Absent, {}, {})}, <<>>,
             RulesAt("creator_gate") :> Offers({Absent, gate("active", {"creation"}, {"app"}),
                                                gate("active", {"creation"}, {})})
               @@ RulesAt("immutability") :> Offers({kept("active", {"update"}),
                                                     kept("evaluate", {"update", "deletion"}),
                                                     kept("disabled", {"update", "deletion"})}))
      EXCEPT !.health = {[Healthy EXCEPT !.integrations = {"app"}],
                         [Healthy EXCEPT !.integrations = {"app"}, !.complete = FALSE,
                                         !.unread = {"github_organization_ruleset"}]}]

-----------------------------------------------------------------------------
(* Identities, observations and changes that are not as they should be. *)

Identities ==
  [Estate(Sharing :> SharingIs("none") @@ Grant :> GrantIs("pull") @@ TeamAt("t") :> TeamIs("t", "secret"),
          {[WithGrant(<<>>) EXCEPT !.repositories["r"].access_level = "organization"]}, <<>>,
          Sharing :> Offers({SharingIs("organization")}) @@ Grant :> Offers({Absent}))
   EXCEPT !.identities =
            {ProtectedRun, [ProtectedRun EXCEPT !.apply_app = App(1, "1")],
             [ProtectedRun EXCEPT !.apply_app = App(1, "01")],
             [ProtectedRun EXCEPT !.workflow = "protected-apply.yml@fix"],
             [ProtectedRun EXCEPT !.workflow = Absent], [ProtectedRun EXCEPT !.qualification = Absent],
             [ProtectedRun EXCEPT !.expires = 17], [ProtectedRun EXCEPT !.expires = 10],
             [ProtectedRun EXCEPT !.run = Absent], [ProtectedRun EXCEPT !.source_sha = "other"],
             [ProtectedRun EXCEPT !.plan_app = Absent, !.apply_app = Absent],
             [ProtectedRun EXCEPT !.plan_app = Absent, !.apply_app = Absent,
                                  !.created = Absent, !.expires = Absent],
             [ProtectedRun EXCEPT !.reference = "other"],
             [ProtectedRun EXCEPT !.attempt.status = "succeeded", !.attempt.started = "true",
                                  !.attempt.exit = 0],
             [ProtectedRun EXCEPT !.attempt.status = "failed", !.attempt.started = "false"]},
          !.hours = {9, 15, 16}, !.needless = TRUE]

Access == [Offer(SharingIs("organization")) EXCEPT !.unknown = "none"]
Changes ==
  LET outside == [SharingIs("organization") EXCEPT !.access_level = "organization"] @@ [other |-> 1]
      settings == <<"github_organization_settings", <<"this">>>>
      queue == <<"github_issue_label", <<"l">>>>
  IN Estate(Sharing :> Absent @@ queue :> [of |-> <<"l">>] @@ settings :> [of |-> <<"this">>],
            {WithRepo("internal", {}, {"scanning"}, "organization")}, <<>>,
            Sharing :> {Access, Odd(outside, TRUE, "natural", "none"),
                        Odd(SharingIs("organization"), FALSE, "natural", "none"),
                        Odd(SharingIs("organization"), TRUE, "natural", "computed"),
                        Odd(SharingIs("organization"), TRUE, "natural", "other"),
                        Odd(SharingIs("organization"), TRUE, "unknown", "none")}
              @@ queue :> {Offer(Absent), Offer([of |-> <<"m">>]),
                           Odd([of |-> <<"m">>], TRUE, "replace", "none"),
                           Odd(Absent, TRUE, "forget", "none")}
              @@ settings :> {Offer([of |-> <<"that">>])})

Installed(scope) == [installation |-> "i1", actor |-> "app1", scope |-> scope, suspended |-> FALSE]
Attested(repositories) ==
  [authority |-> "bootstrap", app |-> "app1", installation |-> "i1", scope |-> {"checks"},
   repositories |-> repositories, created |-> 0, expires |-> 7]
Integration(attestation) ==
  [ready |-> TRUE, actor |-> "app1", scope |-> {"checks"}, repositories |-> {"r"},
   attestation |-> attestation, digest |-> attestation]
WithApp(attestation, expires, kind) ==
  LET dispositions == ("s" :> [installation |-> "i1", kind |-> kind])
  IN [BaseCatalog EXCEPT
        !.repositories["r"].access_level = "organization",
        !.integrations = ("s" :> Integration(attestation)),
        !.inventory = [created |-> 0, expires |-> expires, digest |-> dispositions,
                       dispositions |-> dispositions],
        !.checks = {[issuer |-> "s", context |-> "ci", integration |-> "i1"]}]
WithApps == [Healthy EXCEPT !.installations = ("s" :> Installed({"checks"})),
                            !.checks = {[issuer |-> Absent, context |-> "ci", integration |-> "i1"]}]

\* Observations that are incomplete, of another organization, behind the
\* catalog, or with an installation nobody attested.
Observations ==
  [Estate(Sharing :> SharingIs("none"),
          {WithApp(Attested({<<"r", 1>>}), 5, "catalog"), WithApp(Attested({<<"r", 2>>}), 5, "catalog"),
           WithApp(Attested({<<"r", 1>>}), 1, "catalog"), WithApp(Attested({<<"r", 1>>}), 5, "other"),
           [WithApp(Attested({<<"r", 1>>}), 5, "catalog") EXCEPT !.capabilities = {"enterprise"}],
           [WithApp(Attested({<<"r", 1>>}), 5, "catalog") EXCEPT !.activation = {"review-pending"}],
           [WithApp(Attested({<<"r", 1>>}), 5, "catalog") EXCEPT !.repositories["r"].grants =
                                                                    ("own" :> "push")]}, <<>>,
          Sharing :> Offers({SharingIs("organization")}))
   EXCEPT !.health =
     {WithApps, [WithApps EXCEPT !.core_complete = FALSE], [WithApps EXCEPT !.complete = FALSE],
      [WithApps EXCEPT !.unknown = TRUE], [WithApps EXCEPT !.converged = FALSE],
      [WithApps EXCEPT !.organization = "other"], [WithApps EXCEPT !.ids = <<>>],
      [WithApps EXCEPT !.installations["s"].suspended = TRUE],
      [WithApps EXCEPT !.installations["s"].scope = {"checks", "contents"}],
      [WithApps EXCEPT !.checks = {}], [WithApps EXCEPT !.two_factor = FALSE],
      [WithApps EXCEPT !.unidentified = {TeamAt("own")}], Healthy}]

-----------------------------------------------------------------------------
AllWorlds ==
  [members |-> Members, teams |-> Teams, adopting |-> Adopting, retirements |-> Retirements, outsiders |-> Outsiders,
   repositories |-> Repositories, founder |-> Founder, migrating |-> Migrating,
   classification |-> Classification, actions |-> Actioned, subjects |-> Subjects,
   environments |-> Environments, policies |-> Policies, review_rules |-> ReviewRules,
   check_rules |-> CheckRules, tag_rules |-> TagRules, identities |-> Identities,
   changes |-> Changes, observations |-> Observations, dropping |-> Dropping]

MCWorld == AllWorlds
MCWorldNames == DOMAIN AllWorlds \ {"dropping"}
MCOrphanNames == {"dropping"}
MCFounderRepositories == ("r" :> "internal")

\* The hypotheses of the theorems hold of every estate explored, and the one
\* that loses a value is the one whose reviewers let it go.
ASSUME ReviewedWorlds == \A w \in MCWorldNames : LegacyKept(w) /\ PeopleLeftAlone(w)
ASSUME UnreviewedWorlds == \A w \in MCOrphanNames : ~LegacyKept(w)
=============================================================================
