------------------------------- MODULE Observer -------------------------------
(***************************************************************************)
(* One observation of the organization and the drift report made of it.    *)
(* Observe reads the organization record, then one endpoint after another, *)
(* each under a budget of retries, the repository list page by page and    *)
(* the details of the declared repositories last, while people create,     *)
(* delete and change what it reads.  Some failed reads abort it; the others *)
(* leave an unknown part and a capability error, except that an on/off     *)
(* setting that is not found is taken to be off.                           *)
(*                                                                         *)
(* Abstractions.  A part is one endpoint's answer, with one value.  Time   *)
(* is what the waits between attempts take, in ticks.  A part reported     *)
(* together with the ruleset it belongs to still counts as reported.  The  *)
(* organization's rulesets are two parts or more: the declared ones, and   *)
(* those the catalog does not know.                                        *)
(***************************************************************************)
EXTENDS Integers, Sequences, FiniteSets, Functions

CONSTANTS
  Repo, Org,             \* repositories; the organization itself
  FatalPart, SoftPart,   \* an unreadable part aborts the observation, or is unknown
  DroppedPart,           \* the rulesets of a repository: unreadable, they are skipped
  RulesetPart, UndeclaredPart, \* the organization's rulesets; those not in the catalog
  EnabledPart,           \* settings read with checkEnabled
  PooledPart,            \* projected only if read of every listed repository
  GapPart,               \* declared, and exposed by no endpoint (runner policy)
  CriticalPart,          \* the organization's parts the critical scope compares
  Order, RepoOrder,      \* the parts in the order they are read
  Declared, Queued,      \* the catalog's repositories; those to have a merge queue
  Val, Wanted, Absent, Unknown, \* values of parts, the declared one, none, not read
  PageSize, MaxPages,
  MaxReadAttempts, RetryBase, RetryMaximum, RetryBudget, MaxInstructed,
  InitialRepos, MaxEvents \* where a check begins; changes while it observes

At(of, part) == [of |-> of, part |-> part]

OrgPart == (Range(Order) \ {"repositories"}) \cup GapPart
RepoPart == Range(RepoOrder)
Target == [of : {Org}, part : OrgPart] \cup [of : Repo, part : RepoPart]
Scope == {"full", "critical"}

ASSUME ConstantsAssumption ==
  /\ Org \notin Repo /\ IsFiniteSet(Repo) /\ Queued \subseteq Declared /\ Declared \subseteq Repo
  /\ Order \in Seq(FatalPart \cup SoftPart \cup {"repositories"})
  /\ RepoOrder \in Seq(FatalPart \cup SoftPart \cup DroppedPart)
  /\ "repositories" \notin FatalPart \cup SoftPart \cup DroppedPart \cup GapPart
  /\ RulesetPart \subseteq SoftPart \cap Range(Order) /\ UndeclaredPart \subseteq RulesetPart
  /\ EnabledPart \subseteq SoftPart \ (DroppedPart \cup RulesetPart)
  /\ Wanted \in Val /\ Absent \in Val \ {Wanted} /\ Unknown \notin Val
  /\ PageSize \in Nat \ {0} /\ MaxPages \in Nat \ {0} /\ MaxReadAttempts \in Nat \ {0}
  /\ RetryBase \in Nat /\ RetryMaximum \in Nat /\ RetryBudget \in Nat /\ MaxInstructed \in Nat
  /\ InitialRepos \subseteq Seq(Repo) /\ MaxEvents \in Nat
  /\ \A s \in InitialRepos : IsInjective(s)

VARIABLES
  repos, live, events,  \* the listing GitHub serves, every part, changes still allowed
  scope, todo, phase,   \* --scope, what is left to read, where Observe is
  attempt, waited,      \* of the read going on
  total, page, listed,  \* the count of the organization record, the enumeration
  seen, errors,         \* parts read, capability errors
  steady, was, counted  \* histories: repositories never deleted, values that were
                        \* live, the repositories there when they were counted

world == <<repos, live, events, steady, was>>
vars == <<world, scope, todo, phase, attempt, waited, total, page, listed, seen, errors, counted>>

ObserverTypeOK ==
  /\ repos \in Seq(Repo) /\ live \in [Target -> Val] /\ events \in Nat
  /\ scope \in Scope /\ phase \in {"organization", "parts", "done", "failed"}
  /\ \A t \in Range(todo) : t \in Target \/ t = At(Org, "repositories")
  /\ attempt \in 1..MaxReadAttempts /\ waited \in 0..RetryBudget
  /\ total \in Nat /\ page \in 1..MaxPages /\ listed \in Seq(Repo)
  /\ seen \in [Target -> Val \cup {Unknown}] /\ errors \subseteq Target
  /\ steady \subseteq Repo /\ was \in [Target -> SUBSET Val] /\ counted \subseteq Repo

\* What the catalog says of a part: no ruleset beyond the declared ones, and
\* none of their own for repositories without a merge queue.
Desired(t) ==
  IF t.part \in UndeclaredPart \/ (t.part \in DroppedPart /\ t.of \notin Queued)
    THEN Absent ELSE Wanted

Opposite(t) == IF Desired(t) = Wanted THEN Absent ELSE Wanted

\* All is as declared, or nothing is.
Init ==
  /\ repos \in InitialRepos /\ events = MaxEvents
  /\ live \in {[t \in Target |-> Desired(t)], [t \in Target |-> Opposite(t)]}
  /\ scope \in Scope /\ phase = "organization" /\ attempt = 1 /\ waited = 0
  /\ todo = [i \in DOMAIN Order |-> At(Org, Order[i])]
  /\ total = 0 /\ page = 1 /\ listed = <<>>
  /\ seen = [t \in Target |-> Unknown] /\ errors = {}
  /\ steady = Range(repos) /\ was = [t \in Target |-> {live[t]}] /\ counted = {}

-----------------------------------------------------------------------------
(* The organization changes while it is read.                              *)

Reading == phase \in {"organization", "parts"}
Disturb ==
  /\ Reading /\ events > 0 /\ events' = events - 1
  /\ UNCHANGED <<scope, todo, phase, attempt, waited, total, page, listed, seen, errors, counted>>

\* A part that Observe may read is changed; the others make no difference to it.
Edit(t, v) ==
  /\ Disturb /\ v # live[t]
  /\ t.of \in (Range(repos) \cap Declared) \cup {Org} /\ t.part \notin GapPart
  /\ live' = [live EXCEPT ![t] = v] /\ was' = [was EXCEPT ![t] = @ \cup {v}]
  /\ UNCHANGED <<repos, steady>>

With(s, k, r) == SubSeq(s, 1, k) \o <<r>> \o SubSeq(s, k + 1, Len(s))
Without(s, k) == SubSeq(s, 1, k - 1) \o SubSeq(s, k + 1, Len(s))

\* A repository appears anywhere in the listing.
Create(r, k) ==
  /\ Disturb /\ r \notin Range(repos)
  /\ repos' = With(repos, k, r)
  /\ UNCHANGED <<live, steady, was>>

Delete(k) ==
  /\ Disturb /\ steady' = steady \ {repos[k]}
  /\ repos' = Without(repos, k)
  /\ UNCHANGED <<live, was>>

-----------------------------------------------------------------------------
(* One read: attempts under a budget.                                      *)

Least(a, b) == IF a <= b THEN a ELSE b
Greatest(a, b) == IF a <= b THEN b ELSE a

Backoff(n) == Least(RetryBase * 2^(n - 1), RetryMaximum)

\* The wait after attempt n: backoff and jitter, or longer if told so.
Delays(n) == {Greatest(Backoff(n) + j, told) : j \in 0..(Backoff(n) \div 2), told \in 0..MaxInstructed}

\* Mutant: the budget is looked at before the wait is added.
WithinSoFar(d) == waited <= RetryBudget

Within(d) == waited + d <= RetryBudget

\* A transient failure is tried again while attempts and budget last.
Retry ==
  /\ Reading /\ (phase = "parts" => todo # <<>>) /\ attempt < MaxReadAttempts
  /\ \E d \in Delays(attempt) : Within(d) /\ waited' = waited + d
  /\ attempt' = attempt + 1
  /\ UNCHANGED <<world, scope, todo, phase, total, page, listed, seen, errors, counted>>

NextRead == attempt' = 1 /\ waited' = 0 /\ UNCHANGED <<world, scope>>

-----------------------------------------------------------------------------
(* What an answer, or giving up, does.                                     *)

ReadOrganization ==
  /\ phase = "organization" /\ phase' = "parts" /\ NextRead
  /\ total' = Len(repos) /\ counted' = Range(repos)
  /\ UNCHANGED <<todo, page, listed, seen, errors>>

\* The details of the declared repositories that were listed, one repository
\* after another; the critical scope reads none.
Details(names) ==
  LET each == IF scope = "full" THEN Declared \cap names ELSE {}
      sorted == CHOOSE s \in [1..Cardinality(each) -> each] : Range(s) = each
      n == Len(RepoOrder)
  IN [i \in 1..(n * Len(sorted)) |-> At(sorted[((i - 1) \div n) + 1], RepoOrder[((i - 1) % n) + 1])]

Page(n) == SubSeq(repos, (n - 1) * PageSize + 1, Least(n * PageSize, Len(repos)))

AtList == phase = "parts" /\ todo # <<>> /\ Head(todo).part = "repositories"

\* Mutant: a list that disagrees with the count is read once more.
LastPageOrAgain ==
  /\ Len(Page(page)) < PageSize
  /\ IF Cardinality(Range(listed')) = total
       THEN todo' = Tail(todo) \o Details(Range(listed')) /\ UNCHANGED <<phase, page>>
       ELSE page' = 1 /\ UNCHANGED <<phase, todo>>

\* A short page ends the list, whatever the list has become since its start.
LastPage ==
  /\ Len(Page(page)) < PageSize
  /\ todo' = Tail(todo) \o Details(Range(listed')) /\ UNCHANGED <<phase, page>>

FullPage ==
  /\ Len(Page(page)) = PageSize /\ UNCHANGED todo
  /\ IF page = MaxPages THEN phase' = "failed" /\ UNCHANGED page
                        ELSE page' = page + 1 /\ UNCHANGED phase

ReadPage ==
  /\ AtList /\ NextRead
  /\ listed' = (IF page = 1 THEN <<>> ELSE listed) \o Page(page)
  /\ LastPage \/ FullPage
  /\ UNCHANGED <<total, seen, errors, counted>>

ReadPart ==
  /\ phase = "parts" /\ todo # <<>> /\ ~AtList /\ NextRead
  /\ Head(todo).of \in Range(repos) \cup {Org}
  /\ seen' = [seen EXCEPT ![Head(todo)] = live[Head(todo)]] /\ todo' = Tail(todo)
  /\ UNCHANGED <<phase, total, page, listed, errors, counted>>

\* Mutant: a part that cannot be read leaves no capability error.
RecordNothing(t) == UNCHANGED errors

\* recordCapabilityError
Record(t) == errors' = errors \cup {t}

\* checkEnabled answers "off" when the setting is not found: it is off, its
\* repository is gone, or the token may not see it.  No error is recorded.
NotFound ==
  /\ phase = "parts" /\ todo # <<>> /\ Head(todo).part \in EnabledPart /\ NextRead
  /\ seen' = [seen EXCEPT ![Head(todo)] = Absent] /\ todo' = Tail(todo)
  /\ UNCHANGED <<phase, total, page, listed, errors, counted>>

\* A refusal, a vanished repository, or a transient failure for the last time.
GiveUp ==
  /\ Reading /\ (phase = "parts" => todo # <<>>) /\ NextRead
  /\ IF phase = "parts" /\ Head(todo).part \in SoftPart \cup DroppedPart
       THEN Record(Head(todo)) /\ todo' = Tail(todo) /\ UNCHANGED phase
       ELSE phase' = "failed" /\ UNCHANGED <<errors, todo>>
  /\ UNCHANGED <<total, page, listed, seen, counted>>

Finish ==
  /\ phase = "parts" /\ todo = <<>> /\ phase' = "done"
  /\ UNCHANGED <<world, scope, todo, attempt, waited, total, page, listed, seen, errors, counted>>

-----------------------------------------------------------------------------
(* What is concluded from the observation.                                 *)

\* Mutant: the entries are counted, not the names.
EntriesComplete == Len(listed) = total

\* repository_inventory_complete, also core_observation_complete.
InventoryComplete == Cardinality(Range(listed)) = total

\* observation_complete
ObservationComplete == InventoryComplete /\ errors = {}

\* The parts the two projections hold.  The rulesets of a repository belong to
\* the rulesets section, which the critical scope compares too.
Compared ==
  {At(Org, p) : p \in IF scope = "full" THEN OrgPart ELSE OrgPart \cap CriticalPart}
    \cup {At(r, p) : r \in Declared \cap Range(listed), p \in IF scope = "full" THEN RepoPart ELSE {}}
    \cup {At(r, p) : r \in Declared, p \in RepoPart \cap DroppedPart}

\* Mutant: what is unknown is passed over.
ProjectedIfKnown(t) == IF seen[t] = Unknown THEN Desired(t) ELSE seen[t]

\* rulesetsKnown: every ruleset of the organization was read.
RulesetsKnown == \A p \in RulesetPart : seen[At(Org, p)] # Unknown

\* What is left out of the projection, as if there were none: the rulesets of a
\* repository that were not read, and the organization's undeclared rulesets,
\* read or not, unless all of its rulesets were.
LeftOut(t) ==
  \/ t.part \in DroppedPart /\ seen[t] = Unknown
  \/ t.part \in UndeclaredPart /\ ~RulesetsKnown

\* One field for all repositories: unknown if a listed one was not read, and a
\* setting that is not on, or not known, in any declared one (allRepositoryBools).
FieldUnknown(p) ==
  \/ p \in PooledPart /\ \E r \in Declared \cap Range(listed) : seen[At(r, p)] = Unknown
  \/ p \in EnabledPart /\ \E r \in Declared : seen[At(r, p)] # Wanted

\* The value compared; an unknown one equals no declared one.
Projected(t) ==
  IF LeftOut(t) THEN Absent ELSE IF FieldUnknown(t.part) THEN Unknown ELSE seen[t]

\* The changes of the report, besides repositories missing or extra.
Differences == {t \in Compared : Projected(t) # Desired(t)}

-----------------------------------------------------------------------------
Observe == ReadOrganization \/ ReadPage \/ ReadPart \/ NotFound \/ GiveUp \/ Retry \/ Finish

Next ==
  \/ \E t \in Target, v \in Val : Edit(t, v)
  \/ \E r \in Repo, k \in 0..Len(repos) : Create(r, k)
  \/ \E k \in DOMAIN repos : Delete(k)
  \/ Observe

Spec == Init /\ [][Next]_vars

\* Every request is answered or times out.
FairSpec == Spec /\ WF_vars(Observe)

-----------------------------------------------------------------------------
(* Properties.                                                             *)

\* An inventory declared complete names every repository that was there all
\* along, unless it names one that did not exist when the count was taken.
CompleteInventoryMissesNothing ==
  phase = "done" /\ InventoryComplete =>
    steady \subseteq Range(listed) \/ ~(Range(listed) \subseteq counted)

\* A part the report is silent about had its declared value at some moment of
\* the observation, or it was left out of the projection.  What is left out has
\* an error that says so, its own or that of another ruleset; only the rulesets
\* of repositories that this scope, or the list, did not lead to have none.
SilenceMeansSeen ==
  phase = "done" =>
    \A t \in Compared \ Differences :
      \/ Desired(t) \in was[t]
      \/ t.part \in DroppedPart /\ (t \in errors \/ scope = "critical" \/ t.of \notin Range(listed))
      \/ t.part \in UndeclaredPart /\ \E p \in RulesetPart : At(Org, p) \in errors

\* A complete observation holds, for every part that its scope reads, a value
\* that was live while it observed: nothing unread is left without an error.  A
\* setting that was not found may never have been off; the report then shows it.
CompleteMeansSeen ==
  phase = "done" /\ ObservationComplete =>
    \A t \in Compared :
      \/ t.part \in GapPart \/ seen[t] \in was[t]
      \/ t.part \in EnabledPart /\ seen[t] = Absent /\ t \in Differences
      \/ t.of # Org /\ (scope = "critical" \/ t.of \notin Range(listed))

\* Every observation ends, whatever GitHub answers and however it changes.
ObservationEnds == <>(phase \in {"done", "failed"})
===============================================================================
