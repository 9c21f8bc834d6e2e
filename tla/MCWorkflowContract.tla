------------------------- MODULE MCWorkflowContract -------------------------
(* Families of invocations, each free where one question is asked:
   which file calls which, which permissions they carry, and which checkout,
   flag, pin or candidate the command is started with. *)
EXTENDS Doctor, TLC

CONSTANTS failed, absent, link, partial, config, github, code, a, b, c, one, two, j1, j2, contents, models, ref, act, old, new,
          none

MCRepository == {config, github}
MCNothing == none

NoLevels == [s \in {contents, models} |-> 0]
All(text) == [text |-> text, map |-> <<>>]
Grants(level) == [text |-> "map", map |-> (contents :> level)]
Pinned(n, rev) == [kind |-> "pinned", repository |-> github, name |-> n, revision |-> rev]
Relative(n) == [kind |-> "relative", name |-> n]
OwnPinned(rev) == [kind |-> "pinned", repository |-> config, name |-> a, revision |-> rev]
LocalPath(canonical) == [kind |-> "path", inside |-> TRUE, canonical |-> canonical]
OutsidePath == [kind |-> "path", inside |-> FALSE, canonical |-> FALSE]
Action(commit) == [kind |-> "action", source |-> act, commit |-> commit]
Floating == [kind |-> "floating"]

Idle == [uses |-> none, permissions |-> none, steps |-> {}, with |-> {}, inherit |-> FALSE]
Calling(use) == [Idle EXCEPT !.uses = use]
File(jobOne, jobTwo) ==
  [callable |-> TRUE, inputs |-> {}, required |-> {}, permissions |-> All("other"),
   jobs |-> (j1 :> jobOne @@ j2 :> jobTwo)]

Entry == [repository |-> config, name |-> a, revision |-> one]
SharedA == [repository |-> github, name |-> a, revision |-> two]
SharedB == [repository |-> github, name |-> b, revision |-> two]
Aside == [repository |-> config, name |-> b, revision |-> one]   \* not in the inventory
CatalogA == [repository |-> github, name |-> a, revision |-> one]
CatalogB == [repository |-> github, name |-> b, revision |-> one]

Files(entry, sharedA, sharedB) ==
  Entry :> entry @@ SharedA :> sharedA @@ SharedB :> sharedB

Reviewed2 == [state |-> "reviewed", revision |-> one, implementation |-> two, workflows |-> {a, b}]
Plain ==
  [source |-> Files(File(Idle, Idle), File(Idle, Idle), File(Idle, Idle)),
   allowed |-> (act :> new @@ config :> one @@ github :> one), authority |-> (github :> Reviewed2), managed |-> {config, github},
   head |-> (config :> one @@ github :> one @@ code :> two),
   authorityRoot |-> TRUE, requireAuthorities |-> TRUE,
   environmentRoot |-> FALSE, environmentRequires |-> FALSE,
   candidate |-> none, candidateHead |-> none]

(* Every graph of calls among the three files, two calls to a file. *)
SharedUses == {none, Relative(a), Relative(b)}
Graphs ==
  {[Plain EXCEPT !.source =
      Files(File(Calling(u), Calling(v)), File(Calling(w), Calling(x)), File(Calling(y), Calling(z)))] :
     u \in {none, Relative(a), Pinned(a, two)}, v \in {none, Pinned(b, two)},
     w \in SharedUses, x \in SharedUses, y \in SharedUses, z \in SharedUses}

(* A chain of two calls, every place a permission can be written in free. *)
Values == {none, All("write-all"), Grants("read"), Grants("write")}
Needing(level) ==
  [Idle EXCEPT !.steps = {[uses |-> Action(new), needs |-> [NoLevels EXCEPT ![contents] = level]]}]
Topped(file, value) == [file EXCEPT !.permissions = value]
Chains ==
  {[Plain EXCEPT !.source =
      Files(Topped(File([Calling(Pinned(a, two)) EXCEPT !.permissions = u], Idle), v),
            Topped(File([Calling(Relative(b)) EXCEPT !.permissions = w], Idle), x),
            Topped(File([Needing(n) EXCEPT !.permissions = y], Idle), Grants("read")))] :
     u \in Values, v \in {All("other"), All("read-all"), All("write-all")}, w \in Values,
     x \in {All("other"), All("read-all")}, y \in Values, n \in {0, 2}}

(* Pins, checkouts, candidates, parameters and flags. *)
Stepping(use) == [Idle EXCEPT !.steps = {[uses |-> use, needs |-> NoLevels]}]
Bindings ==
  {[Plain EXCEPT
      !.source = Files(File([Calling(u) EXCEPT !.with = given], Stepping(p)),
                       [File(Calling(Relative(b)), Idle) EXCEPT
                          !.inputs = {ref}, !.required = {ref}, !.callable = called],
                       File(Idle, Idle))] :
     u \in {Pinned(a, one), Pinned(a, two), Floating, Relative(b)},
     given \in {{}, {ref}}, p \in {Action(new), Action(old), Floating}, called \in BOOLEAN}

(* Every kind of reference in every place: in a call and in a step of a canonical
   file, and of a file that the catalog does not look at. *)
References ==
  {Relative(b), LocalPath(TRUE), LocalPath(FALSE), OutsidePath, Pinned(a, one), Pinned(a, two),
   Pinned(c, two), OwnPinned(one), OwnPinned(two), Action(new), Action(old), Floating}
Places ==
  {[Plain EXCEPT !.source = Files(File(Calling(u), Idle), File(Idle, Idle), File(Idle, Idle))
                              @@ Aside :> File(Calling(v), Idle)] :
     u \in References, v \in References}
    \cup {[Plain EXCEPT !.source = Files(File(Stepping(u), Stepping(w)), File(Idle, Idle), File(Idle, Idle))
                              @@ Aside :> File(Stepping(v), Idle)] :
         u \in References, v \in References, w \in {Action(new), LocalPath(FALSE)}}

Checkouts ==
  {[Plain EXCEPT
      !.source = Files(File(Calling(Pinned(a, two)), Stepping(p)),
                       File(Calling(Relative(b)), Stepping(q)), File(Idle, Idle))
                   @@ CatalogA :> File(Calling(Relative(b)), Stepping(q)) @@ CatalogB :> File(Idle, Idle),
      !.authority = (github :> [Reviewed2 EXCEPT !.state = s, !.revision = IF s = "blocked" THEN none ELSE one]),
      !.head[code] = h, !.head[github] = g,
      !.authorityRoot = root, !.requireAuthorities = require,
      !.environmentRoot = envRoot, !.environmentRequires = envRequires,
      !.candidate = cand, !.candidateHead = candHead] :
     p \in {Action(new), Action(old)}, q \in {Action(new), Action(old)},
     s \in {"reviewed", "blocked"}, h \in {one, two, none}, g \in {one, two},
     root \in BOOLEAN, require \in BOOLEAN, envRoot \in BOOLEAN, envRequires \in BOOLEAN,
     cand \in {none, config, github}, candHead \in {one, two}}

(* What the doctor is started on: every status an authority can have, a contract
   that does not hold, one that fails to load, and a catalog that is refused. *)
MCDiagnosed ==
  {w \in Checkouts :
     /\ w.candidate = none /\ w.candidateHead = one
     /\ ~w.environmentRoot /\ ~w.environmentRequires
     /\ w.head[github] = one
     /\ w.source[Entry].jobs[j2] = Stepping(Action(new))}
    \cup {[Plain EXCEPT !.authority[github].workflows = {a, c}],
          [Plain EXCEPT !.authority[github].implementation = one]}

Clean == [complete |-> TRUE, drift |-> FALSE, founderPolicy |-> TRUE,
          bypassAudit |-> "clean", secrets |-> "clean"]
MCObservations ==
  {Failed, Clean, [Clean EXCEPT !.drift = TRUE], [Clean EXCEPT !.complete = FALSE],
   [Clean EXCEPT !.complete = FALSE, !.drift = TRUE], [Clean EXCEPT !.founderPolicy = FALSE],
   [Clean EXCEPT !.bypassAudit = "unknown", !.secrets = "invalid"]}

MCWorlds == MCDiagnosed \cup Graphs \cup Chains \cup Bindings \cup Places \cup Checkouts
=============================================================================
