------------------------------ MODULE MCObserver ------------------------------
(***************************************************************************)
(* Instances of Observer: at most three repositories listed one per page,  *)
(* one endpoint of each kind, and budgets small enough to be exhausted by  *)
(* attempts, by backoff and by an instructed wait.                         *)
(***************************************************************************)
EXTENDS Observer, TLC

CONSTANTS a, b, c

MCOrder == <<"actions", "repositories", "rulesets", "undeclared_rulesets">>
MCRepoOrder == <<"repository_rulesets", "environments", "dependency_graph">>
MCInitialRepos == {<<a, b>>}

===============================================================================
