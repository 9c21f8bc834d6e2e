--------------------------- MODULE MCProtectedApply ---------------------------
(* Small instances of ProtectedApply: a team that the first commit declares   *)
(* and the second removes, and a ruleset that both declare active.            *)
EXTENDS ProtectedApply, TLC

CONSTANTS r1, r2, team, rules, gone, held, on

MCCatalog == [s \in Sha |-> (team :> IF s = 1 THEN on ELSE gone) @@ (rules :> on)]
MCProhibited == {c \in Change : c.obj = rules /\ c.before # gone /\ c.after = gone}
MCExpanding == {c \in Change : c.obj = team /\ c.before = held /\ c.after = on}

Ask(ph, e, k) == [phase |-> ph, exception |-> e, risk |-> k]
MCOffer == {Ask("adopt", FALSE, FALSE), Ask("foundation", FALSE, FALSE),
            Ask("foundation", TRUE, FALSE), Ask("foundation", TRUE, TRUE),
            Ask("enforce", FALSE, FALSE)}
MCRisk == {Ask("foundation", FALSE, TRUE)}
MCFounder == {Ask("foundation", TRUE, TRUE)}

MCFounded == {(team :> on) @@ (rules :> held)}
MCHeld == {(team :> held) @@ (rules :> held)}
MCLive == MCFounded \cup MCHeld
MCNothingManaged == {{}}
MCImported == {{team, rules}}
MCManaged == MCNothingManaged \cup MCImported
MCIndependent == {[s \in Sha |-> "independent"]}
MCReview == {[s \in Sha |-> IF s = 1 THEN "founder" ELSE "independent"]}

-------------------------------------------------------------------------------
\* README.md:301 says enforce activates qualified protections: an enforce run
\* for which only rulesets remain to be activated gets a plan to approve.
EnforceReachesApproval ==
  \A r \in Run :
    (stage[r] = "plan-observe" /\ input[r].phase = "enforce" /\ live = Target(live, Sought(r), "foundation"))
      ~> stage[r] = "approval"

\* SECURITY.md:48 says the founder exception binds one single-use receipt: at
\* most one attempt ever consumes it.
FounderExceptionUsedOnce == \A p, q \in consumed : p = q
===============================================================================
