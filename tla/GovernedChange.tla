---------------------------- MODULE GovernedChange ----------------------------
(***************************************************************************)
(* What the protected-apply workflow promises, with no jobs, runners or    *)
(* clocks: the organization changes by hand, or through a window that one  *)
(* permit opens once, on the exact plan reviewed under that permit before  *)
(* it was approved, while main still is the revision the plan was made of. *)
(***************************************************************************)
EXTENDS Integers

CONSTANTS Permit, Obj, Val, Sha, Change, Prohibited, NoPermit

VARIABLES
  main, live,     \* protected main and the organization
  reviewed,       \* the plan and revision bound to each permit, at most one
  approved,       \* permits a person released
  spent,          \* permits whose window was opened
  window          \* the permit whose window is open, or NoPermit

vars == <<main, live, reviewed, approved, spent, window>>

Binding == [permit : Permit, sha : Sha, plan : SUBSET Change]
PlanFor(p) == UNION {b.plan : b \in {x \in reviewed : x.permit = p}}

Init ==
  /\ main \in Sha /\ live \in [Obj -> Val]
  /\ reviewed = {} /\ approved = {} /\ spent = {} /\ window = NoPermit

AdvanceMain ==
  /\ main' \in Sha /\ main' > main
  /\ UNCHANGED <<live, reviewed, approved, spent, window>>

ByHand ==
  /\ \E o \in Obj, v \in Val : live' = [live EXCEPT ![o] = v]
  /\ UNCHANGED <<main, reviewed, approved, spent, window>>

\* A permit is bound to one plan, before anyone approves it.
Review(p) ==
  /\ p \notin approved /\ \A b \in reviewed : b.permit # p
  /\ \E b \in reviewed' : b \in Binding /\ b.permit = p /\ reviewed' = reviewed \cup {b}
  /\ UNCHANGED <<main, live, approved, spent, window>>

Approve(p) ==
  /\ p \notin spent /\ approved' = approved \cup {p}
  /\ UNCHANGED <<main, live, reviewed, spent, window>>

Open(p) ==
  /\ window = NoPermit /\ p \in approved \ spent
  /\ \E b \in reviewed : b.permit = p /\ b.sha = main
  /\ window' = p /\ spent' = spent \cup {p}
  /\ UNCHANGED <<main, live, reviewed, approved>>

Write(c) ==
  /\ window # NoPermit /\ c \in PlanFor(window) \ Prohibited
  /\ live' = [live EXCEPT ![c.obj] = c.after]
  /\ UNCHANGED <<main, reviewed, approved, spent, window>>

Close ==
  /\ window # NoPermit /\ window' = NoPermit
  /\ UNCHANGED <<main, live, reviewed, approved, spent>>

Next ==
  \/ AdvanceMain \/ ByHand \/ Close
  \/ \E p \in Permit : Review(p) \/ Approve(p) \/ Open(p)
  \/ \E c \in Change : Write(c)

Spec == Init /\ [][Next]_vars
===============================================================================
