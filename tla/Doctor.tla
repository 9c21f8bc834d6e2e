------------------------------- MODULE Doctor -------------------------------
(***************************************************************************)
(* `github-configctl doctor`: it runs the workflow contract, reads an      *)
(* observation, composes one report of seven checks and writes it twice,   *)
(* as JSON and then as Markdown, each through a temporary file that is     *)
(* renamed over the output.  Every write can fail, the process can be      *)
(* killed between any two steps, and the command can be run again over     *)
(* what the disk then holds.                                               *)
(*                                                                         *)
(* `pc` is "off" while the contract runs as a command of its own.          *)
(***************************************************************************)
EXTENDS WorkflowContract

CONSTANTS
  Diagnosed,      \* the worlds the doctor is run in
  Observations,   \* what observing GitHub can return, or Failed
  Failed,
  Absent, Link, Partial,   \* an output: no file, a symlink; a temporary not yet whole
  MaxInvocations           \* bound: invocations of the doctor over one disk

Output == {"json", "markdown"}
Audit == {"clean", "invalid", "unknown"}   \* healthy or clean; drift or invalid; anything else
Observation == [complete: BOOLEAN, drift: BOOLEAN, founderPolicy: BOOLEAN,
                bypassAudit: Audit, secrets: Audit]

Status == {"healthy", "drift", "degraded"}
CheckName == {"catalog", "observation", "effective_state", "workflow_contract",
              "founder_bypass_policy", "founder_bypass_audit", "secret_metadata"}
Reports == [run: Nat, status: Status, checks: UNION {[C -> Status] : C \in SUBSET CheckName}]

ASSUME DoctorConstants ==
  /\ Diagnosed \subseteq Worlds /\ \A w \in Diagnosed : w.candidate = Nothing
  /\ Observations \subseteq Observation \cup {Failed} /\ Failed \notin Observation
  /\ Absent # Link /\ Absent # Partial /\ Link # Partial
  /\ \A mark \in {Absent, Link, Partial} : mark \notin Reports
  /\ MaxInvocations \in Nat

VARIABLES
  pc,           \* "off", "contract", "observe", an output, "done"
  invocation,   \* how often the doctor was started
  observed,     \* what this invocation observed
  report,       \* the report in memory
  disk,         \* the two outputs
  temporary,    \* the temporary file of the write in progress
  exit          \* the exit status, "none" while it runs

doctorVars == <<pc, invocation, observed, report, disk, temporary, exit>>
allVars == <<vars, doctorVars>>

-----------------------------------------------------------------------------
(* The report *)

MissingOnly ==   \* mutant: no authority root at all is complete information
  \/ \E r \in DOMAIN checked : checked[r] = "missing"
  \/ \E v \in violations : v[1] = "AUTHORITY_UNAVAILABLE"

(* workflowContractIncomplete *)
ContractIncomplete ==
  \/ \E r \in DOMAIN checked : checked[r] \in {"missing", "not_provided"}
  \/ \E v \in violations : v[1] = "AUTHORITY_UNAVAILABLE"

ContractCheck ==
  CASE ContractIncomplete -> "degraded"
    [] ~ContractIncomplete /\ phase = "valid" -> "healthy"
    [] OTHER -> "drift"

AuditCheck(audit) ==
  CASE audit = "clean" -> "healthy" [] audit = "invalid" -> "drift" [] OTHER -> "degraded"

Checks(o) ==
  [catalog |-> "healthy",
   observation |-> IF o.complete THEN "healthy" ELSE "degraded",
   effective_state |-> IF o.drift THEN "drift" ELSE "healthy",
   workflow_contract |-> ContractCheck,
   founder_bypass_policy |-> IF o.founderPolicy THEN "healthy" ELSE "drift",
   founder_bypass_audit |-> AuditCheck(o.bypassAudit),
   secret_metadata |-> AuditCheck(o.secrets)]

(* Missing information takes precedence over confirmed drift. *)
Worst(checks) ==
  LET found == {checks[c] : c \in DOMAIN checks} IN
  IF "degraded" \in found THEN "degraded" ELSE IF "drift" \in found THEN "drift" ELSE "healthy"

Compose(checks) == [run |-> invocation, status |-> Worst(checks), checks |-> checks]

OperationalFailure(check) == Compose([c \in {check} |-> "degraded"])

-----------------------------------------------------------------------------
(* The command *)

Stop(status) == pc' = "done" /\ exit' = status

(* A catalog that does not compile ends the command before there is a report;
   any other failure to load is reported. *)
EndContract ==
  /\ pc = "contract" /\ Ended
  /\ CASE ~CatalogAccepts -> Stop("1") /\ UNCHANGED report
       [] CatalogAccepts /\ phase = "error" ->
            pc' = "json" /\ report' = OperationalFailure("workflow_contract") /\ UNCHANGED exit
       [] OTHER -> pc' = "observe" /\ UNCHANGED <<report, exit>>
  /\ UNCHANGED <<vars, invocation, observed, disk, temporary>>

ReadObservation ==
  /\ pc = "observe"
  /\ \E o \in Observations :
       /\ observed' = o
       /\ report' = IF o = Failed THEN OperationalFailure("observation") ELSE Compose(Checks(o))
  /\ pc' = "json"
  /\ UNCHANGED <<vars, invocation, disk, temporary, exit>>

CreateInPlace ==   \* mutant: the output itself is opened and written
  /\ pc \in Output /\ temporary = Absent /\ disk[pc] # Link
  /\ temporary' = Partial
  /\ disk' = [disk EXCEPT ![pc] = Partial]
  /\ UNCHANGED <<vars, pc, invocation, observed, report, exit>>

CreateTemporary ==
  /\ pc \in Output /\ temporary = Absent /\ disk[pc] # Link
  /\ temporary' = Partial
  /\ UNCHANGED <<vars, pc, invocation, observed, report, disk, exit>>

FillTemporary ==
  /\ pc \in Output /\ temporary = Partial
  /\ temporary' = report
  /\ UNCHANGED <<vars, pc, invocation, observed, report, disk, exit>>

ExitOf(status) ==
  CASE status = "healthy" -> "0" [] status = "drift" -> "2" [] OTHER -> "1"

Install ==
  /\ pc \in Output /\ temporary \notin {Absent, Partial}
  /\ disk' = [disk EXCEPT ![pc] = temporary]
  /\ temporary' = Absent
  /\ IF pc = "json" THEN pc' = "markdown" /\ UNCHANGED exit ELSE Stop(ExitOf(report.status))
  /\ UNCHANGED <<vars, invocation, observed, report>>

MarkdownFails ==   \* mutant: the summary is optional
  /\ pc \in Output
  /\ temporary' = Absent
  /\ IF pc = "json" THEN Stop("1") ELSE Stop(ExitOf(report.status))
  /\ UNCHANGED <<vars, invocation, observed, report, disk>>

(* Any call of WriteText may fail, and the refusal of a symlink does; the
   temporary is removed on the way out. *)
WriteFails ==
  /\ pc \in Output
  /\ temporary' = Absent
  /\ Stop("1")
  /\ UNCHANGED <<vars, invocation, observed, report, disk>>

(* The runner or the operator kills the process.  Its temporary stays in the
   directory under a name of its own that nothing reads. *)
Kill ==
  /\ pc \notin {"off", "done"}
  /\ temporary' = Absent
  /\ Stop("killed")
  /\ UNCHANGED <<vars, invocation, observed, report, disk>>

Again ==
  /\ pc = "done" /\ invocation < MaxInvocations
  /\ \E w \in Diagnosed : Invoke(w)
  /\ pc' = "contract" /\ exit' = "none"
  /\ invocation' = invocation + 1
  /\ observed' = Failed /\ report' = Absent
  /\ UNCHANGED <<disk, temporary>>

Contract == pc \in {"off", "contract"} /\ Validate /\ UNCHANGED doctorVars

Expand == pc = "off" /\ Run /\ UNCHANGED doctorVars

-----------------------------------------------------------------------------
DoctorInit ==
  /\ Init
  /\ pc \in (IF world \in Diagnosed THEN {"off", "contract"} ELSE {"off"})
  /\ invocation = IF pc = "off" THEN 0 ELSE 1
  /\ observed = Failed /\ report = Absent
  /\ disk \in IF pc = "off" THEN {[o \in Output |-> Absent]}
              ELSE [Output -> {Absent, Link}]
  /\ temporary = Absent
  /\ exit = "none"

Command ==
  \/ Contract
  \/ EndContract
  \/ ReadObservation
  \/ CreateTemporary
  \/ FillTemporary
  \/ Install
  \/ WriteFails

DoctorNext == Command \/ Expand \/ Kill \/ Again

(* The command is one sequential process: it goes on as long as it can. *)
DoctorSpec == DoctorInit /\ [][DoctorNext]_allVars /\ WF_allVars(Command)

-----------------------------------------------------------------------------
(* A reader of the outputs never sees half a report and never a Markdown that
   is ahead of its JSON, whatever fails and whenever the process dies
   (WriteText, writeDoctor). *)
OutputsWhole ==
  /\ \A o \in Output : disk[o] # Partial
  /\ disk["markdown"] \notin {Absent, Link} =>
       /\ disk["json"] \notin {Absent, Link}
       /\ disk["markdown"].run <= disk["json"].run

(* An exit status that stands for a verdict means that both outputs hold the
   report of this invocation with that verdict, and not what an earlier or a
   killed one left there. *)
ExitMeansPublished ==
  exit \in {"0", "2"} =>
    \A o \in Output :
      /\ disk[o] = report /\ disk[o].run = invocation
      /\ exit = ExitOf(disk[o].status)

WasRead(r) == world.authorityRoot /\ CheckoutHead(r) = Pin(r)

(* Before the doctor says "healthy" or "drift" the observation is complete, no
   audit is missing, an authority root was given, and each reviewed authority was
   checked at its reviewed revision, or else the report names it as the reason of
   a "drift": a checkout under the root that is absent or at another commit is a
   mismatch, whose files nobody read.  "Healthy" leaves no such authority, and
   means that nothing differs (Build, workflowContractIncomplete). *)
VerdictMeansKnown ==
  exit \in {"0", "2"} =>
    /\ observed # Failed
    /\ observed.complete /\ "unknown" \notin {observed.bypassAudit, observed.secrets}
    /\ \A r \in ReviewedAuthorities :
         \/ WasRead(r)
         \/ /\ exit = "2" /\ world.authorityRoot
            /\ <<"AUTHORITY_REVISION_MISMATCH", r>> \in violations
    /\ exit = "0" => ~observed.drift /\ observed.founderPolicy /\ phase = "valid"

(* Every invocation of either command ends: with a report, with an error, or
   because it was killed. *)
CommandEnds == []<>(IF pc = "off" THEN Ended ELSE pc = "done")
=============================================================================
