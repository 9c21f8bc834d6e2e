---------------------------- MODULE Doctor_proofs ----------------------------
(***************************************************************************)
(* Proofs about Doctor for every set of worlds and observations, any       *)
(* number of invocations over one disk and any write that fails.           *)
(***************************************************************************)
EXTENDS Doctor, WorkflowContract_proofs

Reporting == {"json", "markdown", "done"}

\* Where the command is and what its variables can hold there.
Positions ==
  /\ pc \in {"off", "contract", "observe"} \cup Reporting
  /\ invocation \in Nat
  /\ disk \in [Output -> {Absent, Link} \cup Reports]
  /\ report \in {Absent} \cup Reports
  /\ pc = "observe" => phase \in {"valid", "invalid"}
  /\ pc \in Output => report # Absent
  /\ pc \notin Reporting => report = Absent
  /\ pc \notin Output => temporary = Absent
  /\ pc # "done" => exit = "none"
  /\ exit \in {"0", "2"} => report # Absent

\* A report, in memory or on the disk, is of an invocation that was started.
RunsKnown ==
  /\ report # Absent => report.run = invocation
  /\ \A o \in Output : disk[o] \in Reports => disk[o].run <= invocation

\* The write in progress holds nothing but the report of this invocation, and
\* the Markdown is written after the JSON.
WritesOrdered ==
  /\ temporary \in {Absent, Partial, report}
  /\ pc = "markdown" => disk["json"] = report

\* A reviewed authority that nobody read has a violation of its own.
Mismatched(r) ==
  world.authorityRoot /\ <<"AUTHORITY_REVISION_MISMATCH", r>> \in violations

\* A report that is not degraded was composed on what the observation and the
\* audits said and on every reviewed authority, or names the one it is without.
Judged ==
  pc \in Reporting /\ report # Absent /\ report.status # "degraded" =>
    /\ observed # Failed
    /\ observed.complete /\ "unknown" \notin {observed.bypassAudit, observed.secrets}
    /\ \A r \in ReviewedAuthorities : WasRead(r) \/ Mismatched(r)
    /\ report.status = "healthy" =>
         /\ ~observed.drift /\ observed.founderPolicy
         /\ phase = "valid"
         /\ \A r \in ReviewedAuthorities : WasRead(r)

DoctorInv ==
  /\ IInv /\ Positions /\ RunsKnown /\ WritesOrdered /\ Judged
  /\ OutputsWhole /\ ExitMeansPublished

-----------------------------------------------------------------------------
(* The report                                                              *)

\* A report of checks with known results is a report.
LEMMA Composed ==
  ASSUME NEW C \in SUBSET CheckName, NEW checks \in [C -> Status], invocation \in Nat
  PROVE  /\ Compose(checks) \in Reports /\ Compose(checks) # Absent
         /\ Compose(checks).run = invocation
         /\ Compose(checks).status # "degraded" => \A c \in C : checks[c] # "degraded"
         /\ Compose(checks).status = "healthy" => \A c \in C : checks[c] = "healthy"
<1>1. Worst(checks) \in Status
  BY Zenon DEF Worst, Status
<1>2. DOMAIN checks = C /\ \A c \in C : checks[c] \in Status
  OBVIOUS
<1>3. Worst(checks) # "degraded" => \A c \in C : checks[c] # "degraded"
  BY <1>2 DEF Worst
<1>4. Worst(checks) = "healthy" => \A c \in C : checks[c] = "healthy"
  BY <1>2 DEF Worst, Status
<1>5. checks \in UNION {[D -> Status] : D \in SUBSET CheckName}
  OBVIOUS
<1>6. Compose(checks) = [run |-> invocation, status |-> Worst(checks), checks |-> checks]
  BY DEF Compose
<1>7. Compose(checks) \in Reports
  BY <1>1, <1>5, <1>6 DEF Reports
<1>8. QED
  BY <1>3, <1>4, <1>6, <1>7, DoctorConstants

LEMMA FailureReport ==
  ASSUME NEW check \in CheckName, invocation \in Nat
  PROVE  /\ OperationalFailure(check) \in Reports /\ OperationalFailure(check) # Absent
         /\ OperationalFailure(check).run = invocation
         /\ OperationalFailure(check).status = "degraded"
<1> DEFINE checks == [c \in {check} |-> "degraded"]
<1>1. checks \in [{check} -> Status] /\ {check} \in SUBSET CheckName /\ checks[check] = "degraded"
  BY DEF Status
<1>2. OperationalFailure(check) = Compose(checks)
  BY DEF OperationalFailure
<1> HIDE DEF checks
<1>3. /\ Compose(checks) \in Reports /\ Compose(checks) # Absent /\ Compose(checks).run = invocation
      /\ Compose(checks).status # "degraded" => \A c \in {check} : checks[c] # "degraded"
  BY <1>1, Composed
<1>4. QED
  BY <1>1, <1>2, <1>3

\* What the report of a completed observation says.
LEMMA Verdict ==
  ASSUME IInv, invocation \in Nat, phase \in {"valid", "invalid"}, NEW o \in Observation
  PROVE  LET r == Compose(Checks(o)) IN
         /\ r \in Reports /\ r # Absent /\ r.run = invocation
         /\ r.status # "degraded" =>
              /\ o.complete /\ "unknown" \notin {o.bypassAudit, o.secrets}
              /\ \A a \in ReviewedAuthorities : WasRead(a) \/ Mismatched(a)
         /\ r.status = "healthy" =>
              /\ ~o.drift /\ o.founderPolicy /\ phase = "valid"
              /\ \A a \in ReviewedAuthorities : WasRead(a)
<1> DEFINE checks == Checks(o)
<1>1. ContractCheck \in Status /\ \A audit : AuditCheck(audit) \in Status
  BY Zenon DEF ContractCheck, AuditCheck, Status
<1>2. /\ checks["observation"] = IF o.complete THEN "healthy" ELSE "degraded"
      /\ checks["effective_state"] = IF o.drift THEN "drift" ELSE "healthy"
      /\ checks["workflow_contract"] = ContractCheck
      /\ checks["founder_bypass_policy"] = IF o.founderPolicy THEN "healthy" ELSE "drift"
      /\ checks["founder_bypass_audit"] = AuditCheck(o.bypassAudit)
      /\ checks["secret_metadata"] = AuditCheck(o.secrets)
      /\ checks["catalog"] = "healthy" /\ DOMAIN checks = CheckName
      /\ checks = [c \in CheckName |-> checks[c]]
  BY DEF Checks, CheckName
<1>3. checks \in [CheckName -> Status]
  <2> HIDE DEF checks
  <2>1. \A c \in CheckName : checks[c] \in Status
    BY <1>1, <1>2 DEF CheckName, Status
  <2>2. QED
    BY <1>2, <2>1
<1> HIDE DEF checks
<1>4. /\ Compose(checks) \in Reports /\ Compose(checks) # Absent /\ Compose(checks).run = invocation
      /\ Compose(checks).status # "degraded" => \A c \in CheckName : checks[c] # "degraded"
      /\ Compose(checks).status = "healthy" => \A c \in CheckName : checks[c] = "healthy"
  BY <1>3, Composed
<1>5. \A audit \in Audit : AuditCheck(audit) # "degraded" => audit # "unknown"
  BY Zenon DEF AuditCheck, Audit
<1>6. o.bypassAudit \in Audit /\ o.secrets \in Audit
  BY DEF Observation
<1>7. ASSUME ContractCheck # "degraded", NEW a \in ReviewedAuthorities
      PROVE  /\ a \in Remote /\ world.authority[a].state = "reviewed"
             /\ AuthorityStatus(a) \notin {"missing", "not_provided"}
             /\ checked[a] = AuthorityStatus(a)
  <2>1. a \in Remote /\ world.authority[a].state = "reviewed"
    BY WorldType DEF IInv, IsWorld, ReviewedAuthorities, Remote
  <2>2. checked[a] = AuthorityStatus(a) /\ a \in DOMAIN checked
    BY <2>1 DEF IInv, LoadSound, Loaded
  <2>3. ~ContractIncomplete
    BY <1>7, Zenon DEF ContractCheck
  <2>4. QED
    BY <2>1, <2>2, <2>3 DEF ContractIncomplete
<1>8. ContractCheck = "healthy" => phase = "valid"
  BY Zenon DEF ContractCheck
<1>9. ASSUME ContractCheck = "healthy", NEW a \in ReviewedAuthorities
      PROVE  WasRead(a)
  <2>1. /\ a \in Remote /\ world.authority[a].state = "reviewed"
        /\ AuthorityStatus(a) \notin {"missing", "not_provided"}
        /\ checked[a] = AuthorityStatus(a)
    BY <1>7, <1>9
  <2>2. violations = {}
    BY <1>8, <1>9 DEF IInv, ReportSound
  <2>3. checked[a] \notin {"missing", "mismatch"}
    BY <2>1, <2>2 DEF IInv, LoadSound, Loaded
  <2>4. QED
    BY <2>1, <2>3, StatusReason DEF WasRead
<1>10. ASSUME Compose(checks).status # "degraded"
       PROVE  /\ o.complete /\ "unknown" \notin {o.bypassAudit, o.secrets}
              /\ \A a \in ReviewedAuthorities : WasRead(a) \/ Mismatched(a)
  <2>1. /\ checks["observation"] # "degraded" /\ checks["workflow_contract"] # "degraded"
        /\ checks["founder_bypass_audit"] # "degraded" /\ checks["secret_metadata"] # "degraded"
    BY <1>4, <1>10 DEF CheckName
  <2>2. o.complete /\ "unknown" \notin {o.bypassAudit, o.secrets}
    BY <1>2, <1>5, <1>6, <2>1
  <2>3. ASSUME NEW a \in ReviewedAuthorities PROVE WasRead(a) \/ Mismatched(a)
    <3>1. /\ a \in Remote /\ world.authority[a].state = "reviewed"
          /\ AuthorityStatus(a) \notin {"missing", "not_provided"}
          /\ checked[a] = AuthorityStatus(a)
      BY <1>2, <1>7, <2>1
    <3>2. world.authorityRoot /\ AuthorityStatus(a) \in {"mismatch", "checked"}
      BY <3>1, StatusReason
    <3>3. CASE AuthorityStatus(a) = "checked"
      BY <3>1, <3>2, <3>3, StatusReason DEF WasRead
    <3>4. CASE AuthorityStatus(a) = "mismatch"
      BY <3>1, <3>2, <3>4 DEF IInv, LoadSound, Loaded, Mismatched
    <3>5. QED
      BY <3>2, <3>3, <3>4
  <2>4. QED
    BY <2>2, <2>3
<1>11. ASSUME Compose(checks).status = "healthy"
       PROVE  /\ ~o.drift /\ o.founderPolicy /\ phase = "valid"
              /\ \A a \in ReviewedAuthorities : WasRead(a)
  <2>1. /\ checks["effective_state"] = "healthy" /\ checks["founder_bypass_policy"] = "healthy"
        /\ checks["workflow_contract"] = "healthy"
    BY <1>4, <1>11 DEF CheckName
  <2>2. QED
    BY <1>2, <1>8, <1>9, <2>1
<1>12. QED
  BY <1>4, <1>10, <1>11 DEF checks

-----------------------------------------------------------------------------
(* The doctor is a run of the contract                                     *)

\* Every step of the command is a step of the contract or leaves it alone.
LEMMA StepIsContract == [DoctorNext]_allVars => [Next]_vars
<1>1. Contract => [Next]_vars
  BY DEF Contract, Next
<1>2. Expand => [Next]_vars
  BY DEF Expand, Next
<1>3. Again => [Next]_vars
  BY DoctorConstants DEF Again, Next
<1>4. /\ EndContract => UNCHANGED vars
      /\ ReadObservation => UNCHANGED vars
      /\ CreateTemporary => UNCHANGED vars
      /\ FillTemporary => UNCHANGED vars
      /\ Install => UNCHANGED vars
      /\ WriteFails => UNCHANGED vars
      /\ Kill => UNCHANGED vars
  BY DEF EndContract, ReadObservation, CreateTemporary, FillTemporary, Install, WriteFails, Kill, vars
<1>5. UNCHANGED allVars => UNCHANGED vars
  BY DEF allVars
<1>6. QED
  BY <1>1, <1>2, <1>3, <1>4, <1>5 DEF DoctorNext, Command

-----------------------------------------------------------------------------
(* The steps                                                               *)

\* The verdict of a report rests on what does not change once it is composed.
LEMMA JudgedKept ==
  ASSUME Judged, world' = world, phase' = phase, violations' = violations,
         observed' = observed, report' = report,
         pc \in Reporting \/ report = Absent
  PROVE  Judged'
<1>1. ReviewedAuthorities' = ReviewedAuthorities
  BY DEF ReviewedAuthorities
<1>2. \A r : CheckoutHead(r)' = CheckoutHead(r) /\ Pin(r)' = Pin(r)
  BY DEF CheckoutHead, Pin
<1>3. QED
  BY <1>1, <1>2 DEF Judged, WasRead, Mismatched

DoctorRest == Positions /\ RunsKnown /\ WritesOrdered /\ Judged /\ OutputsWhole /\ ExitMeansPublished

LEMMA DoctorStart == DoctorInit => DoctorInv
<1> SUFFICES ASSUME DoctorInit PROVE DoctorInv
  OBVIOUS
<1>1. IInv
  BY Initially DEF DoctorInit
<1>2. /\ pc \in {"off", "contract"} /\ invocation \in Nat /\ report = Absent
      /\ disk \in [Output -> {Absent, Link}] /\ temporary = Absent /\ exit = "none"
  BY DEF DoctorInit
<1>3. Positions
  BY <1>2 DEF Positions, Output, Reporting
<1>4. RunsKnown /\ WritesOrdered /\ Judged /\ ExitMeansPublished
  BY <1>2, DoctorConstants DEF RunsKnown, WritesOrdered, Judged, ExitMeansPublished, Reporting
<1>5. OutputsWhole
  BY <1>2, DoctorConstants DEF OutputsWhole, Output
<1>6. QED
  BY <1>1, <1>3, <1>4, <1>5 DEF DoctorInv

\* The contract runs, as a command of its own or before there is a report.
LEMMA StepContract == DoctorInv /\ (Contract \/ Expand) => DoctorRest'
<1> SUFFICES ASSUME DoctorInv, Contract \/ Expand PROVE DoctorRest'
  OBVIOUS
<1>1. /\ pc \in {"off", "contract"} /\ pc' = pc /\ invocation' = invocation /\ report' = report
      /\ observed' = observed /\ disk' = disk /\ temporary' = temporary /\ exit' = exit
  BY DEF Contract, Expand, doctorVars
<1>2. Positions' /\ Judged'
  BY <1>1 DEF DoctorInv, Positions, Judged, Reporting
<1>3. RunsKnown' /\ WritesOrdered' /\ OutputsWhole' /\ ExitMeansPublished'
  BY <1>1 DEF DoctorInv, RunsKnown, WritesOrdered, OutputsWhole, ExitMeansPublished
<1>4. QED
  BY <1>2, <1>3 DEF DoctorRest

LEMMA StepEnd == DoctorInv /\ EndContract => DoctorRest'
<1> SUFFICES ASSUME DoctorInv, EndContract PROVE DoctorRest'
  OBVIOUS
<1>1. /\ pc = "contract" /\ Ended /\ UNCHANGED vars /\ invocation' = invocation /\ observed' = observed
      /\ disk' = disk /\ temporary' = temporary
  BY DEF EndContract
<1>2. phase' = phase /\ world' = world
  BY <1>1 DEF vars
<1>3. temporary = Absent /\ exit = "none" /\ invocation \in Nat /\ pc \notin Reporting
  BY <1>1 DEF DoctorInv, Positions, Output, Reporting
<1>4. \/ pc' = "done" /\ exit' = "1" /\ report' = report
      \/ pc' = "json" /\ report' = OperationalFailure("workflow_contract") /\ exit' = exit
      \/ pc' = "observe" /\ phase # "error" /\ report' = report /\ exit' = exit
  BY Zenon DEF EndContract, Stop
<1>5. OutputsWhole'
  BY <1>1 DEF DoctorInv, OutputsWhole
<1>6. CASE pc' = "done" /\ exit' = "1" /\ report' = report
  <2>1. Positions' /\ RunsKnown' /\ WritesOrdered' /\ ExitMeansPublished'
    BY <1>1, <1>3, <1>6 DEF DoctorInv, Positions, RunsKnown, WritesOrdered, ExitMeansPublished,
                        Output, Reporting
  <2>2. Judged'
    BY <1>3, <1>6 DEF DoctorInv, Positions, Judged
  <2>3. QED
    BY <1>5, <2>1, <2>2 DEF DoctorRest
<1>7. CASE pc' = "json" /\ report' = OperationalFailure("workflow_contract") /\ exit' = exit
  <2>1. /\ report' \in Reports /\ report' # Absent /\ report'.run = invocation
        /\ report'.status = "degraded"
    BY <1>3, <1>7, FailureReport DEF CheckName
  <2>2. Positions' /\ Judged'
    BY <1>1, <1>3, <1>7, <2>1 DEF DoctorInv, Positions, Judged, Output, Reporting
  <2>3. RunsKnown' /\ WritesOrdered' /\ ExitMeansPublished'
    BY <1>1, <1>3, <1>7, <2>1 DEF DoctorInv, RunsKnown, WritesOrdered, ExitMeansPublished
  <2>4. QED
    BY <1>5, <2>2, <2>3 DEF DoctorRest
<1>8. CASE pc' = "observe" /\ phase # "error" /\ report' = report /\ exit' = exit
  <2>1. phase' \in {"valid", "invalid"}
    BY <1>1, <1>2, <1>8 DEF Ended, Reported
  <2>2. Positions' /\ Judged'
    BY <1>1, <1>3, <1>8, <2>1 DEF DoctorInv, Positions, Judged, Output, Reporting
  <2>3. RunsKnown' /\ WritesOrdered' /\ ExitMeansPublished'
    BY <1>1, <1>3, <1>8 DEF DoctorInv, RunsKnown, WritesOrdered, ExitMeansPublished
  <2>4. QED
    BY <1>5, <2>2, <2>3 DEF DoctorRest
<1>9. QED
  BY <1>4, <1>6, <1>7, <1>8

LEMMA StepObserve == DoctorInv /\ ReadObservation => DoctorRest'
<1> SUFFICES ASSUME DoctorInv, ReadObservation PROVE DoctorRest'
  OBVIOUS
<1>1. /\ pc = "observe" /\ pc' = "json" /\ UNCHANGED vars /\ invocation' = invocation
      /\ disk' = disk /\ temporary' = temporary /\ exit' = exit
  BY DEF ReadObservation
<1>2. PICK o \in Observations :
         /\ observed' = o
         /\ report' = IF o = Failed THEN OperationalFailure("observation") ELSE Compose(Checks(o))
  BY DEF ReadObservation
<1>3. /\ temporary = Absent /\ exit = "none" /\ invocation \in Nat /\ phase \in {"valid", "invalid"}
      /\ IInv
  BY <1>1 DEF DoctorInv, Positions, Output
<1>4. world' = world /\ phase' = phase /\ violations' = violations
  BY <1>1 DEF vars
<1>5. /\ ReviewedAuthorities' = ReviewedAuthorities
      /\ \A r : (WasRead(r)' <=> WasRead(r)) /\ (Mismatched(r)' <=> Mismatched(r))
  BY <1>4 DEF ReviewedAuthorities, WasRead, Mismatched, CheckoutHead, Pin
<1>6. report' \in Reports /\ report' # Absent /\ report'.run = invocation /\ Judged'
  <2>1. CASE o = Failed
    BY <1>2, <1>3, <2>1, FailureReport DEF CheckName, Judged
  <2>2. CASE o # Failed
    <3>1. o \in Observation
      BY <2>2, DoctorConstants
    <3>2. report' = Compose(Checks(o)) /\ observed' = o
      BY <1>2, <2>2
    <3>3. /\ report' \in Reports /\ report' # Absent /\ report'.run = invocation
          /\ report'.status # "degraded" =>
               /\ o.complete /\ "unknown" \notin {o.bypassAudit, o.secrets}
               /\ \A a \in ReviewedAuthorities : WasRead(a) \/ Mismatched(a)
          /\ report'.status = "healthy" =>
               /\ ~o.drift /\ o.founderPolicy /\ phase = "valid"
               /\ \A a \in ReviewedAuthorities : WasRead(a)
      BY <1>3, <3>1, <3>2, Verdict
    <3>4. QED
      BY <1>4, <1>5, <2>2, <3>2, <3>3 DEF Judged
  <2>3. QED
    BY <2>1, <2>2
<1>7. Positions'
  BY <1>1, <1>3, <1>6 DEF DoctorInv, Positions, Output, Reporting
<1>8. RunsKnown' /\ WritesOrdered' /\ OutputsWhole' /\ ExitMeansPublished'
  BY <1>1, <1>3, <1>6 DEF DoctorInv, RunsKnown, WritesOrdered, OutputsWhole, ExitMeansPublished
<1>9. QED
  BY <1>6, <1>7, <1>8 DEF DoctorRest

\* The temporary is created and filled.
LEMMA StepTemporary == DoctorInv /\ (CreateTemporary \/ FillTemporary) => DoctorRest'
<1> SUFFICES ASSUME DoctorInv, CreateTemporary \/ FillTemporary PROVE DoctorRest'
  OBVIOUS
<1>1. /\ pc \in Output /\ pc' = pc /\ UNCHANGED vars /\ invocation' = invocation
      /\ observed' = observed /\ report' = report /\ disk' = disk /\ exit' = exit
      /\ temporary' \in {Partial, report}
  BY DEF CreateTemporary, FillTemporary
<1>2. world' = world /\ phase' = phase /\ violations' = violations
  BY <1>1 DEF vars
<1>3. Positions' /\ Judged'
  BY <1>1, <1>2, JudgedKept DEF DoctorInv, Positions, Output, Reporting
<1>4. RunsKnown' /\ WritesOrdered' /\ OutputsWhole' /\ ExitMeansPublished'
  BY <1>1 DEF DoctorInv, RunsKnown, WritesOrdered, OutputsWhole, ExitMeansPublished
<1>5. QED
  BY <1>3, <1>4 DEF DoctorRest

LEMMA StepInstall == DoctorInv /\ Install => DoctorRest'
<1> SUFFICES ASSUME DoctorInv, Install PROVE DoctorRest'
  OBVIOUS
<1>1. /\ pc \in Output /\ temporary \notin {Absent, Partial} /\ UNCHANGED vars
      /\ disk' = [disk EXCEPT ![pc] = temporary] /\ temporary' = Absent
      /\ invocation' = invocation /\ observed' = observed /\ report' = report
  BY DEF Install
<1>2. world' = world /\ phase' = phase /\ violations' = violations
  BY <1>1 DEF vars
<1>3. /\ temporary = report /\ report \in Reports /\ report.run = invocation /\ report # Absent
      /\ exit = "none" /\ invocation \in Nat
      /\ disk \in [Output -> {Absent, Link} \cup Reports]
  BY <1>1 DEF DoctorInv, Positions, WritesOrdered, RunsKnown, Output
<1>4. /\ disk'[pc] = report /\ \A o \in Output : o # pc => disk'[o] = disk[o]
      /\ disk' \in [Output -> {Absent, Link} \cup Reports]
  BY <1>1, <1>3
<1>5. report \notin {Absent, Link, Partial} /\ \A o \in Output : disk[o] # Partial
  BY <1>3, DoctorConstants DEF Output
<1>6. RunsKnown'
  BY <1>1, <1>3, <1>4 DEF DoctorInv, RunsKnown
<1>7. CASE pc = "json"
  <2>1. pc' = "markdown" /\ exit' = exit
    BY <1>7 DEF Install
  <2>2. Positions' /\ Judged'
    BY <1>1, <1>2, <1>3, <1>4, <1>7, <2>1, JudgedKept DEF DoctorInv, Positions, Output, Reporting
  <2>3. WritesOrdered' /\ ExitMeansPublished'
    BY <1>1, <1>3, <1>4, <1>7, <2>1 DEF WritesOrdered, ExitMeansPublished
  <2>4. OutputsWhole'
    <3>1. disk'["json"] = report /\ disk'["markdown"] = disk["markdown"]
      BY <1>4, <1>7 DEF Output
    <3>2. disk["markdown"] \notin {Absent, Link} => disk["markdown"].run <= invocation
      BY <1>3 DEF DoctorInv, RunsKnown, Output
    <3>3. \A o \in Output : disk'[o] # Partial
      BY <1>4, <1>5
    <3>4. QED
      BY <1>3, <1>5, <3>1, <3>2, <3>3 DEF OutputsWhole
  <2>5. QED
    BY <1>6, <2>2, <2>3, <2>4 DEF DoctorRest
<1>8. CASE pc = "markdown"
  <2>1. pc' = "done" /\ exit' = ExitOf(report.status)
    BY <1>8 DEF Install, Stop
  <2>2. Positions' /\ Judged'
    BY <1>1, <1>2, <1>3, <1>4, <1>8, <2>1, JudgedKept DEF DoctorInv, Positions, Output, Reporting
  <2>3. disk'["json"] = report /\ disk'["markdown"] = report
    BY <1>4, <1>8 DEF DoctorInv, WritesOrdered, Output
  <2>4. WritesOrdered' /\ ExitMeansPublished'
    BY <1>1, <1>3, <2>1, <2>3 DEF WritesOrdered, ExitMeansPublished, Output
  <2>5. OutputsWhole'
    BY <1>3, <1>5, <2>3 DEF OutputsWhole, Output
  <2>6. QED
    BY <1>6, <2>2, <2>4, <2>5 DEF DoctorRest
<1>9. QED
  BY <1>1, <1>7, <1>8 DEF Output

\* A write fails or the process dies: the outputs stay as they are.
LEMMA StepStop == DoctorInv /\ (WriteFails \/ Kill) => DoctorRest'
<1> SUFFICES ASSUME DoctorInv, WriteFails \/ Kill PROVE DoctorRest'
  OBVIOUS
<1>1. /\ pc \notin {"off", "done"} /\ pc' = "done" /\ exit' \in {"1", "killed"} /\ UNCHANGED vars
      /\ invocation' = invocation /\ observed' = observed /\ report' = report
      /\ disk' = disk /\ temporary' = Absent
  BY DEF WriteFails, Kill, Stop, Output
<1>2. world' = world /\ phase' = phase /\ violations' = violations
  BY <1>1 DEF vars
<1>3. Positions'
  BY <1>1 DEF DoctorInv, Positions, Output, Reporting
<1>4. Judged'
  BY <1>1, <1>2, JudgedKept DEF DoctorInv, Positions
<1>5. RunsKnown' /\ WritesOrdered' /\ OutputsWhole' /\ ExitMeansPublished'
  BY <1>1 DEF DoctorInv, RunsKnown, WritesOrdered, OutputsWhole, ExitMeansPublished
<1>6. QED
  BY <1>3, <1>4, <1>5 DEF DoctorRest

LEMMA StepAgain == DoctorInv /\ Again => DoctorRest'
<1> SUFFICES ASSUME DoctorInv, Again PROVE DoctorRest'
  OBVIOUS
<1>1. /\ pc = "done" /\ pc' = "contract" /\ exit' = "none" /\ invocation' = invocation + 1
      /\ report' = Absent /\ disk' = disk /\ temporary' = temporary
  BY DEF Again
<1>2. invocation \in Nat /\ temporary = Absent /\ disk \in [Output -> {Absent, Link} \cup Reports]
  BY <1>1 DEF DoctorInv, Positions, Output
<1>3. Positions' /\ Judged'
  BY <1>1, <1>2 DEF DoctorInv, Positions, Judged, Output, Reporting
<1>4. RunsKnown'
  <2>1. \A o \in Output : disk[o] \in Reports => disk[o].run \in Nat /\ disk[o].run <= invocation
    BY DEF DoctorInv, RunsKnown, Reports
  <2>2. QED
    BY <1>1, <1>2, <2>1 DEF RunsKnown
<1>5. WritesOrdered' /\ OutputsWhole' /\ ExitMeansPublished'
  BY <1>1, <1>2 DEF DoctorInv, WritesOrdered, OutputsWhole, ExitMeansPublished
<1>6. QED
  BY <1>3, <1>4, <1>5 DEF DoctorRest

LEMMA DoctorStep == DoctorInv /\ [DoctorNext]_allVars => DoctorInv'
<1> SUFFICES ASSUME DoctorInv, [DoctorNext]_allVars PROVE DoctorInv'
  OBVIOUS
<1>1. IInv'
  BY StepIsContract, Inductive DEF DoctorInv
<1>2. DoctorRest'
  <2>1. CASE Command
    BY <2>1, StepContract, StepEnd, StepObserve, StepTemporary, StepInstall, StepStop DEF Command
  <2>2. CASE Expand \/ Kill \/ Again
    BY <2>2, StepContract, StepStop, StepAgain
  <2>3. CASE UNCHANGED allVars
    <3>1. /\ pc' = pc /\ invocation' = invocation /\ observed' = observed /\ report' = report
          /\ disk' = disk /\ temporary' = temporary /\ exit' = exit
          /\ world' = world /\ phase' = phase /\ violations' = violations
      BY <2>3 DEF allVars, doctorVars, vars
    <3>2. Positions' /\ Judged'
      BY <3>1, JudgedKept DEF DoctorInv, Positions
    <3>3. RunsKnown' /\ WritesOrdered' /\ OutputsWhole' /\ ExitMeansPublished'
      BY <3>1 DEF DoctorInv, RunsKnown, WritesOrdered, OutputsWhole, ExitMeansPublished
    <3>4. QED
      BY <3>2, <3>3 DEF DoctorRest
  <2>4. QED
    BY <2>1, <2>2, <2>3 DEF DoctorNext
<1>3. QED
  BY <1>1, <1>2 DEF DoctorInv, DoctorRest

-----------------------------------------------------------------------------
(* The theorems                                                            *)

\* The doctor implements the contract it runs: its composition with reports,
\* writes, failures and restarts takes no step of its own in it.
THEOREM DoctorRunsContract == DoctorSpec => Spec
<1>1. DoctorInit => Init
  BY DEF DoctorInit
<1>2. QED
  BY <1>1, StepIsContract, PTL DEF DoctorSpec, Spec

\* The inductive invariant: where the command is, whose report it holds and
\* what the two outputs are while they are replaced.
THEOREM DoctorInvariant == DoctorSpec => []DoctorInv
BY DoctorStart, DoctorStep, PTL DEF DoctorSpec

\* Whatever fails and whenever the process dies, an output is never half a
\* report and the Markdown is never ahead of the JSON (WriteText, writeDoctor).
THEOREM NeverHalf == DoctorSpec => []OutputsWhole
<1>1. DoctorInv => OutputsWhole
  BY DEF DoctorInv
<1>2. QED
  BY DoctorInvariant, <1>1, PTL

\* An exit status that stands for a verdict is about the reports on the disk,
\* and they are of this invocation (run, writeDoctor).
THEOREM ExitPublished == DoctorSpec => []ExitMeansPublished
<1>1. DoctorInv => ExitMeansPublished
  BY DEF DoctorInv
<1>2. QED
  BY DoctorInvariant, <1>1, PTL

\* No verdict leaves a reviewed authority out without naming it, although the
\* contract alone tolerates one that is not provided; and "healthy" leaves out
\* none (Build, workflowContractIncomplete).
THEOREM VerdictKnown == DoctorSpec => []VerdictMeansKnown
<1>1. DoctorInv => VerdictMeansKnown
  <2> SUFFICES ASSUME DoctorInv, exit \in {"0", "2"} PROVE VerdictMeansKnown
    BY DEF VerdictMeansKnown
  <2>1. pc = "done"
    BY DEF DoctorInv, Positions
  <2>2. /\ disk["json"] = report /\ exit = ExitOf(disk["json"].status)
        /\ disk["json"].run = invocation
    BY DEF DoctorInv, ExitMeansPublished, Output
  <2>3. report \in Reports
    <3>1. disk["json"] \in {Absent, Link} \cup Reports
      BY DEF DoctorInv, Positions, Output
    <3>2. report # Absent
      BY DEF DoctorInv, Positions
    <3>3. QED
      BY <2>2, <3>1, <3>2 DEF DoctorInv, Positions
  <2>4. report # Absent /\ report.status \in Status
    BY <2>3, DoctorConstants DEF Reports
  <2>5. ExitOf(report.status) \in {"0", "2"} => report.status # "degraded"
    BY Zenon DEF ExitOf
  <2>6. ExitOf(report.status) = "0" => report.status = "healthy"
    BY Zenon DEF ExitOf
  <2>7. \A r \in ReviewedAuthorities : WasRead(r) \/ (exit = "2" /\ Mismatched(r))
    BY <2>1, <2>2, <2>4, <2>5, <2>6 DEF DoctorInv, Judged, Reporting
  <2>8. QED
    BY <2>1, <2>2, <2>4, <2>5, <2>6, <2>7
    DEF DoctorInv, Judged, Reporting, VerdictMeansKnown, Mismatched
<1>2. QED
  BY DoctorInvariant, <1>1, PTL
=============================================================================
