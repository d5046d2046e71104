---------------------------- MODULE PayrollProofs ----------------------------
(***************************************************************************)
(* Theorems about Payroll: the type of its state, a month has one live run *)
(* and what was approved stays as it was approved, the runs agree with the *)
(* ledger and the balances with the requests, and the two calculators give *)
(* the same payslips, the tax by rate and deduction being the tax slice by *)
(* slice.                                                                  *)
(***************************************************************************)
EXTENDS Payroll, Sums, TLAPS

\* The part of the type that runs depend on: the payslips made today are
\* payslips because staff and salaries are what they should be.
RunsOK ==
    /\ active \in SUBSET Employees
    /\ salary \in [Employees -> Salaries]
    /\ runs \in Seq(Runs)

RunsInv == RunsOK /\ OneLiveRun

-----------------------------------------------------------------------------
\* A calculated run is a run of the same month.
LEMMA CalculatedRun ==
    ASSUME RunsOK, NEW run \in Runs
    PROVE  /\ Calculated(run) \in Runs
           /\ Calculated(run).period = run.period
           /\ Calculated(run).status = "CALCULATED"
<1>1. [e \in active |-> salary[e]] \in [active -> Salaries]
  BY DEF RunsOK
<1>2. [e \in active |-> salary[e]] \in Payslips
  BY <1>1 DEF RunsOK, Payslips
<1>. QED
  BY <1>2 DEF Calculated, Runs, RunStatus

\* A new run has no payslips.
LEMMA DraftRun ==
    ASSUME NEW p \in Periods
    PROVE  /\ Draft(p) \in Runs
           /\ Draft(p).period = p
           /\ Draft(p).status = "DRAFT"
<1>1. NoPayslips \in [{} -> Salaries]
  BY DEF NoPayslips
<1>2. NoPayslips \in Payslips
  BY <1>1 DEF Payslips
<1>. QED
  BY <1>2 DEF Draft, Runs, RunStatus

\* Appending a run to the list of a month without a live run.
LEMMA AppendRun ==
    ASSUME RunsInv, NEW run \in Runs, LiveRuns(run.period) = {},
           runs' = Append(runs, run), UNCHANGED staffVars
    PROVE  /\ RunsInv'
           /\ \A i \in DOMAIN runs : runs'[i] = runs[i]
<1>. USE DEF RunsInv, RunsOK
<1>1. /\ runs' \in Seq(Runs)
      /\ Len(runs') = Len(runs) + 1
      /\ runs'[Len(runs) + 1] = run
      /\ \A i \in DOMAIN runs : runs'[i] = runs[i]
  OBVIOUS
<1>2. DOMAIN runs' = DOMAIN runs \cup {Len(runs) + 1}
  BY <1>1
<1>3. \A i \in DOMAIN runs : runs[i].period = run.period => runs[i].status = "CANCELLED"
  BY DEF LiveRuns, RunsOf
<1>4. OneLiveRun'
  <2> SUFFICES ASSUME NEW j \in DOMAIN runs', NEW k \in DOMAIN runs',
                      runs'[j].period = runs'[k].period,
                      runs'[j].status # "CANCELLED", runs'[k].status # "CANCELLED"
               PROVE  j = k
    BY DEF OneLiveRun
  <2>1. CASE j \in DOMAIN runs /\ k \in DOMAIN runs
    BY <1>1, <2>1 DEF OneLiveRun
  <2>2. CASE j = Len(runs) + 1 \/ k = Len(runs) + 1
    BY <1>1, <1>2, <1>3, <2>2
  <2>. QED
    BY <1>2, <2>1, <2>2
<1>. QED
  BY <1>1, <1>4 DEF staffVars

\* Replacing a run by one of the same month that is not alive again.
LEMMA ReplaceRun ==
    ASSUME RunsInv, NEW i \in DOMAIN runs, NEW run \in Runs,
           run.period = runs[i].period,
           runs[i].status = "CANCELLED" => run.status = "CANCELLED",
           runs' = [runs EXCEPT ![i] = run], UNCHANGED staffVars
    PROVE  /\ RunsInv'
           /\ runs'[i] = run
           /\ \A j \in DOMAIN runs : j # i => runs'[j] = runs[j]
<1>. USE DEF RunsInv, RunsOK
<1>1. /\ runs' \in Seq(Runs)
      /\ DOMAIN runs' = DOMAIN runs
      /\ runs'[i] = run
      /\ \A j \in DOMAIN runs : j # i => runs'[j] = runs[j]
  OBVIOUS
<1>2. \A j \in DOMAIN runs : /\ runs'[j].period = runs[j].period
                             /\ runs[j].status = "CANCELLED" => runs'[j].status = "CANCELLED"
  BY <1>1
<1>3. OneLiveRun'
  <2> SUFFICES ASSUME NEW j \in DOMAIN runs, NEW k \in DOMAIN runs,
                      runs'[j].period = runs'[k].period,
                      runs'[j].status # "CANCELLED", runs'[k].status # "CANCELLED"
               PROVE  j = k
    BY <1>1 DEF OneLiveRun
  <2>. QED
    BY <1>2 DEF OneLiveRun
<1>. QED
  BY <1>1, <1>3 DEF staffVars

-----------------------------------------------------------------------------
\* The step that ApprovedRunsFrozen allows.
FrozenStep ==
    \A i \in DOMAIN runs :
       runs[i].status \in {"APPROVED", "POSTED", "CANCELLED"} /\ runs' # <<>> =>
          /\ runs'[i].payslips = runs[i].payslips
          /\ \/ runs'[i].status = runs[i].status
             \/ runs[i].status = "APPROVED" /\ runs'[i].status \in {"POSTED", "CANCELLED"}

\* A new workspace has no runs.
LEMMA InitInv == PayrollInit => RunsInv
<1> SUFFICES ASSUME PayrollInit PROVE RunsInv
  OBVIOUS
<1>1. RunsOK
  BY DEF PayrollInit, RunsOK
<1>2. DOMAIN runs = {}
  BY DEF PayrollInit
<1>. QED
  BY <1>1, <1>2 DEF RunsInv, OneLiveRun

\* Every step keeps the invariant and freezes what has been approved.
LEMMA StepRuns ==
    ASSUME RunsInv, [PayrollNext]_payrollVars
    PROVE  RunsInv' /\ FrozenStep
<1>0. \A i \in DOMAIN runs : runs[i] \in Runs
  BY DEF RunsInv, RunsOK
<1>00. ScalePeriod \in Periods
  BY PayrollAssumption
<1>1. ASSUME NEW p \in Periods, CreatePayrollRun(p) PROVE RunsInv' /\ FrozenStep
  <2>1. Draft(p) \in Runs /\ Draft(p).period = p
    BY DraftRun
  <2>2. RunsInv' /\ \A i \in DOMAIN runs : runs'[i] = runs[i]
    BY <1>1, <2>1, AppendRun DEF CreatePayrollRun, staffVars
  <2>. QED
    BY <2>2 DEF FrozenStep
<1>2. ASSUME NEW p \in Periods, LiveRuns(p) = {}, runs' = Append(runs, Calculated(Draft(p))),
             UNCHANGED staffVars
      PROVE  RunsInv' /\ FrozenStep
  <2>1. Calculated(Draft(p)) \in Runs /\ Calculated(Draft(p)).period = p
    BY DraftRun, CalculatedRun DEF RunsInv
  <2>2. RunsInv' /\ \A i \in DOMAIN runs : runs'[i] = runs[i]
    BY <1>2, <2>1, AppendRun
  <2>. QED
    BY <2>2 DEF FrozenStep
<1>3. ASSUME NEW p \in Periods, PayrollEvidencePack(p) PROVE RunsInv' /\ FrozenStep
  <2>1. LiveRuns(p) = {}
    BY <1>3 DEF PayrollEvidencePack, LiveRuns
  <2>. QED
    BY <1>2, <1>3, <2>1 DEF PayrollEvidencePack
<1>4. CASE MoroccoScaleControlsReadiness
  BY <1>2, <1>4, <1>00 DEF MoroccoScaleControlsReadiness
<1>5. ASSUME NEW i \in DOMAIN runs, CalculatePayrollRun(i) PROVE RunsInv' /\ FrozenStep
  <2>1. /\ Calculated(runs[i]) \in Runs
        /\ Calculated(runs[i]).period = runs[i].period
        /\ Calculated(runs[i]).status = "CALCULATED"
    BY <1>0, CalculatedRun DEF RunsInv
  <2>2. runs[i].status \in {"DRAFT", "CALCULATED"}
    BY <1>5 DEF CalculatePayrollRun, Calculable
  <2>3. /\ runs' = [runs EXCEPT ![i] = Calculated(runs[i])]
        /\ UNCHANGED staffVars
    BY <1>5 DEF CalculatePayrollRun
  <2>4. /\ RunsInv'
        /\ \A j \in DOMAIN runs : j # i => runs'[j] = runs[j]
    BY <2>1, <2>2, <2>3, ReplaceRun
  <2>. QED
    BY <2>2, <2>4 DEF FrozenStep
<1>6. ASSUME NEW i \in DOMAIN runs, ApprovePayrollRun(i) PROVE RunsInv' /\ FrozenStep
  <2> DEFINE run == IF runs[i].status = "DRAFT" THEN Calculated(runs[i]) ELSE runs[i]
             new == IF Compliant(run) THEN [run EXCEPT !.status = "APPROVED"] ELSE run
  <2>1. /\ run.status = "CALCULATED"
        /\ runs' = [runs EXCEPT ![i] = new]
        /\ UNCHANGED staffVars
    BY <1>6 DEF ApprovePayrollRun
  <2>2. run \in Runs /\ run.period = runs[i].period
    BY <1>0, CalculatedRun DEF RunsInv
  <2>3. runs[i].status \in {"DRAFT", "CALCULATED"}
    BY <2>1
  <2>4. new \in Runs /\ new.period = runs[i].period
    BY <2>2 DEF Runs, RunStatus
  <2> HIDE DEF new, run
  <2>5. /\ RunsInv'
        /\ \A j \in DOMAIN runs : j # i => runs'[j] = runs[j]
    BY <2>1, <2>3, <2>4, ReplaceRun
  <2>. QED
    BY <2>3, <2>5 DEF FrozenStep
<1>7. ASSUME NEW i \in DOMAIN runs, NEW status \in {"POSTED", "CANCELLED"},
             \/ runs[i].status = "APPROVED"
             \/ runs[i].status # "POSTED" /\ status = "CANCELLED",
             runs' = [runs EXCEPT ![i].status = status], UNCHANGED staffVars
      PROVE  RunsInv' /\ FrozenStep
  <2> DEFINE new == [runs[i] EXCEPT !.status = status]
  <2>1. /\ new \in Runs
        /\ new.period = runs[i].period
        /\ new.status = status
        /\ new.payslips = runs[i].payslips
    BY <1>0, <1>7 DEF Runs, RunStatus
  <2>2. runs' = [runs EXCEPT ![i] = new]
    BY <1>7
  <2> HIDE DEF new
  <2>3. /\ RunsInv'
        /\ runs'[i] = new
        /\ \A j \in DOMAIN runs : j # i => runs'[j] = runs[j]
    BY <1>7, <2>1, <2>2, ReplaceRun
  <2>4. ASSUME NEW j \in DOMAIN runs, runs[j].status \in {"APPROVED", "POSTED", "CANCELLED"}
        PROVE  /\ runs'[j].payslips = runs[j].payslips
               /\ \/ runs'[j].status = runs[j].status
                  \/ runs[j].status = "APPROVED" /\ runs'[j].status \in {"POSTED", "CANCELLED"}
    <3>1. CASE j = i
      BY <1>7, <2>1, <2>3, <2>4, <3>1
    <3>2. CASE j # i
      BY <2>3, <3>2
    <3>. QED
      BY <3>1, <3>2
  <2>. QED
    BY <2>3, <2>4 DEF FrozenStep
<1>8. ASSUME NEW i \in DOMAIN runs, PostPayrollRun(i) PROVE RunsInv' /\ FrozenStep
  <2>1. /\ runs[i].status = "APPROVED"
        /\ runs' = [runs EXCEPT ![i].status = "POSTED"]
        /\ UNCHANGED staffVars
    BY <1>8 DEF PostPayrollRun, Postable
  <2>. QED
    BY <1>7, <2>1
<1>9. ASSUME NEW i \in DOMAIN runs, CancelPayrollRun(i) PROVE RunsInv' /\ FrozenStep
  <2>1. /\ runs[i].status # "POSTED"
        /\ runs' = [runs EXCEPT ![i].status = "CANCELLED"]
        /\ UNCHANGED staffVars
    BY <1>9 DEF CancelPayrollRun, Cancellable
  <2>. QED
    BY <1>7, <2>1
<1>10. ASSUME NEW e \in Employees, UpdateEmployee(e) PROVE RunsInv' /\ FrozenStep
  <2>1. active' \in SUBSET Employees /\ salary' \in [Employees -> Salaries]
    BY <1>10 DEF UpdateEmployee, RunsInv, RunsOK
  <2>2. runs' = runs
    BY <1>10 DEF UpdateEmployee, runVars
  <2>. QED
    BY <2>1, <2>2 DEF RunsInv, RunsOK, OneLiveRun, FrozenStep
<1>11. CASE ResetSampleModule
  <2>1. runs' = <<>> /\ UNCHANGED staffVars
    BY <1>11 DEF ResetSampleModule
  <2>2. runs' \in Seq(Runs) /\ DOMAIN runs' = {}
    BY <2>1
  <2>. QED
    BY <2>1, <2>2 DEF RunsInv, RunsOK, OneLiveRun, FrozenStep, staffVars
<1>12. ASSUME UNCHANGED <<staffVars, runs>> PROVE RunsInv' /\ FrozenStep
  BY <1>12 DEF staffVars, RunsInv, RunsOK, OneLiveRun, FrozenStep
<1>13. CASE \E p \in Periods : UpsertFiscalPeriod(p)
  BY <1>12, <1>13 DEF UpsertFiscalPeriod, runVars
<1>14. CASE \E e \in Employees : \E days \in 1..AcquiredDays : CreateLeaveRequest(e, days)
  BY <1>12, <1>14 DEF CreateLeaveRequest, runVars
<1>15. CASE \E i \in DOMAIN leaveRequests : ApproveLeaveRequest(i) \/ RejectLeaveRequest(i)
  BY <1>12, <1>15 DEF ApproveLeaveRequest, RejectLeaveRequest, runVars
<1>16. CASE UNCHANGED payrollVars
  BY <1>12, <1>16 DEF payrollVars, runVars
<1>17. CASE \E k \in DOMAIN journal : VoidJournalEntry(k)
  BY <1>12, <1>17 DEF VoidJournalEntry
<1>. QED
  BY <1>1, <1>3, <1>4, <1>5, <1>6, <1>8, <1>9, <1>10, <1>11, <1>13, <1>14, <1>15, <1>16, <1>17
     DEF PayrollNext

-----------------------------------------------------------------------------
\* The journal.

\* What the payslips of a run add up to.
LEMMA TotalType ==
    ASSUME NEW run \in Runs
    PROVE  PayslipTotal(run) \in Nat
<1>1. PICK staff \in SUBSET Employees : run.payslips \in [staff -> Salaries]
  BY DEF Runs, Payslips
<1>2. IsFiniteSet(staff) /\ run.payslips \in [staff -> Nat]
  BY <1>1, PayrollAssumption, FS_Subset DEF Salaries
<1>. DEFINE f == run.payslips
<1>. HIDE DEF f
<1>3. f \in [staff -> Nat]
  BY <1>2 DEF f
<1>4. SumFunction(f) \in Nat
  BY ONLY <1>2, <1>3, SumNat
<1>. QED
  BY <1>4 DEF f, PayslipTotal

\* The same runs are posted after a step as before it.
SamePosted ==
    /\ \A i \in DOMAIN runs' :
          runs'[i].status = "POSTED" => i \in DOMAIN runs /\ runs'[i] = runs[i]
    /\ \A i \in DOMAIN runs :
          runs[i].status = "POSTED" => i \in DOMAIN runs' /\ runs'[i] = runs[i]

\* Every step but the posting of a run and the voiding of an entry leaves the
\* entries and the posted runs as they are, unless it wipes the runs.
LEMMA NothingPosted ==
    ASSUME RunsInv, [PayrollNext]_payrollVars, ~ \E i \in DOMAIN runs : PostPayrollRun(i),
           ~ \E k \in DOMAIN journal : VoidJournalEntry(k)
    PROVE  journal' = journal /\ (runs' = <<>> \/ SamePosted)
<1>0. runs \in Seq(Runs) /\ ScalePeriod \in Periods
  BY PayrollAssumption DEF RunsInv, RunsOK
<1>1. ASSUME NEW run \in Runs, run.status # "POSTED", runs' = Append(runs, run)
      PROVE  SamePosted
  <2>1. /\ DOMAIN runs' = DOMAIN runs \cup {Len(runs) + 1}
        /\ runs'[Len(runs) + 1] = run
        /\ \A i \in DOMAIN runs : runs'[i] = runs[i]
    BY <1>0, <1>1
  <2>. QED
    BY <1>1, <2>1 DEF SamePosted
<1>2. ASSUME NEW i \in DOMAIN runs, NEW run, run.status # "POSTED",
             runs[i].status # "POSTED", runs' = [runs EXCEPT ![i] = run]
      PROVE  SamePosted
  BY <1>0, <1>2 DEF SamePosted
<1>3. ASSUME runs' = runs PROVE SamePosted
  BY <1>3 DEF SamePosted
<1>4. ASSUME NEW p \in Periods
      PROVE  /\ Draft(p) \in Runs /\ Draft(p).status # "POSTED"
             /\ Calculated(Draft(p)) \in Runs /\ Calculated(Draft(p)).status # "POSTED"
  BY DraftRun, CalculatedRun DEF RunsInv
<1>5. CASE \E p \in Periods : CreatePayrollRun(p) \/ PayrollEvidencePack(p)
  BY <1>1, <1>4, <1>5 DEF CreatePayrollRun, PayrollEvidencePack
<1>6. CASE MoroccoScaleControlsReadiness
  BY <1>0, <1>1, <1>4, <1>6 DEF MoroccoScaleControlsReadiness
<1>7. ASSUME NEW i \in DOMAIN runs, CalculatePayrollRun(i) PROVE SamePosted /\ journal' = journal
  <2>1. Calculated(runs[i]).status # "POSTED"
    BY <1>0, CalculatedRun DEF RunsInv
  <2>2. /\ runs[i].status # "POSTED" /\ runs' = [runs EXCEPT ![i] = Calculated(runs[i])]
        /\ journal' = journal
    BY <1>7 DEF CalculatePayrollRun, Calculable
  <2>. QED
    BY <1>2, <2>1, <2>2
<1>8. ASSUME NEW i \in DOMAIN runs, ApprovePayrollRun(i) PROVE SamePosted /\ journal' = journal
  <2>. DEFINE run == IF runs[i].status = "DRAFT" THEN Calculated(runs[i]) ELSE runs[i]
              new == IF Compliant(run) THEN [run EXCEPT !.status = "APPROVED"] ELSE run
  <2>1. /\ run.status = "CALCULATED" /\ runs' = [runs EXCEPT ![i] = new]
        /\ journal' = journal
    BY <1>8 DEF ApprovePayrollRun
  <2>2. run \in Runs /\ runs[i].status # "POSTED"
    BY <1>0, <2>1, CalculatedRun DEF RunsInv
  <2>. HIDE DEF run
  <2>3. new.status # "POSTED"
    BY <2>1, <2>2 DEF Runs
  <2>. HIDE DEF new
  <2>. QED
    BY <1>2, <2>1, <2>2, <2>3
<1>9. ASSUME NEW i \in DOMAIN runs, CancelPayrollRun(i) PROVE SamePosted /\ journal' = journal
  <2>. DEFINE new == [runs[i] EXCEPT !.status = "CANCELLED"]
  <2>1. /\ runs[i].status # "POSTED" /\ runs' = [runs EXCEPT ![i] = new]
        /\ journal' = journal
    BY <1>9 DEF CancelPayrollRun, Cancellable
  <2>2. new.status # "POSTED"
    BY <1>0 DEF Runs
  <2>. HIDE DEF new
  <2>. QED
    BY <1>2, <2>1, <2>2
<1>10. CASE \/ \E e \in Employees : \/ UpdateEmployee(e)
                                    \/ \E days \in 1..AcquiredDays : CreateLeaveRequest(e, days)
            \/ \E p \in Periods : UpsertFiscalPeriod(p)
            \/ \E i \in DOMAIN leaveRequests : ApproveLeaveRequest(i) \/ RejectLeaveRequest(i)
            \/ UNCHANGED payrollVars
  <2>1. runs' = runs /\ journal' = journal
    BY <1>10 DEF UpdateEmployee, CreateLeaveRequest, UpsertFiscalPeriod, ApproveLeaveRequest,
                 RejectLeaveRequest, payrollVars, runVars
  <2>. QED
    BY <1>3, <2>1
<1>11. CASE ResetSampleModule
  BY <1>11 DEF ResetSampleModule
<1>. QED
  BY <1>5, <1>6, <1>7, <1>8, <1>9, <1>10, <1>11 DEF PayrollNext

\* A run that is posted keeps its payslips, and gets an entry of their total.
LEMMA RunPosted ==
    ASSUME RunsInv, journal \in Seq(Entries), NEW i \in DOMAIN runs, PostPayrollRun(i)
    PROVE  /\ journal' \in Seq(Entries)
           /\ DOMAIN journal' = DOMAIN journal \cup {Len(journal) + 1}
           /\ Len(journal) + 1 \notin DOMAIN journal
           /\ \A k \in DOMAIN journal : journal'[k] = journal[k]
           /\ journal'[Len(journal) + 1].period = runs[i].period
           /\ journal'[Len(journal) + 1].total = PayslipTotal(runs[i])
           /\ ~journal'[Len(journal) + 1].void
           /\ DOMAIN runs' = DOMAIN runs
           /\ runs[i].status = "APPROVED" /\ runs'[i].status = "POSTED"
           /\ runs'[i].period = runs[i].period /\ runs'[i].payslips = runs[i].payslips
           /\ \A j \in DOMAIN runs : j # i => runs'[j] = runs[j]
<1>. DEFINE entry == [period |-> runs[i].period, total |-> PayslipTotal(runs[i]),
                      void |-> FALSE]
            new == [runs[i] EXCEPT !.status = "POSTED"]
<1>1. runs[i] \in Runs /\ runs \in Seq(Runs)
  BY DEF RunsInv, RunsOK
<1>2. /\ entry \in Entries
      /\ entry.period = runs[i].period /\ entry.total = PayslipTotal(runs[i]) /\ ~entry.void
  BY <1>1, TotalType DEF Entries, Runs
<1>3. /\ journal' = Append(journal, entry) /\ runs' = [runs EXCEPT ![i] = new]
      /\ runs[i].status = "APPROVED"
  BY DEF PostPayrollRun, PostedTotal, Postable
<1>4. /\ new.status = "POSTED" /\ new.period = runs[i].period
      /\ new.payslips = runs[i].payslips
  BY <1>1 DEF Runs
<1>. HIDE DEF entry, new
<1>5. /\ journal' \in Seq(Entries)
      /\ DOMAIN journal' = DOMAIN journal \cup {Len(journal) + 1}
      /\ Len(journal) + 1 \notin DOMAIN journal
      /\ \A k \in DOMAIN journal : journal'[k] = journal[k]
      /\ journal'[Len(journal) + 1] = entry
  BY <1>2, <1>3
<1>6. /\ DOMAIN runs' = DOMAIN runs /\ runs'[i] = new
      /\ \A j \in DOMAIN runs : j # i => runs'[j] = runs[j]
  BY <1>1, <1>3
<1>. QED
  BY <1>2, <1>3, <1>4, <1>5, <1>6

JournalInv == journal \in Seq(Entries) /\ PostedRunsInLedger

\* The entries of a month that count in the books.
Standing(p) == EntriesOf(p) \ VoidedOf(p)

\* What a month has in the books moves with its posted runs, but for what is
\* voided by hand.
TogetherStep ==
    runs' # <<>> =>
      \A p \in Periods :
         Cardinality(Standing(p))' - Cardinality(PostedRuns(p))'
            = Cardinality(Standing(p)) - Cardinality(PostedRuns(p))
              - (IF \E k \in EntriesOf(p) : VoidJournalEntry(k) THEN 1 ELSE 0)

LEMMA CountedTogether ==
    ASSUME RunsInv, JournalInv, NEW p
    PROVE  /\ IsFiniteSet(Standing(p)) /\ Cardinality(Standing(p)) \in Nat
           /\ IsFiniteSet(PostedRuns(p)) /\ Cardinality(PostedRuns(p)) \in Nat
<1>1. /\ DOMAIN journal = 1..Len(journal) /\ Len(journal) \in Nat
      /\ DOMAIN runs = 1..Len(runs) /\ Len(runs) \in Nat
  BY DEF JournalInv, RunsInv, RunsOK
<1>2. IsFiniteSet(DOMAIN journal) /\ IsFiniteSet(DOMAIN runs)
  BY <1>1, FS_Interval
<1>3. Standing(p) \subseteq DOMAIN journal /\ PostedRuns(p) \subseteq DOMAIN runs
  BY DEF Standing, EntriesOf, PostedRuns, RunsOf
<1>4. IsFiniteSet(Standing(p)) /\ IsFiniteSet(PostedRuns(p))
  BY ONLY <1>2, <1>3, FS_Subset
<1>. QED
  BY <1>4, FS_CardinalityType

\* An entry is voided: only that changes in the journal.
LEMMA EntryVoided ==
    ASSUME journal \in Seq(Entries), NEW k \in DOMAIN journal, VoidJournalEntry(k)
    PROVE  /\ journal' \in Seq(Entries) /\ DOMAIN journal' = DOMAIN journal
           /\ ~journal[k].void /\ journal'[k].void
           /\ \A e \in DOMAIN journal : /\ journal'[e].period = journal[e].period
                                        /\ journal'[e].total = journal[e].total
                                        /\ e # k => journal'[e] = journal[e]
<1>. DEFINE new == [journal[k] EXCEPT !.void = TRUE]
<1>1. journal' = [journal EXCEPT ![k] = new] /\ ~journal[k].void
  BY DEF VoidJournalEntry
<1>2. journal[k] \in Entries
  OBVIOUS
<1>3. /\ new \in Entries /\ new.void
      /\ new.period = journal[k].period /\ new.total = journal[k].total
  BY <1>2 DEF Entries
<1>. HIDE DEF new
<1>4. /\ journal' \in Seq(Entries) /\ DOMAIN journal' = DOMAIN journal /\ journal'[k] = new
      /\ \A e \in DOMAIN journal : e # k => journal'[e] = journal[e]
  BY <1>1, <1>3
<1>. QED
  BY <1>1, <1>3, <1>4

LEMMA JournalSteps ==
    ASSUME RunsInv, JournalInv, [PayrollNext]_payrollVars
    PROVE  JournalInv' /\ TogetherStep
<1>1. ASSUME NEW i \in DOMAIN runs, PostPayrollRun(i)
      PROVE  JournalInv' /\ TogetherStep
  <2>. DEFINE k == Len(journal) + 1
  <2>1. /\ journal' \in Seq(Entries)
        /\ DOMAIN journal' = DOMAIN journal \cup {k} /\ k \notin DOMAIN journal
        /\ \A e \in DOMAIN journal : journal'[e] = journal[e]
        /\ journal'[k].period = runs[i].period /\ ~journal'[k].void
        /\ journal'[k].total = PayslipTotal(runs[i])
        /\ DOMAIN runs' = DOMAIN runs
        /\ runs[i].status = "APPROVED" /\ runs'[i].status = "POSTED"
        /\ runs'[i].period = runs[i].period /\ runs'[i].payslips = runs[i].payslips
        /\ \A j \in DOMAIN runs : j # i => runs'[j] = runs[j]
    BY <1>1, RunPosted DEF JournalInv
  <2>0. ~ \E e \in DOMAIN journal : VoidJournalEntry(e)
    <3>1. DOMAIN journal' # DOMAIN journal
      BY <2>1
    <3>. QED
      BY <3>1, EntryVoided DEF JournalInv
  <2>. HIDE DEF k
  <2>2. PostedRunsInLedger'
    <3>. SUFFICES ASSUME NEW j \in DOMAIN runs', runs'[j].status = "POSTED"
                  PROVE  \E e \in DOMAIN journal' :
                            /\ journal'[e].period = runs'[j].period
                            /\ journal'[e].total = PayslipTotal(runs'[j])
      BY DEF PostedRunsInLedger
    <3>1. CASE j = i
      <4>1. PayslipTotal(runs'[i]) = PayslipTotal(runs[i])
        BY <2>1 DEF PayslipTotal
      <4>. QED
        BY <2>1, <3>1, <4>1
    <3>2. CASE j # i
      <4>1. PICK e \in DOMAIN journal :
               /\ journal[e].period = runs[j].period
               /\ journal[e].total = PayslipTotal(runs[j])
        BY <2>1, <3>2 DEF JournalInv, PostedRunsInLedger
      <4>2. runs'[j] = runs[j]
        BY <2>1, <3>2
      <4>. QED
        BY <2>1, <4>1, <4>2
    <3>. QED
      BY <3>1, <3>2
  <2>3. ASSUME NEW p \in Periods
        PROVE  Cardinality(Standing(p)') - Cardinality(PostedRuns(p)')
                 = Cardinality(Standing(p)) - Cardinality(PostedRuns(p))
    <3>0. /\ IsFiniteSet(Standing(p)) /\ Cardinality(Standing(p)) \in Nat
          /\ IsFiniteSet(PostedRuns(p)) /\ Cardinality(PostedRuns(p)) \in Nat
      BY CountedTogether
    <3>1. CASE p = runs[i].period
      <4>1. Standing(p)' = Standing(p) \cup {k} /\ k \notin Standing(p)
        BY <2>1, <3>1 DEF Standing, EntriesOf, VoidedOf
      <4>2. PostedRuns(p)' = PostedRuns(p) \cup {i} /\ i \notin PostedRuns(p)
        BY <2>1, <3>1 DEF PostedRuns, RunsOf
      <4>3. /\ Cardinality(Standing(p)') = Cardinality(Standing(p)) + 1
            /\ Cardinality(PostedRuns(p)') = Cardinality(PostedRuns(p)) + 1
        BY <3>0, <4>1, <4>2, FS_AddElement
      <4>. QED
        BY <3>0, <4>3
    <3>2. CASE p # runs[i].period
      <4>1. Standing(p)' = Standing(p)
        BY <2>1, <3>2 DEF Standing, EntriesOf, VoidedOf
      <4>2. PostedRuns(p)' = PostedRuns(p)
        BY <2>1, <3>2 DEF PostedRuns, RunsOf
      <4>. QED
        BY <4>1, <4>2
    <3>. QED
      BY <3>1, <3>2
  <2>. QED
    <3>1. \A p \in Periods : ~ \E e \in EntriesOf(p) : VoidJournalEntry(e)
      BY <2>0 DEF EntriesOf
    <3>2. \A p \in Periods : Cardinality(Standing(p)) \in Nat /\ Cardinality(PostedRuns(p)) \in Nat
      BY CountedTogether
    <3>. QED
      BY <2>1, <2>2, <2>3, <3>1, <3>2 DEF JournalInv, TogetherStep
<1>4. ASSUME NEW k \in DOMAIN journal, VoidJournalEntry(k)
      PROVE  JournalInv' /\ TogetherStep
  <2>1. /\ journal' \in Seq(Entries) /\ DOMAIN journal' = DOMAIN journal
        /\ ~journal[k].void /\ journal'[k].void
        /\ \A e \in DOMAIN journal : /\ journal'[e].period = journal[e].period
                                     /\ journal'[e].total = journal[e].total
                                     /\ e # k => journal'[e] = journal[e]
    BY <1>4, EntryVoided DEF JournalInv
  <2>2. runs' = runs
    BY <1>4 DEF VoidJournalEntry
  <2>3. PostedRunsInLedger'
    <3>. SUFFICES ASSUME NEW j \in DOMAIN runs, runs[j].status = "POSTED"
                  PROVE  \E e \in DOMAIN journal' :
                            /\ journal'[e].period = runs[j].period
                            /\ journal'[e].total = PayslipTotal(runs[j])
      BY <2>2 DEF PostedRunsInLedger, PayslipTotal
    <3>. QED
      BY <2>1 DEF JournalInv, PostedRunsInLedger
  <2>4. ASSUME NEW p \in Periods
        PROVE  Cardinality(Standing(p)') - Cardinality(PostedRuns(p)')
                 = Cardinality(Standing(p)) - Cardinality(PostedRuns(p))
                   - (IF \E e \in EntriesOf(p) : VoidJournalEntry(e) THEN 1 ELSE 0)
    <3>0. /\ IsFiniteSet(Standing(p)) /\ Cardinality(Standing(p)) \in Nat
          /\ Cardinality(PostedRuns(p)) \in Nat
      BY CountedTogether
    <3>1. PostedRuns(p)' = PostedRuns(p)
      BY <2>2 DEF PostedRuns, RunsOf
    <3>2. CASE k \in EntriesOf(p)
      <4>1. Standing(p)' = Standing(p) \ {k} /\ k \in Standing(p)
        BY <2>1, <3>2 DEF Standing, EntriesOf, VoidedOf
      <4>2. Cardinality(Standing(p)') = Cardinality(Standing(p)) - 1
        BY <3>0, <4>1, FS_RemoveElement
      <4>3. \E e \in EntriesOf(p) : VoidJournalEntry(e)
        BY <1>4, <3>2
      <4>. QED
        BY <3>0, <3>1, <4>2, <4>3
    <3>3. CASE k \notin EntriesOf(p)
      <4>1. Standing(p)' = Standing(p)
        BY <2>1, <3>3 DEF Standing, EntriesOf, VoidedOf
      <4>2. ~ \E e \in EntriesOf(p) : VoidJournalEntry(e)
        <5>. SUFFICES ASSUME NEW e \in EntriesOf(p), VoidJournalEntry(e) PROVE FALSE
          OBVIOUS
        <5>1. e \in DOMAIN journal /\ e # k
          BY <3>3 DEF EntriesOf
        <5>2. ~journal[e].void /\ journal'[e].void
          BY <5>1, EntryVoided DEF JournalInv
        <5>. QED
          BY <2>1, <5>1, <5>2
      <4>. QED
        BY <3>0, <3>1, <4>1, <4>2
    <3>. QED
      BY <3>2, <3>3
  <2>. QED
    BY <2>1, <2>3, <2>4 DEF JournalInv, TogetherStep
<1>. DEFINE Quiet == /\ ~ \E i \in DOMAIN runs : PostPayrollRun(i)
                     /\ ~ \E k \in DOMAIN journal : VoidJournalEntry(k)
<1>2. CASE runs' = <<>> /\ Quiet
  <2>1. journal' = journal
    BY <1>2, NothingPosted
  <2>. QED
    BY <1>2, <2>1 DEF JournalInv, PostedRunsInLedger, TogetherStep
<1>3. CASE runs' # <<>> /\ Quiet
  <2>1. /\ journal' = journal
        /\ \A i \in DOMAIN runs' :
              runs'[i].status = "POSTED" => i \in DOMAIN runs /\ runs'[i] = runs[i]
        /\ \A i \in DOMAIN runs :
              runs[i].status = "POSTED" => i \in DOMAIN runs' /\ runs'[i] = runs[i]
    BY <1>3, NothingPosted DEF SamePosted
  <2>2. JournalInv'
    BY <2>1 DEF JournalInv, PostedRunsInLedger
  <2>3. \A p \in Periods : Standing(p)' = Standing(p) /\ PostedRuns(p)' = PostedRuns(p)
    BY <2>1 DEF Standing, EntriesOf, VoidedOf, PostedRuns, RunsOf
  <2>4. \A p \in Periods : ~ \E k \in EntriesOf(p) : VoidJournalEntry(k)
    BY <1>3 DEF EntriesOf
  <2>5. \A p \in Periods : Cardinality(Standing(p)) \in Nat /\ Cardinality(PostedRuns(p)) \in Nat
    BY CountedTogether
  <2>. QED
    BY <2>2, <2>3, <2>4, <2>5 DEF TogetherStep
<1>. QED
  BY <1>1, <1>2, <1>3, <1>4

-----------------------------------------------------------------------------
\* The rest of the type.
OthersOK ==
    /\ identified \in SUBSET Employees
    /\ locked \in SUBSET Periods
    /\ balances \in [Employees -> Balances]
    /\ leaveRequests \in Seq(LeaveRequests)

\* Days that are no longer pending.
LEMMA UnpendType ==
    ASSUME NEW balance \in Balances, NEW days \in Nat
    PROVE  Unpend(balance, days) \in Balances
<1>. DEFINE left == balance.pending - days
<1>1. balance.pending \in Nat /\ left \in Int
  BY DEF Balances
<1>. HIDE DEF left
<1>2. \E x \in {0, left} : \A y \in {0, left} : x >= y
  BY <1>1
<1>3. Max({0, left}) \in {0, left} /\ \A y \in {0, left} : Max({0, left}) >= y
  BY <1>2 DEF Max
<1>4. Max({0, left}) \in Nat
  BY <1>1, <1>3
<1>5. Unpend(balance, days) = [balance EXCEPT !.pending = Max({0, left})]
  BY DEF Unpend, left
<1>. QED
  BY <1>4, <1>5 DEF Balances

\* A request that is decided, with a new balance of its employee.
LEMMA DecidedType ==
    ASSUME OthersOK, NEW i \in DOMAIN leaveRequests, NEW status \in {"APPROVED", "REJECTED"},
           NEW balance \in Balances,
           balances' = [balances EXCEPT ![leaveRequests[i].employee] = balance],
           leaveRequests' = [leaveRequests EXCEPT ![i].status = status],
           UNCHANGED <<identified, locked>>
    PROVE  OthersOK'
<1>1. leaveRequests[i] \in LeaveRequests
  BY DEF OthersOK
<1>. DEFINE new == [leaveRequests[i] EXCEPT !.status = status]
<1>2. new \in LeaveRequests
  BY <1>1 DEF LeaveRequests
<1>3. leaveRequests' = [leaveRequests EXCEPT ![i] = new]
  OBVIOUS
<1>. HIDE DEF new
<1>4. leaveRequests' \in Seq(LeaveRequests)
  BY <1>2, <1>3 DEF OthersOK
<1>. QED
  BY <1>4 DEF OthersOK

LEMMA StepOthers ==
    ASSUME OthersOK, [PayrollNext]_payrollVars
    PROVE  OthersOK'
<1>1. ASSUME UNCHANGED <<identified, locked, leaveVars>>
      PROVE  OthersOK'
  BY <1>1 DEF OthersOK, leaveVars
<1>2. ASSUME NEW e \in Employees, UpdateEmployee(e)
      PROVE  OthersOK'
  BY <1>2 DEF UpdateEmployee, OthersOK, leaveVars
<1>3. ASSUME NEW p \in Periods, UpsertFiscalPeriod(p)
      PROVE  OthersOK'
  BY <1>3 DEF UpsertFiscalPeriod, OthersOK, staffVars, leaveVars
<1>4. CASE ResetSampleModule
  BY <1>4 DEF ResetSampleModule, OthersOK, staffVars
<1>5. ASSUME NEW e \in Employees, NEW days \in 1..AcquiredDays, CreateLeaveRequest(e, days)
      PROVE  OthersOK'
  <2>. DEFINE new == [employee |-> e, days |-> days, status |-> "REQUESTED"]
  <2>. DEFINE balance == [balances[e] EXCEPT !.pending = @ + days]
  <2>0. balances[e] \in Balances /\ days \in Nat
    BY PayrollAssumption DEF OthersOK
  <2>1. new \in LeaveRequests /\ balance \in Balances
    BY <2>0 DEF LeaveRequests, Balances
  <2>2. /\ balances' = [balances EXCEPT ![e] = balance]
        /\ leaveRequests' = Append(leaveRequests, new)
        /\ UNCHANGED <<identified, locked>>
    BY <1>5 DEF CreateLeaveRequest, staffVars
  <2>. HIDE DEF new, balance
  <2>3. leaveRequests' \in Seq(LeaveRequests)
    BY <2>1, <2>2 DEF OthersOK
  <2>4. balances' \in [Employees -> Balances]
    BY <2>1, <2>2 DEF OthersOK
  <2>. QED
    BY <2>2, <2>3, <2>4 DEF OthersOK
<1>6. ASSUME NEW i \in DOMAIN leaveRequests
      PROVE  /\ leaveRequests[i].employee \in Employees
             /\ leaveRequests[i].days \in Nat
             /\ balances[leaveRequests[i].employee] \in Balances
  <2>1. leaveRequests[i] \in LeaveRequests
    BY DEF OthersOK
  <2>. QED
    BY <2>1, PayrollAssumption DEF LeaveRequests, OthersOK
<1>7. ASSUME NEW i \in DOMAIN leaveRequests, ApproveLeaveRequest(i)
      PROVE  OthersOK'
  <2>. DEFINE e == leaveRequests[i].employee
  <2>. DEFINE days == leaveRequests[i].days
  <2>. DEFINE unpended == Unpend(balances[e], days)
  <2>1. unpended \in Balances /\ days \in Nat
    BY <1>6, UnpendType
  <2>. DEFINE balance == [taken |-> unpended.taken + days, pending |-> unpended.pending]
  <2>2. /\ balances' = [balances EXCEPT ![e] = balance]
        /\ leaveRequests' = [leaveRequests EXCEPT ![i].status = "APPROVED"]
        /\ UNCHANGED <<identified, locked>>
    BY <1>7 DEF ApproveLeaveRequest, staffVars
  <2>. HIDE DEF unpended
  <2>3. balance \in Balances
    BY <2>1 DEF Balances
  <2>. QED
    BY <2>2, <2>3, DecidedType
<1>8. ASSUME NEW i \in DOMAIN leaveRequests, RejectLeaveRequest(i)
      PROVE  OthersOK'
  <2>. DEFINE e == leaveRequests[i].employee
  <2>. DEFINE days == leaveRequests[i].days
  <2>1. Unpend(balances[e], days) \in Balances
    BY <1>6, UnpendType
  <2>2. /\ balances' = [balances EXCEPT ![e] = Unpend(balances[e], days)]
        /\ leaveRequests' = [leaveRequests EXCEPT ![i].status = "REJECTED"]
        /\ UNCHANGED <<identified, locked>>
    BY <1>8 DEF RejectLeaveRequest, staffVars
  <2>. QED
    BY <2>1, <2>2, DecidedType
<1>9. CASE \E p \in Periods : CreatePayrollRun(p) \/ PayrollEvidencePack(p)
  BY <1>1, <1>9 DEF CreatePayrollRun, PayrollEvidencePack, staffVars
<1>10. CASE MoroccoScaleControlsReadiness
  BY <1>1, <1>10 DEF MoroccoScaleControlsReadiness, staffVars
<1>11. ASSUME NEW i \in DOMAIN runs,
              \/ CalculatePayrollRun(i) \/ ApprovePayrollRun(i)
              \/ PostPayrollRun(i) \/ CancelPayrollRun(i)
       PROVE  OthersOK'
  BY <1>1, <1>11 DEF CalculatePayrollRun, ApprovePayrollRun, PostPayrollRun, CancelPayrollRun,
                     staffVars
<1>12. CASE UNCHANGED payrollVars
  BY <1>1, <1>12 DEF payrollVars, staffVars
<1>13. CASE \E k \in DOMAIN journal : VoidJournalEntry(k)
  BY <1>1, <1>13 DEF VoidJournalEntry, staffVars
<1>. QED
  BY <1>2, <1>3, <1>4, <1>5, <1>7, <1>8, <1>9, <1>10, <1>11, <1>12, <1>13 DEF PayrollNext

-----------------------------------------------------------------------------
\* Leave: the days of the requests of an employee in a status, added up over all
\* requests.

DaysCounted(r, e, status) == IF r.employee = e /\ r.status = status THEN r.days ELSE 0
CountedOf(rs, e, status) == [i \in DOMAIN rs |-> DaysCounted(rs[i], e, status)]
Days(rs, e, status) == SumFunction(CountedOf(rs, e, status))

LEMMA CountedType ==
    ASSUME NEW rs \in Seq(LeaveRequests), NEW e, NEW status
    PROVE  /\ IsFiniteSet(DOMAIN rs)
           /\ CountedOf(rs, e, status) \in [DOMAIN rs -> Nat]
           /\ Days(rs, e, status) \in Nat
           /\ \A i \in DOMAIN rs : DaysCounted(rs[i], e, status) <= Days(rs, e, status)
<1>. DEFINE f == CountedOf(rs, e, status)
            S == DOMAIN rs
<1>1. IsFiniteSet(S)
  <2>1. S = 1..Len(rs) /\ Len(rs) \in Nat
    OBVIOUS
  <2>. QED
    BY <2>1, FS_Interval
<1>2. f \in [S -> Nat]
  <2>1. ASSUME NEW i \in S
        PROVE  DaysCounted(rs[i], e, status) \in Nat
    <3>1. rs[i] \in LeaveRequests
      OBVIOUS
    <3>. QED
      BY <3>1, PayrollAssumption DEF DaysCounted, LeaveRequests
  <2>. QED
    BY <2>1 DEF CountedOf
<1>3. \A i \in S : f[i] = DaysCounted(rs[i], e, status)
  BY DEF CountedOf
<1>. HIDE DEF f, S
<1>4. SumFunction(f) \in Nat /\ \A i \in S : f[i] <= SumFunction(f)
  BY ONLY <1>1, <1>2, SumNat
<1>. QED
  BY <1>1, <1>2, <1>3, <1>4 DEF f, S, Days

LEMMA DaysSum ==
    ASSUME NEW rs \in Seq(LeaveRequests), NEW e, NEW status
    PROVE  SumFunction([i \in {i \in DOMAIN rs : rs[i].employee = e /\ rs[i].status = status}
                          |-> rs[i].days]) = Days(rs, e, status)
<1>. DEFINE S == DOMAIN rs
            T == {i \in DOMAIN rs : rs[i].employee = e /\ rs[i].status = status}
            f == CountedOf(rs, e, status)
            g == [i \in T |-> rs[i].days]
<1>1. IsFiniteSet(S) /\ f \in [S -> Int]
  BY CountedType
<1>2. T \in SUBSET S /\ \A i \in S \ T : f[i] = 0
  BY DEF CountedOf, DaysCounted
<1>3. g = [i \in T |-> f[i]]
  BY DEF CountedOf, DaysCounted
<1>. HIDE DEF S, T, f, g
<1>4. SumFunction(g) = SumFunction(f)
  BY ONLY <1>1, <1>2, <1>3, SumSupport
<1>. QED
  BY <1>4 DEF g, f, T, Days

LEMMA DaysAdded ==
    ASSUME NEW rs \in Seq(LeaveRequests), NEW r \in LeaveRequests, NEW e, NEW status
    PROVE  Days(Append(rs, r), e, status) = Days(rs, e, status) + DaysCounted(r, e, status)
<1>. DEFINE n == Len(rs)
            new == Append(rs, r)
            f == CountedOf(rs, e, status)
            g == CountedOf(new, e, status)
<1>1. /\ new \in Seq(LeaveRequests) /\ n \in Nat
      /\ DOMAIN rs = 1..n /\ DOMAIN new = 1..n + 1
      /\ \A i \in 1..n : new[i] = rs[i]
      /\ new[n + 1] = r
  OBVIOUS
<1>. HIDE DEF new
<1>2. f \in [1..n -> Int] /\ g \in [1..n + 1 -> Int]
  BY <1>1, CountedType
<1>3. /\ \A i \in 1..n : g[i] = f[i]
      /\ g[n + 1] = DaysCounted(r, e, status)
  BY <1>1 DEF CountedOf
<1>. HIDE DEF f, g, n
<1>4. SumFunction(g) = SumFunction(f) + g[n + 1]
  BY ONLY <1>1, <1>2, <1>3, SumAppend
<1>. QED
  BY <1>3, <1>4 DEF f, g, Days, new

LEMMA DaysChanged ==
    ASSUME NEW rs \in Seq(LeaveRequests), NEW x \in DOMAIN rs, NEW r \in LeaveRequests,
           NEW e, NEW status
    PROVE  Days([rs EXCEPT ![x] = r], e, status)
             = Days(rs, e, status) - DaysCounted(rs[x], e, status) + DaysCounted(r, e, status)
<1>. DEFINE S == DOMAIN rs
            new == [rs EXCEPT ![x] = r]
            f == CountedOf(rs, e, status)
            g == CountedOf(new, e, status)
<1>1. /\ new \in Seq(LeaveRequests) /\ DOMAIN new = S /\ new[x] = r
      /\ \A i \in S \ {x} : new[i] = rs[i]
  OBVIOUS
<1>. HIDE DEF new
<1>2. IsFiniteSet(S) /\ f \in [S -> Int] /\ g \in [S -> Int]
  BY <1>1, CountedType
<1>3. /\ \A i \in S \ {x} : g[i] = f[i]
      /\ g[x] = DaysCounted(r, e, status) /\ f[x] = DaysCounted(rs[x], e, status)
  BY <1>1 DEF CountedOf
<1>4. x \in S
  OBVIOUS
<1>. HIDE DEF f, g, S
<1>5. SumFunction(g) = SumFunction(f) - f[x] + g[x]
  BY ONLY <1>2, <1>3, <1>4, SumChange
<1>. QED
  BY <1>3, <1>5 DEF f, g, Days, new

\* The days that wait for a decision are pending; with what was taken they stay
\* within what is acquired.
LeaveInv ==
    \A e \in Employees :
       /\ Days(leaveRequests, e, "REQUESTED") <= balances[e].pending
       /\ balances[e].taken + balances[e].pending <= AcquiredDays

FollowStep ==
    leaveRequests' # <<>> =>
      \A e \in Employees :
         /\ balances'[e].pending - Days(leaveRequests', e, "REQUESTED")
               = balances[e].pending - Days(leaveRequests, e, "REQUESTED")
         /\ balances'[e].taken - Days(leaveRequests', e, "APPROVED")
               = balances[e].taken - Days(leaveRequests, e, "APPROVED")

\* A decision takes exactly its days off what is pending.
LEMMA Unpended ==
    ASSUME NEW balance \in Balances, NEW days \in Nat, days <= balance.pending
    PROVE  /\ Unpend(balance, days) \in Balances
           /\ Unpend(balance, days).taken = balance.taken
           /\ Unpend(balance, days).pending = balance.pending - days
<1>. DEFINE left == balance.pending - days
<1>1. balance.pending \in Nat /\ balance.taken \in Nat /\ left \in Nat
  BY DEF Balances
<1>. HIDE DEF left
<1>2. \E x \in {0, left} : \A y \in {0, left} : x >= y
  BY <1>1
<1>3. Max({0, left}) \in {0, left} /\ \A y \in {0, left} : Max({0, left}) >= y
  BY <1>2 DEF Max
<1>4. Max({0, left}) = left
  BY <1>1, <1>3
<1>5. Unpend(balance, days) = [balance EXCEPT !.pending = left]
  BY <1>4 DEF Unpend, left
<1>. QED
  BY <1>1, <1>5 DEF Balances, left

\* A request that is decided: its days leave the pending ones, and are taken when
\* it is approved.
LEMMA LeaveDecided ==
    ASSUME OthersOK, LeaveInv, NEW i \in DOMAIN leaveRequests,
           leaveRequests[i].status = "REQUESTED",
           NEW status \in {"APPROVED", "REJECTED"}, NEW balance,
           NEW taken, taken = IF status = "APPROVED" THEN leaveRequests[i].days ELSE 0,
           balance.pending = Unpend(balances[leaveRequests[i].employee],
                                    leaveRequests[i].days).pending,
           balance.taken = balances[leaveRequests[i].employee].taken + taken,
           balances' = [balances EXCEPT ![leaveRequests[i].employee] = balance],
           leaveRequests' = [leaveRequests EXCEPT ![i].status = status]
    PROVE  LeaveInv' /\ FollowStep
<1>. DEFINE old == leaveRequests[i]
            who == leaveRequests[i].employee
            days == leaveRequests[i].days
            new == [leaveRequests[i] EXCEPT !.status = status]
            rs == leaveRequests
<1>1. /\ rs \in Seq(LeaveRequests) /\ old \in LeaveRequests /\ who \in Employees
      /\ days \in Nat /\ AcquiredDays \in Nat
      /\ balances \in [Employees -> Balances]
  <2>1. rs \in Seq(LeaveRequests) /\ old \in LeaveRequests
        /\ balances \in [Employees -> Balances]
    BY DEF OthersOK
  <2>. QED
    BY <2>1, PayrollAssumption DEF LeaveRequests
<1>2. /\ new \in LeaveRequests /\ new.employee = who /\ new.days = days
      /\ new.status = status
  BY <1>1 DEF LeaveRequests
<1>3. leaveRequests' = [rs EXCEPT ![i] = new]
  OBVIOUS
<1>. HIDE DEF new
<1>4. ASSUME NEW e \in Employees
      PROVE  /\ Days(leaveRequests', e, "REQUESTED")
                  = Days(rs, e, "REQUESTED") - (IF e = who THEN days ELSE 0)
             /\ Days(leaveRequests', e, "APPROVED")
                  = Days(rs, e, "APPROVED") + (IF e = who THEN taken ELSE 0)
             /\ Days(rs, e, "REQUESTED") \in Nat /\ Days(rs, e, "APPROVED") \in Nat
             /\ e = who => days <= Days(rs, e, "REQUESTED")
  <2>1. /\ Days(rs, e, "REQUESTED") \in Nat /\ Days(rs, e, "APPROVED") \in Nat
        /\ DaysCounted(old, e, "REQUESTED") <= Days(rs, e, "REQUESTED")
    BY <1>1, CountedType
  <2>2. /\ DaysCounted(old, e, "REQUESTED") = (IF e = who THEN days ELSE 0)
        /\ DaysCounted(new, e, "REQUESTED") = 0
        /\ DaysCounted(old, e, "APPROVED") = 0
        /\ DaysCounted(new, e, "APPROVED") = (IF e = who THEN taken ELSE 0)
    BY <1>2 DEF DaysCounted
  <2>. DEFINE after == [rs EXCEPT ![i] = new]
  <2>5. i \in DOMAIN rs
    OBVIOUS
  <2>6. old = rs[i]
    OBVIOUS
  <2>7. leaveRequests' = after
    BY <1>3
  <2>. HIDE DEF old, rs
  <2>8. \A s \in {"REQUESTED", "APPROVED"} :
           Days([rs EXCEPT ![i] = new], e, s)
             = Days(rs, e, s) - DaysCounted(rs[i], e, s)
                 + DaysCounted(new, e, s)
    BY ONLY <1>1, <1>2, <2>5, DaysChanged
  <2>. HIDE DEF after
  <2>3. /\ Days(leaveRequests', e, "REQUESTED")
             = Days(rs, e, "REQUESTED") - DaysCounted(old, e, "REQUESTED")
                 + DaysCounted(new, e, "REQUESTED")
        /\ Days(leaveRequests', e, "APPROVED")
             = Days(rs, e, "APPROVED") - DaysCounted(old, e, "APPROVED")
                 + DaysCounted(new, e, "APPROVED")
    BY <2>6, <2>7, <2>8 DEF after
  <2>. HIDE DEF old, who, days, rs
  <2>4. days \in Nat /\ taken \in Nat
    BY <1>1 DEF days
  <2>9. PICK q \in Nat, d \in Nat, left \in Nat, more \in Nat :
           /\ q = Days(rs, e, "REQUESTED") /\ d = Days(rs, e, "APPROVED")
           /\ left = (IF e = who THEN days ELSE 0) /\ more = (IF e = who THEN taken ELSE 0)
    BY <2>1, <2>4
  <2>10. left <= q
    BY ONLY <2>1, <2>2, <2>9
  <2>11. q - left + 0 = q - left /\ d - 0 + more = d + more
    OBVIOUS
  <2>12. /\ Days(leaveRequests', e, "REQUESTED") = q - left + 0
         /\ Days(leaveRequests', e, "APPROVED") = d - 0 + more
    BY ONLY <2>2, <2>3, <2>9
  <2>13. e = who => days <= Days(rs, e, "REQUESTED")
    BY ONLY <2>9, <2>10
  <2>. QED
    BY ONLY <2>9, <2>11, <2>12, <2>13
<1>5. /\ days <= balances[who].pending
      /\ balances[who].pending \in Nat /\ balances[who].taken \in Nat
  <2>1. days <= Days(rs, who, "REQUESTED") /\ Days(rs, who, "REQUESTED") \in Nat
    BY <1>1, <1>4
  <2>2. Days(rs, who, "REQUESTED") <= balances[who].pending
    BY <1>1 DEF LeaveInv
  <2>3. balances[who].pending \in Nat /\ balances[who].taken \in Nat
    BY <1>1 DEF Balances
  <2>. HIDE DEF rs, who, days
  <2>. QED
    BY <1>1, <2>1, <2>2, <2>3
<1>6. balance.pending = balances[who].pending - days
  <2>1. balances[who] \in Balances
    BY <1>1
  <2>. QED
    BY <1>1, <1>5, <2>1, Unpended
<1>7. ASSUME NEW e \in Employees
      PROVE  /\ balances'[e].pending = balances[e].pending - (IF e = who THEN days ELSE 0)
             /\ balances'[e].taken = balances[e].taken + (IF e = who THEN taken ELSE 0)
             /\ balances[e].pending \in Nat /\ balances[e].taken \in Nat
  <2>0. balances[e].pending \in Nat /\ balances[e].taken \in Nat
    BY <1>1 DEF Balances
  <2>. HIDE DEF days
  <2>1. CASE e = who
    <3>1. balances'[e] = balance
      BY <1>1, <2>1
    <3>. QED
      BY <1>6, <2>0, <2>1, <3>1
  <2>2. CASE e # who
    <3>1. balances'[e] = balances[e]
      BY <1>1, <2>2
    <3>. QED
      BY <1>1, <2>0, <2>2, <3>1
  <2>. QED
    BY <2>1, <2>2
<1>8. taken \in Nat /\ taken <= days
  BY <1>1
<1>. HIDE DEF old, who, days, rs
<1>9. ASSUME NEW e \in Employees
      PROVE  /\ Days(leaveRequests', e, "REQUESTED") <= balances'[e].pending
             /\ balances'[e].taken + balances'[e].pending <= AcquiredDays
             /\ balances'[e].pending - Days(leaveRequests', e, "REQUESTED")
                  = balances[e].pending - Days(rs, e, "REQUESTED")
             /\ balances'[e].taken - Days(leaveRequests', e, "APPROVED")
                  = balances[e].taken - Days(rs, e, "APPROVED")
  <2>1. /\ Days(rs, e, "REQUESTED") <= balances[e].pending
        /\ balances[e].taken + balances[e].pending <= AcquiredDays
    BY DEF LeaveInv, rs
  <2>2. PICK left \in Nat : left = (IF e = who THEN days ELSE 0)
    BY <1>1
  <2>3. PICK more \in Nat : more = (IF e = who THEN taken ELSE 0)
    BY <1>8
  <2>4. more <= left
    BY <1>1, <1>8, <2>2, <2>3
  <2>5. PICK p \in Nat, t \in Nat, q \in Nat, d \in Nat :
           /\ p = balances[e].pending /\ t = balances[e].taken
           /\ q = Days(rs, e, "REQUESTED") /\ d = Days(rs, e, "APPROVED")
    BY <1>4, <1>7
  <2>6. /\ Days(leaveRequests', e, "REQUESTED") = q - left
        /\ Days(leaveRequests', e, "APPROVED") = d + more
    BY <1>4, <2>2, <2>3, <2>5
  <2>7. balances'[e].pending = p - left /\ balances'[e].taken = t + more
    BY <1>7, <2>2, <2>3, <2>5
  <2>8. q <= p /\ t + p <= AcquiredDays
    BY <2>1, <2>5
  <2>9. /\ q - left <= p - left
        /\ t + more + (p - left) <= AcquiredDays
        /\ (p - left) - (q - left) = p - q
        /\ (t + more) - (d + more) = t - d
    BY ONLY <1>1, <2>4, <2>8, left \in Nat, more \in Nat, p \in Nat, q \in Nat, t \in Nat,
            d \in Nat
  <2>. QED
    BY <2>5, <2>6, <2>7, <2>9
<1>. QED
  BY <1>9 DEF LeaveInv, FollowStep, rs

LEMMA LeaveSteps ==
    ASSUME OthersOK, LeaveInv, [PayrollNext]_payrollVars
    PROVE  LeaveInv' /\ FollowStep
<1>0. /\ leaveRequests \in Seq(LeaveRequests) /\ balances \in [Employees -> Balances]
      /\ AcquiredDays \in Nat
  BY PayrollAssumption DEF OthersOK
<1>1. ASSUME UNCHANGED leaveVars
      PROVE  LeaveInv' /\ FollowStep
  BY <1>1 DEF LeaveInv, FollowStep, leaveVars
<1>2. ASSUME NEW e \in Employees, NEW days \in 1..AcquiredDays, CreateLeaveRequest(e, days)
      PROVE  LeaveInv' /\ FollowStep
  <2>. DEFINE new == [employee |-> e, days |-> days, status |-> "REQUESTED"]
              balance == [balances[e] EXCEPT !.pending = @ + days]
  <2>1. /\ days <= Remaining(e)
        /\ balances' = [balances EXCEPT ![e] = balance]
        /\ leaveRequests' = Append(leaveRequests, new)
    BY <1>2 DEF CreateLeaveRequest
  <2>2. /\ days \in Nat /\ new \in LeaveRequests
        /\ new.employee = e /\ new.days = days /\ new.status = "REQUESTED"
    BY <1>0 DEF LeaveRequests
  <2>. HIDE DEF new
  <2>3. ASSUME NEW d \in Employees
        PROVE  /\ Days(leaveRequests', d, "REQUESTED")
                    = Days(leaveRequests, d, "REQUESTED") + (IF d = e THEN days ELSE 0)
               /\ Days(leaveRequests', d, "APPROVED") = Days(leaveRequests, d, "APPROVED")
               /\ Days(leaveRequests, d, "REQUESTED") \in Nat
    <3>1. /\ Days(leaveRequests', d, "REQUESTED")
               = Days(leaveRequests, d, "REQUESTED") + DaysCounted(new, d, "REQUESTED")
          /\ Days(leaveRequests', d, "APPROVED")
               = Days(leaveRequests, d, "APPROVED") + DaysCounted(new, d, "APPROVED")
      BY <1>0, <2>1, <2>2, DaysAdded
    <3>2. /\ DaysCounted(new, d, "REQUESTED") = (IF d = e THEN days ELSE 0)
          /\ DaysCounted(new, d, "APPROVED") = 0
      BY <2>2 DEF DaysCounted
    <3>3. Days(leaveRequests, d, "REQUESTED") \in Nat /\ Days(leaveRequests, d, "APPROVED") \in Nat
      BY <1>0, CountedType
    <3>. QED
      BY <3>1, <3>2, <3>3
  <2>4. ASSUME NEW d \in Employees
        PROVE  /\ balances'[d].pending = balances[d].pending + (IF d = e THEN days ELSE 0)
               /\ balances'[d].taken = balances[d].taken
               /\ balances[d].pending \in Nat /\ balances[d].taken \in Nat
    <3>1. balances[d].pending \in Nat /\ balances[d].taken \in Nat /\ balances[d] \in Balances
      BY <1>0 DEF Balances
    <3>2. CASE d = e
      <4>1. balances'[d] = balance
        BY <1>0, <2>1, <3>2
      <4>2. balance.pending = balances[e].pending + days /\ balance.taken = balances[e].taken
        BY <3>1, <3>2 DEF Balances
      <4>. HIDE DEF balance
      <4>. QED
        BY <3>1, <3>2, <4>1, <4>2
    <3>3. CASE d # e
      <4>1. balances'[d] = balances[d]
        BY <1>0, <2>1, <3>3
      <4>. QED
        BY <3>1, <3>3, <4>1
    <3>. QED
      BY <3>2, <3>3
  <2>5. ASSUME NEW d \in Employees
        PROVE  /\ Days(leaveRequests', d, "REQUESTED") <= balances'[d].pending
               /\ balances'[d].taken + balances'[d].pending <= AcquiredDays
               /\ balances'[d].pending - Days(leaveRequests', d, "REQUESTED")
                    = balances[d].pending - Days(leaveRequests, d, "REQUESTED")
               /\ balances'[d].taken - Days(leaveRequests', d, "APPROVED")
                    = balances[d].taken - Days(leaveRequests, d, "APPROVED")
    <3>1. /\ Days(leaveRequests, d, "REQUESTED") <= balances[d].pending
          /\ balances[d].taken + balances[d].pending <= AcquiredDays
      BY DEF LeaveInv
    <3>2. CASE d = e
      <4>1. days <= AcquiredDays - balances[e].taken - balances[e].pending
        BY <2>1 DEF Remaining
      <4>. QED
        BY <1>0, <2>2, <2>3, <2>4, <3>1, <3>2, <4>1
    <3>3. CASE d # e
      BY <1>0, <2>3, <2>4, <3>1, <3>3
    <3>. QED
      BY <3>2, <3>3
  <2>. QED
    BY <2>5 DEF LeaveInv, FollowStep
<1>3. ASSUME NEW i \in DOMAIN leaveRequests, ApproveLeaveRequest(i)
      PROVE  LeaveInv' /\ FollowStep
  <2>. DEFINE e == leaveRequests[i].employee
              days == leaveRequests[i].days
              unpended == Unpend(balances[e], days)
              balance == [taken |-> unpended.taken + days, pending |-> unpended.pending]
  <2>1. /\ leaveRequests[i].status = "REQUESTED"
        /\ balances' = [balances EXCEPT ![e] = balance]
        /\ leaveRequests' = [leaveRequests EXCEPT ![i].status = "APPROVED"]
    BY <1>3 DEF ApproveLeaveRequest
  <2>2. leaveRequests[i] \in LeaveRequests
    BY <1>0
  <2>3. e \in Employees /\ balances[e] \in Balances
    BY <1>0, <2>2 DEF LeaveRequests
  <2>4. unpended.taken = balances[e].taken
    BY <2>3 DEF Unpend, Balances
  <2>5. balance.pending = unpended.pending /\ balance.taken = balances[e].taken + days
    BY <2>4
  <2>. HIDE DEF balance
  <2>. QED
    BY <2>1, <2>5, LeaveDecided
<1>4. ASSUME NEW i \in DOMAIN leaveRequests, RejectLeaveRequest(i)
      PROVE  LeaveInv' /\ FollowStep
  <2>. DEFINE e == leaveRequests[i].employee
              days == leaveRequests[i].days
              balance == Unpend(balances[e], days)
  <2>1. /\ leaveRequests[i].status = "REQUESTED"
        /\ balances' = [balances EXCEPT ![e] = balance]
        /\ leaveRequests' = [leaveRequests EXCEPT ![i].status = "REJECTED"]
    BY <1>4 DEF RejectLeaveRequest
  <2>2. leaveRequests[i] \in LeaveRequests
    BY <1>0
  <2>3. e \in Employees /\ balances[e] \in Balances
    BY <1>0, <2>2 DEF LeaveRequests
  <2>4. balance.taken = balances[e].taken /\ balances[e].taken \in Nat
    BY <2>3 DEF Unpend, Balances
  <2>5. balance.taken = balances[e].taken + 0
    BY <2>4
  <2>. QED
    BY <2>1, <2>5, LeaveDecided
<1>5. CASE ResetSampleModule
  <2>1. leaveRequests' = <<>> /\ balances' = balances
    BY <1>5 DEF ResetSampleModule
  <2>2. ASSUME NEW e \in Employees
        PROVE  /\ Days(leaveRequests', e, "REQUESTED") <= balances'[e].pending
               /\ balances'[e].taken + balances'[e].pending <= AcquiredDays
    <3>1. DOMAIN <<>> = {} /\ <<>> \in Seq(LeaveRequests)
      OBVIOUS
    <3>2. CountedOf(<<>>, e, "REQUESTED") \in [{} -> Int]
      BY <3>1, CountedType
    <3>3. Days(<<>>, e, "REQUESTED") = 0
      BY <3>2, SumEmpty DEF Days
    <3>4. balances[e].pending \in Nat
      BY <1>0 DEF Balances
    <3>. QED
      BY <2>1, <3>3, <3>4 DEF LeaveInv
  <2>. QED
    BY <2>1, <2>2 DEF LeaveInv, FollowStep
<1>6. CASE PayrollNext
  <2>1. ASSUME NEW p \in Periods,
               CreatePayrollRun(p) \/ PayrollEvidencePack(p) \/ UpsertFiscalPeriod(p)
        PROVE  UNCHANGED leaveVars
    BY <2>1 DEF CreatePayrollRun, PayrollEvidencePack, UpsertFiscalPeriod
  <2>2. CASE MoroccoScaleControlsReadiness
    BY <1>1, <2>2 DEF MoroccoScaleControlsReadiness
  <2>3. ASSUME NEW i \in DOMAIN runs,
               CalculatePayrollRun(i) \/ ApprovePayrollRun(i) \/ PostPayrollRun(i)
                 \/ CancelPayrollRun(i)
        PROVE  UNCHANGED leaveVars
    BY <2>3 DEF CalculatePayrollRun, ApprovePayrollRun, PostPayrollRun, CancelPayrollRun
  <2>4. ASSUME NEW e \in Employees, UpdateEmployee(e)
        PROVE  UNCHANGED leaveVars
    BY <2>4 DEF UpdateEmployee
  <2>5. CASE \E k \in DOMAIN journal : VoidJournalEntry(k)
    BY <1>1, <2>5 DEF VoidJournalEntry
  <2>. QED
    BY <1>1, <1>2, <1>3, <1>4, <1>5, <1>6, <2>1, <2>2, <2>3, <2>4, <2>5 DEF PayrollNext
<1>7. CASE UNCHANGED payrollVars
  BY <1>1, <1>7 DEF payrollVars
<1>. QED
  BY <1>6, <1>7

-----------------------------------------------------------------------------
\* The two payslips of an amount.

LEMMA SmallerOf ==
    ASSUME NEW a \in Int, NEW b \in Int
    PROVE  Min({a, b}) = IF a <= b THEN a ELSE b
<1>1. \E x \in {a, b} : \A y \in {a, b} : x <= y
  OBVIOUS
<1>2. Min({a, b}) \in {a, b} /\ \A y \in {a, b} : Min({a, b}) <= y
  BY <1>1 DEF Min
<1>. QED
  BY <1>2

LEMMA NoLessThanZero ==
    ASSUME NEW x \in Int
    PROVE  AtLeastZero(x) = IF x >= 0 THEN x ELSE 0
<1>1. \E y \in {0, x} : \A z \in {0, x} : y >= z
  OBVIOUS
<1>2. Max({0, x}) \in {0, x} /\ \A z \in {0, x} : Max({0, x}) >= z
  BY <1>1 DEF Max
<1>. QED
  BY <1>2 DEF AtLeastZero

\* What a rounded amount can be, for the two units that are rounded to.
LEMMA RoundedOf ==
    ASSUME NEW x \in Int
    PROVE  /\ \A r \in Rounded(x, 100) : r \in Int /\ 200 * r - 2 * x \in -100..100
           /\ \A r \in Rounded(x, 10000) : r \in Int /\ 20000 * r - 2 * x \in -10000..10000
<1>1. ASSUME NEW r \in Rounded(x, 100)
      PROVE  r \in Int /\ 200 * r - 2 * x \in -100..100
  <2>1. r \in Int /\ 2 * (r * 100 - x) \in -100..100
    BY <1>1 DEF Rounded
  <2>. QED
    BY <2>1
<1>2. ASSUME NEW r \in Rounded(x, 10000)
      PROVE  r \in Int /\ 20000 * r - 2 * x \in -10000..10000
  <2>1. r \in Int /\ 2 * (r * 10000 - x) \in -10000..10000
    BY <1>2 DEF Rounded
  <2>. QED
    BY <2>1
<1>. QED
  BY <1>1, <1>2

\* Whole units pass through the rounding.
LEMMA RoundedShift ==
    ASSUME NEW x \in Int, NEW k \in Int, NEW r \in Rounded(x, 100)
    PROVE  r - k \in Rounded(x - k * 100, 100)
<1>1. r \in {x \div 100, x \div 100 + 1} /\ r \in Int /\ 2 * (r * 100 - x) \in -100..100
  BY DEF Rounded
<1>2. (x - k * 100) \div 100 = x \div 100 - k
  OBVIOUS
<1>3. r - k \in {(x - k * 100) \div 100, (x - k * 100) \div 100 + 1}
  BY <1>1, <1>2
<1>4. 2 * ((r - k) * 100 - (x - k * 100)) \in -100..100
  BY <1>1
<1>. QED
  BY <1>3, <1>4 DEF Rounded

LEMMA FiveTerms ==
    ASSUME NEW f \in [2..6 -> Int]
    PROVE  SumFunction(f) = f[2] + f[3] + f[4] + f[5] + f[6]
<1>. DEFINE F(k) == SumFunction([i \in 2..k |-> f[i]])
<1>1. F(1) = 0
  <2>. DEFINE z == [i \in 2..1 |-> f[i]]
  <2>1. z \in [{} -> Int]
    OBVIOUS
  <2>. HIDE DEF z
  <2>2. SumFunction(z) = 0
    BY <2>1, SumEmpty
  <2>. QED
    BY <2>2 DEF z
<1>2. ASSUME NEW k \in 1..5
      PROVE  F(k + 1) = F(k) + f[k + 1]
  <2>. DEFINE S == 2..k
              x == k + 1
              a == [i \in 2..k |-> f[i]]
              b == [i \in 2..k + 1 |-> f[i]]
  <2>1. IsFiniteSet(S)
    BY FS_Interval
  <2>2. x \notin S /\ S \cup {x} = 2..k + 1
    OBVIOUS
  <2>3. a \in [S -> Int] /\ b \in [S \cup {x} -> Int]
    BY <2>2
  <2>4. b[x] = f[x]
    OBVIOUS
  <2>6. \A i \in S : b[i] = a[i]
    OBVIOUS
  <2>. HIDE DEF S, a, b, x, F
  <2>5. SumFunction(b) = SumFunction(a) + b[x]
    BY <2>1, <2>2, <2>3, <2>6, SumExtend DEF S
  <2>. QED
    BY <2>4, <2>5 DEF a, b, x, F
<1>3. F(6) = SumFunction(f)
  <2>1. f = [i \in 2..6 |-> f[i]]
    OBVIOUS
  <2>. QED
    BY <2>1
<1>4. /\ f[2] \in Int /\ f[3] \in Int /\ f[4] \in Int /\ f[5] \in Int /\ f[6] \in Int
  OBVIOUS
<1>. HIDE DEF F
<1>5. F(2) = F(1) + f[2] /\ F(3) = F(2) + f[3] /\ F(4) = F(3) + f[4]
      /\ F(5) = F(4) + f[5] /\ F(6) = F(5) + f[6]
  <2>1. 1 + 1 = 2 /\ 2 + 1 = 3 /\ 3 + 1 = 4 /\ 4 + 1 = 5 /\ 5 + 1 = 6
    OBVIOUS
  <2>. QED
    BY <1>2, <2>1
<1>. QED
  BY <1>1, <1>3, <1>4, <1>5

\* What a slice adds is the part of the base above it, at the raise of its rate.
LEMMA SliceBySlice ==
    ASSUME NEW t \in Nat
    PROVE  Progressive(t) = (IF t >= 333333 THEN (t - 333333) * 10 ELSE 0)
                            + (IF t >= 500000 THEN (t - 500000) * 10 ELSE 0)
                            + (IF t >= 666667 THEN (t - 666667) * 10 ELSE 0)
                            + (IF t >= 833333 THEN (t - 833333) * 4 ELSE 0)
                            + (IF t >= 1500000 THEN (t - 1500000) * 3 ELSE 0)
<1>. DEFINE f == [i \in 2..6 |-> AtLeastZero(t - Slices[i].from) * RaiseOf(i)]
<1>1. /\ Slices[2].from = 333333 /\ RaiseOf(2) = 10
      /\ Slices[3].from = 500000 /\ RaiseOf(3) = 10
      /\ Slices[4].from = 666667 /\ RaiseOf(4) = 10
      /\ Slices[5].from = 833333 /\ RaiseOf(5) = 4
      /\ Slices[6].from = 1500000 /\ RaiseOf(6) = 3
  BY SMT DEF Slices, RaiseOf
<1>2. /\ f[2] = (IF t >= 333333 THEN (t - 333333) * 10 ELSE 0)
      /\ f[3] = (IF t >= 500000 THEN (t - 500000) * 10 ELSE 0)
      /\ f[4] = (IF t >= 666667 THEN (t - 666667) * 10 ELSE 0)
      /\ f[5] = (IF t >= 833333 THEN (t - 833333) * 4 ELSE 0)
      /\ f[6] = (IF t >= 1500000 THEN (t - 1500000) * 3 ELSE 0)
  <2>1. ASSUME NEW i \in 2..6, NEW low \in Nat, NEW raise \in Nat,
               Slices[i].from = low, RaiseOf(i) = raise
        PROVE  f[i] = IF t >= low THEN (t - low) * raise ELSE 0
    <3>1. f[i] = AtLeastZero(t - low) * raise
      BY SMT, <2>1
    <3>2. AtLeastZero(t - low) = IF t >= low THEN t - low ELSE 0
      BY SMT, NoLessThanZero
    <3>. QED
      BY SMT, <3>1, <3>2
  <2>. HIDE DEF f
  <2>. QED
    BY SMT, <1>1, <2>1
<1>3. f \in [2..6 -> Int]
  <2>1. \A i \in 2..6 : i = 2 \/ i = 3 \/ i = 4 \/ i = 5 \/ i = 6
    BY SMT
  <2>2. DOMAIN f = 2..6 /\ f = [i \in 2..6 |-> f[i]]
    BY SMT
  <2>. HIDE DEF f
  <2>3. \A i \in 2..6 : f[i] \in Int
    BY SMT, <1>2, <2>1
  <2>. QED
    BY SMT, <2>2, <2>3
<1>4. Progressive(t) = SumFunction(f)
  BY SMT DEF Progressive
<1>. HIDE DEF f
<1>. QED
  BY SMT, <1>2, <1>3, <1>4, FiveTerms

LEMMA InfinityType == Infinity \in Nat
  BY SMT DEF Infinity

LEMMA AmountRange ==
    ASSUME NEW t \in 0..Infinity
    PROVE  t \in Nat /\ Infinity \in Nat /\ t <= Infinity
  BY SMT, InfinityType

\* The row of the table an amount is taxed by.
LEMMA RowOf ==
    ASSUME NEW t \in 0..Infinity
    PROVE  /\ t <= 333333 => Matching(Rules, t) = Bracket(333333, 0, 0)
           /\ t > 333333 /\ t <= 500000 => Matching(Rules, t) = Bracket(500000, 10, 33333)
           /\ t > 500000 /\ t <= 666667 => Matching(Rules, t) = Bracket(666667, 20, 83333)
           /\ t > 666667 /\ t <= 833333 => Matching(Rules, t) = Bracket(833333, 30, 150000)
           /\ t > 833333 /\ t <= 1500000 => Matching(Rules, t) = Bracket(1500000, 34, 183333)
           /\ t > 1500000 => Matching(Rules, t) = Bracket(Infinity, 37, 228333)
<1>. DEFINE S == {i \in DOMAIN Rules : t <= Rules[i].upper}
<1>1. /\ Rules[1] = Bracket(333333, 0, 0) /\ Rules[2] = Bracket(500000, 10, 33333)
      /\ Rules[3] = Bracket(666667, 20, 83333) /\ Rules[4] = Bracket(833333, 30, 150000)
      /\ Rules[5] = Bracket(1500000, 34, 183333) /\ Rules[6] = Bracket(Infinity, 37, 228333)
      /\ DOMAIN Rules = {1, 2, 3, 4, 5, 6}
  BY SMT DEF Rules
<1>2. /\ 1 \in S <=> t <= 333333
      /\ 2 \in S <=> t <= 500000
      /\ 3 \in S <=> t <= 666667
      /\ 4 \in S <=> t <= 833333
      /\ 5 \in S <=> t <= 1500000
      /\ 6 \in S
      /\ S \in SUBSET {1, 2, 3, 4, 5, 6}
  <2>1. \A i : i \in S <=> i \in DOMAIN Rules /\ t <= Rules[i].upper
    OBVIOUS
  <2>2. /\ Rules[1].upper = 333333 /\ Rules[2].upper = 500000 /\ Rules[3].upper = 666667
        /\ Rules[4].upper = 833333 /\ Rules[5].upper = 1500000 /\ Rules[6].upper = Infinity
    BY SMT, <1>1 DEF Bracket
  <2>3. t <= Infinity
    BY AmountRange
  <2>. HIDE DEF S
  <2>. QED
    BY SMT, <1>1, <2>1, <2>2, <2>3, AmountRange
<1>3. Matching(Rules, t) = Rules[Min(S)]
  BY SMT DEF Matching
<1>. HIDE DEF S
<1>4. ASSUME NEW x \in S, \A y \in S : x <= y
      PROVE  Min(S) = x
  <2>1. Min(S) \in S /\ \A y \in S : Min(S) <= y
    BY Zenon, <1>4 DEF Min
  <2>2. PICK m \in S : m = Min(S)
    BY Zenon, <2>1
  <2>3. m <= x /\ x <= m
    BY Zenon, <1>4, <2>1, <2>2
  <2>4. m \in Int /\ x \in Int
    BY SMT, <1>2
  <2>5. m = x
    BY SMT, <2>3, <2>4
  <2>. QED
    BY Zenon, <2>2, <2>5
<1>5. CASE t <= 333333
  <2>1. Min(S) = 1
    BY SMT, <1>2, <1>4, <1>5
  <2>. QED
    BY SMT, <1>1, <1>3, <1>5, <2>1
<1>6. CASE t > 333333 /\ t <= 500000
  <2>1. Min(S) = 2
    BY SMT, <1>2, <1>4, <1>6
  <2>. QED
    BY SMT, <1>1, <1>3, <1>6, <2>1
<1>7. CASE t > 500000 /\ t <= 666667
  <2>1. Min(S) = 3
    BY SMT, <1>2, <1>4, <1>7
  <2>. QED
    BY SMT, <1>1, <1>3, <1>7, <2>1
<1>8. CASE t > 666667 /\ t <= 833333
  <2>1. Min(S) = 4
    BY SMT, <1>2, <1>4, <1>8
  <2>. QED
    BY SMT, <1>1, <1>3, <1>8, <2>1
<1>9. CASE t > 833333 /\ t <= 1500000
  <2>1. Min(S) = 5
    BY SMT, <1>2, <1>4, <1>9
  <2>. QED
    BY SMT, <1>1, <1>3, <1>9, <2>1
<1>10. CASE t > 1500000
  <2>1. Min(S) = 6
    BY SMT, <1>2, <1>4, <1>10
  <2>. QED
    BY SMT, <1>1, <1>3, <1>10, <2>1
<1>. QED
  BY SMT, <1>5, <1>6, <1>7, <1>8, <1>9, <1>10

\* Tax by the row of the table is the progressive tax, up to the centimes the
\* deductions of the table leave out.
LEMMA TableIsProgressive ==
    ASSUME NEW t \in 0..Infinity
    PROVE  \E rate \in Nat, deduction \in Nat :
              /\ Matching(Rules, t).rate = rate
              /\ Matching(Rules, t).deduction = deduction
              /\ Progressive(t) \in Int
              /\ t * rate - deduction * 100 - Progressive(t) \in 0..32
<1>. DEFINE P == Progressive(t)
<1>1. ASSUME NEW rate \in Nat, NEW deduction \in Nat, NEW upper,
             Matching(Rules, t) = Bracket(upper, rate, deduction),
             P \in Int, t * rate - deduction * 100 - P \in 0..32
      PROVE  \E r \in Nat, d \in Nat :
                /\ Matching(Rules, t).rate = r
                /\ Matching(Rules, t).deduction = d
                /\ P \in Int
                /\ t * r - d * 100 - P \in 0..32
  <2>1. Matching(Rules, t).rate = rate /\ Matching(Rules, t).deduction = deduction
    BY SMT, <1>1 DEF Bracket
  <2>. QED
    BY SMT, <1>1, <2>1
<1>2. t \in Nat
  BY SMT
<1>3. P = (IF t >= 333333 THEN (t - 333333) * 10 ELSE 0)
            + (IF t >= 500000 THEN (t - 500000) * 10 ELSE 0)
            + (IF t >= 666667 THEN (t - 666667) * 10 ELSE 0)
            + (IF t >= 833333 THEN (t - 833333) * 4 ELSE 0)
            + (IF t >= 1500000 THEN (t - 1500000) * 3 ELSE 0)
  BY SMT, <1>2, SliceBySlice
<1>. HIDE DEF P
<1>4. CASE t <= 333333
  <2>1. P \in Int /\ t * 0 - 0 * 100 - P \in 0..32
    BY SMT, <1>2, <1>3, <1>4
  <2>2. Matching(Rules, t) = Bracket(333333, 0, 0)
    BY SMT, <1>4, RowOf
  <2>3. Matching(Rules, t).rate = 0 /\ Matching(Rules, t).deduction = 0
    BY SMT, <2>2 DEF Bracket
  <2>4. 0 \in Nat
    OBVIOUS
  <2>. QED
    BY Zenon, <2>1, <2>3, <2>4 DEF P
<1>5. CASE t > 333333 /\ t <= 500000
  <2>1. P \in Int /\ t * 10 - 33333 * 100 - P \in 0..32
    BY SMT, <1>2, <1>3, <1>5
  <2>. QED
    BY SMT, <1>1, <1>5, <2>1, RowOf DEF P
<1>6. CASE t > 500000 /\ t <= 666667
  <2>1. P \in Int /\ t * 20 - 83333 * 100 - P \in 0..32
    BY SMT, <1>2, <1>3, <1>6
  <2>. QED
    BY SMT, <1>1, <1>6, <2>1, RowOf DEF P
<1>7. CASE t > 666667 /\ t <= 833333
  <2>1. P \in Int /\ t * 30 - 150000 * 100 - P \in 0..32
    BY SMT, <1>2, <1>3, <1>7
  <2>. QED
    BY SMT, <1>1, <1>7, <2>1, RowOf DEF P
<1>8. CASE t > 833333 /\ t <= 1500000
  <2>1. P \in Int /\ t * 34 - 183333 * 100 - P \in 0..32
    BY SMT, <1>2, <1>3, <1>8
  <2>. QED
    BY SMT, <1>1, <1>8, <2>1, RowOf DEF P
<1>9. CASE t > 1500000
  <2>1. P \in Int /\ t * 37 - 228333 * 100 - P \in 0..32
    BY SMT, <1>2, <1>3, <1>9
  <2>. QED
    BY SMT, <1>1, <1>9, <2>1, RowOf DEF P
<1>. QED
  BY SMT, <1>4, <1>5, <1>6, <1>7, <1>8, <1>9 DEF P

\* The tax of an amount by its row of the table, in hundredths of a centime.
TableTax(t) == t * Matching(Rules, t).rate - Matching(Rules, t).deduction * 100

\* The deduction for m dependents, 50 DH for each.
Less(tax, m) == tax - 500000 * m

LEMMA TableTaxOf ==
    ASSUME NEW t \in 0..Infinity
    PROVE  /\ TableTax(t) \in Int
           /\ t <= 333333 => TableTax(t) = 0
           /\ t > 333333 /\ t <= 500000 => TableTax(t) = 10 * t - 3333300
           /\ t > 500000 /\ t <= 666667 => TableTax(t) = 20 * t - 8333300
           /\ t > 666667 /\ t <= 833333 => TableTax(t) = 30 * t - 15000000
           /\ t > 833333 /\ t <= 1500000 => TableTax(t) = 34 * t - 18333300
           /\ t > 1500000 => TableTax(t) = 37 * t - 22833300
<1>1. t \in Nat
  BY AmountRange
<1>2. ASSUME NEW rate \in Nat, NEW deduction \in Nat, NEW upper,
             Matching(Rules, t) = Bracket(upper, rate, deduction)
      PROVE  TableTax(t) = t * rate - deduction * 100
  <2>1. Matching(Rules, t).rate = rate /\ Matching(Rules, t).deduction = deduction
    BY SMT, <1>2 DEF Bracket
  <2>. QED
    BY SMT, <2>1 DEF TableTax
<1>3. CASE t <= 333333
  <2>1. TableTax(t) = t * 0 - 0 * 100
    BY SMT, <1>2, <1>3, RowOf
  <2>. QED
    BY SMT, <1>1, <1>3, <2>1
<1>4. CASE t > 333333 /\ t <= 500000
  <2>1. TableTax(t) = t * 10 - 33333 * 100
    BY SMT, <1>2, <1>4, RowOf
  <2>. QED
    BY SMT, <1>1, <1>4, <2>1
<1>5. CASE t > 500000 /\ t <= 666667
  <2>1. TableTax(t) = t * 20 - 83333 * 100
    BY SMT, <1>2, <1>5, RowOf
  <2>. QED
    BY SMT, <1>1, <1>5, <2>1
<1>6. CASE t > 666667 /\ t <= 833333
  <2>1. TableTax(t) = t * 30 - 150000 * 100
    BY SMT, <1>2, <1>6, RowOf
  <2>. QED
    BY SMT, <1>1, <1>6, <2>1
<1>7. CASE t > 833333 /\ t <= 1500000
  <2>1. TableTax(t) = t * 34 - 183333 * 100
    BY SMT, <1>2, <1>7, RowOf
  <2>. QED
    BY SMT, <1>1, <1>7, <2>1
<1>8. CASE t > 1500000
  <2>1. TableTax(t) = t * 37 - 228333 * 100
    BY SMT, <1>2, <1>8, RowOf
  <2>. QED
    BY SMT, <1>1, <1>8, <2>1
<1>. QED
  BY SMT, <1>1, <1>3, <1>4, <1>5, <1>6, <1>7, <1>8

\* A centime more is taxed more, or the tax of both is no half of a centime.
LEMMA TableStep ==
    ASSUME NEW t \in 0..Infinity, NEW u \in 0..Infinity, u = t + 1
    PROVE  /\ TableTax(t) \in Int /\ TableTax(u) \in Int
           /\ \/ TableTax(u) - TableTax(t) \in 1..69
              \/ TableTax(u) = TableTax(t) /\ TableTax(t) \in {0, 5000040}
<1>1. t \in Nat /\ u \in Nat
  BY SMT, AmountRange
<1>2. PICK x \in Int : x = TableTax(t)
  BY SMT, TableTaxOf
<1>3. PICK y \in Int : y = TableTax(u)
  BY SMT, TableTaxOf
<1>4. /\ t <= 333333 => x = 0
      /\ t > 333333 /\ t <= 500000 => x = 10 * t - 3333300
      /\ t > 500000 /\ t <= 666667 => x = 20 * t - 8333300
      /\ t > 666667 /\ t <= 833333 => x = 30 * t - 15000000
      /\ t > 833333 /\ t <= 1500000 => x = 34 * t - 18333300
      /\ t > 1500000 => x = 37 * t - 22833300
  BY SMT, <1>2, TableTaxOf
<1>5. /\ u <= 333333 => y = 0
      /\ u > 333333 /\ u <= 500000 => y = 10 * u - 3333300
      /\ u > 500000 /\ u <= 666667 => y = 20 * u - 8333300
      /\ u > 666667 /\ u <= 833333 => y = 30 * u - 15000000
      /\ u > 833333 /\ u <= 1500000 => y = 34 * u - 18333300
      /\ u > 1500000 => y = 37 * u - 22833300
  BY SMT, <1>3, TableTaxOf
<1>6. y - x \in 1..69 \/ (y = x /\ x \in {0, 5000040})
  BY SMT, <1>1, <1>4, <1>5
<1>. QED
  BY SMT, <1>2, <1>3, <1>6

\* The tax withheld on an amount is that of its row of the table, rounded, and
\* that is the progressive one up to the centimes the deductions leave out.
Taxed(t, n, tax) ==
    \E m \in Nat, r \in Int, y \in Int, z \in Int :
       /\ m = Min({n, 6})
       /\ tax = AtLeastZero(r)
       /\ y = Less(TableTax(t), m)
       /\ z = Less(Progressive(t), m)
       /\ 200 * r - 2 * y \in -100..100
       /\ y - z \in 0..32

LEMMA TaxOf ==
    ASSUME NEW t \in 0..Infinity, NEW n \in Nat, NEW tax \in StoreTax(t, n)
    PROVE  Taxed(t, n, tax)
<1>1. PICK m \in Nat : m = Min({n, 6})
  BY SMT, SmallerOf
<1>. DEFINE row == Matching(Rules, t)
            P == Progressive(t)
<1>2. PICK rate \in Nat, deduction \in Nat :
         /\ row.rate = rate /\ row.deduction = deduction
         /\ P \in Int
         /\ t * rate - deduction * 100 - P \in 0..32
  BY SMT, TableIsProgressive
<1>3. PICK x \in Int : x = t * rate
  BY SMT, AmountRange
<1>4. TableTax(t) = x - deduction * 100
  BY SMT, <1>2, <1>3 DEF TableTax
<1>5. PICK y \in Int : y = x - deduction * 100 - 500000 * m
  BY SMT
<1>6. t * row.rate - (row.deduction + 5000 * m) * 100 = y
  <2>1. (deduction + 5000 * m) * 100 = deduction * 100 + 500000 * m
    BY SMT
  <2>. QED
    BY SMT, <1>2, <1>3, <1>5, <2>1
<1>7. PICK r \in Rounded(y, 100) : tax = AtLeastZero(r)
  <2>1. \E r \in Rounded(t * row.rate - (row.deduction + 5000 * m) * 100, 100) : tax = AtLeastZero(r)
    BY SMT, <1>1 DEF StoreTax
  <2>. QED
    BY SMT, <1>6, <2>1
<1>8. r \in Int /\ 200 * r - 2 * y \in -100..100
  BY SMT, <1>7, RoundedOf
<1>9. PICK p \in Int : p = P
  BY Zenon, <1>2
<1>. HIDE DEF P, row
<1>10. PICK z \in Int : z = p - 500000 * m
  BY SMT
<1>11. y - z \in 0..32
  <2>1. x - deduction * 100 - p \in 0..32
    BY SMT, <1>2, <1>3, <1>9
  <2>. QED
    BY SMT, <1>5, <1>10, <2>1
<1>12. y = Less(TableTax(t), m)
  BY SMT, <1>4, <1>5 DEF Less
<1>13. z = Less(Progressive(t), m)
  BY SMT, <1>9, <1>10 DEF P, Less
<1>. QED
  BY Zenon, <1>1, <1>7, <1>8, <1>11, <1>12, <1>13 DEF Taxed

\* The tax is the progressive one to within a centime.
LEMMA ProgressiveTax ==
    ASSUME NEW t \in 0..Infinity, NEW n \in Nat, NEW tax \in StoreTax(t, n)
    PROVE  /\ tax \in Nat
           /\ t = 0 => tax = 0
           /\ Within(tax * 100, AtLeastZero(Less(Progressive(t), Min({n, 6}))), 100)
<1>1. PICK m \in Nat, r \in Int, y \in Int, z \in Int :
              /\ m = Min({n, 6})
              /\ tax = AtLeastZero(r)
              /\ y = Less(TableTax(t), m)
              /\ z = Less(Progressive(t), m)
              /\ 200 * r - 2 * y \in -100..100
              /\ y - z \in 0..32
  BY Zenon, TaxOf DEF Taxed
<1>2. tax = (IF r >= 0 THEN r ELSE 0) /\ AtLeastZero(z) = (IF z >= 0 THEN z ELSE 0)
  BY SMT, <1>1, NoLessThanZero
<1>3. tax \in Nat /\ tax * 100 - AtLeastZero(z) \in -100..100
  BY SMT, <1>1, <1>2
<1>4. ASSUME t = 0 PROVE tax = 0
  <2>1. TableTax(t) = 0
    <3>1. t \in Nat /\ t <= 333333
      BY SMT, <1>4
    <3>. QED
      BY SMT, <3>1, TableTaxOf
  <2>2. y = 0 - 500000 * m
    BY SMT, <1>1, <2>1 DEF Less
  <2>3. 200 * r - 2 * y <= 100
    BY SMT, <1>1
  <2>4. r <= 0
    BY SMT, <2>2, <2>3
  <2>5. r >= 0 => r = 0
    BY SMT, <2>4
  <2>. QED
    BY Zenon, <1>2, <2>5
<1>5. Within(tax * 100, AtLeastZero(z), 100)
  BY Zenon, <1>3 DEF Within
<1>. QED
  BY Zenon, <1>1, <1>3, <1>4, <1>5

\* Two taxes of one amount, and of two amounts a centime apart.
LEMMA TaxesClose ==
    ASSUME NEW n \in Nat, NEW t \in 0..Infinity, NEW u \in 0..Infinity,
           NEW i \in StoreTax(t, n), NEW j \in StoreTax(u, n)
    PROVE  /\ t = u => j - i \in -1..1
           /\ u = t + 1 => j - i \in 0..1
<1>0. Taxed(t, n, i) /\ Taxed(u, n, j)
  BY Zenon, TaxOf
<1>1. PICK m \in Nat, r \in Int, y \in Int, p \in Int :
              /\ m = Min({n, 6})
              /\ i = AtLeastZero(r)
              /\ y = Less(TableTax(t), m)
              /\ p = Less(Progressive(t), m)
              /\ 200 * r - 2 * y \in -100..100
              /\ y - p \in 0..32
  BY Zenon, <1>0 DEF Taxed
<1>2. PICK k \in Nat, s \in Int, z \in Int, q \in Int :
              /\ k = Min({n, 6})
              /\ j = AtLeastZero(s)
              /\ z = Less(TableTax(u), k)
              /\ q = Less(Progressive(u), k)
              /\ 200 * s - 2 * z \in -100..100
              /\ z - q \in 0..32
  BY Zenon, <1>0 DEF Taxed
<1>3. i = (IF r >= 0 THEN r ELSE 0) /\ j = (IF s >= 0 THEN s ELSE 0)
  BY SMT, <1>1, <1>2, NoLessThanZero
<1>4. ASSUME t = u PROVE j - i \in -1..1
  <2>1. y = z
    BY Zenon, <1>1, <1>2, <1>4
  <2>2. s - r \in -1..1
    BY SMT, <1>1, <1>2, <2>1
  <2>. QED
    BY SMT, <1>3, <2>2
<1>5. ASSUME u = t + 1 PROVE j - i \in 0..1
  <2>1. PICK x \in Int, w \in Int : x = TableTax(t) /\ w = TableTax(u)
    BY SMT, TableTaxOf
  <2>2. w - x \in 1..69 \/ (w = x /\ x \in {0, 5000040})
    BY SMT, <1>5, <2>1, TableStep
  <2>3. y = x - 500000 * m /\ z = w - 500000 * m
    BY SMT, <1>1, <1>2, <2>1 DEF Less
  <2>4. s - r \in 0..1
    BY SMT, <1>1, <1>2, <2>2, <2>3
  <2>. QED
    BY SMT, <1>3, <2>4
<1>. QED
  BY Zenon, <1>4, <1>5

\* Two roundings of one amount: they differ on half a unit only.
LEMMA TwoRoundings ==
    ASSUME NEW y \in Nat
    PROVE  /\ \A a, b \in Rounded(y, 10000) :
                 /\ a \in Nat /\ b \in Nat
                 /\ b = a \/ (b = a + 1 /\ 10000 * b = y + 5000)
                          \/ (a = b + 1 /\ 10000 * a = y + 5000)
           /\ \A a, b \in Rounded(y, 100) :
                 /\ a \in Nat /\ b \in Nat
                 /\ b = a \/ (b = a + 1 /\ 100 * b = y + 50)
                          \/ (a = b + 1 /\ 100 * a = y + 50)
<1>1. ASSUME NEW a \in Rounded(y, 10000), NEW b \in Rounded(y, 10000)
      PROVE  /\ a \in Nat /\ b \in Nat
             /\ b = a \/ (b = a + 1 /\ 10000 * b = y + 5000)
                      \/ (a = b + 1 /\ 10000 * a = y + 5000)
  <2>1. /\ a \in Int /\ 20000 * a - 2 * y \in -10000..10000
        /\ b \in Int /\ 20000 * b - 2 * y \in -10000..10000
    BY SMT, RoundedOf
  <2>2. /\ 10000 * a - y <= 5000 /\ y - 10000 * a <= 5000
        /\ 10000 * b - y <= 5000 /\ y - 10000 * b <= 5000
    BY SMT, <2>1
  <2>3. a \in Nat /\ b \in Nat
    BY SMT, <2>1, <2>2
  <2>4. b = a \/ b = a + 1 \/ a = b + 1
    BY SMT, <2>2, <2>3
  <2>. QED
    BY SMT, <2>2, <2>3, <2>4
<1>2. ASSUME NEW a \in Rounded(y, 100), NEW b \in Rounded(y, 100)
      PROVE  /\ a \in Nat /\ b \in Nat
             /\ b = a \/ (b = a + 1 /\ 100 * b = y + 50)
                      \/ (a = b + 1 /\ 100 * a = y + 50)
  <2>1. /\ a \in Int /\ 200 * a - 2 * y \in -100..100
        /\ b \in Int /\ 200 * b - 2 * y \in -100..100
    BY SMT, RoundedOf
  <2>. QED
    BY SMT, <2>1
<1>. QED
  BY SMT, <1>1, <1>2

\* The share of an amount, at each of the rates: which of them can end on half a
\* centime, so that two calculations may round it differently.
LEMMA TwoShares ==
    ASSUME NEW x \in Nat
    PROVE  /\ \A a, b \in Share(x, 448) : a \in Nat /\ b = a
           /\ \A a, b \in Share(x, 226) :
                 /\ a \in Nat
                 /\ b = a \/ (b = a + 1 /\ 5000 * b = 113 * x + 2500)
                          \/ (a = b + 1 /\ 5000 * a = 113 * x + 2500)
           /\ \A a, b \in Share(x, 898) :
                 /\ a \in Nat
                 /\ b = a \/ (b = a + 1 /\ 5000 * b = 449 * x + 2500)
                          \/ (a = b + 1 /\ 5000 * a = 449 * x + 2500)
           /\ \A a, b \in Share(x, 411) :
                 /\ a \in Nat
                 /\ b = a \/ (b = a + 1 /\ 10000 * b = 411 * x + 5000)
                          \/ (a = b + 1 /\ 10000 * a = 411 * x + 5000)
           /\ \A a, b \in Share(x, 640) : a \in Nat /\ b = a
           /\ \A a, b \in Share(x, 160) : a \in Nat /\ b = a
<1>1. ASSUME NEW a \in Share(x, 448), NEW b \in Share(x, 448)
      PROVE  a \in Nat /\ b = a
  <2>1. PICK y \in Nat : y = x * 448
    BY SMT
  <2>2. Share(x, 448) = Rounded(y, 10000)
    BY SMT, <2>1 DEF Share
  <2>3. /\ a \in Nat /\ b \in Nat
        /\ b = a \/ (b = a + 1 /\ 10000 * b = y + 5000)
                 \/ (a = b + 1 /\ 10000 * a = y + 5000)
    BY SMT, <2>2, TwoRoundings
  <2>. QED
    BY SMT, <2>1, <2>3
<1>2. ASSUME NEW a \in Share(x, 226), NEW b \in Share(x, 226)
      PROVE  /\ a \in Nat
             /\ b = a \/ (b = a + 1 /\ 5000 * b = 113 * x + 2500)
                      \/ (a = b + 1 /\ 5000 * a = 113 * x + 2500)
  <2>1. PICK y \in Nat : y = x * 226
    BY SMT
  <2>2. Share(x, 226) = Rounded(y, 10000)
    BY SMT, <2>1 DEF Share
  <2>3. /\ a \in Nat /\ b \in Nat
        /\ b = a \/ (b = a + 1 /\ 10000 * b = y + 5000)
                 \/ (a = b + 1 /\ 10000 * a = y + 5000)
    BY SMT, <2>2, TwoRoundings
  <2>. QED
    BY SMT, <2>1, <2>3
<1>3. ASSUME NEW a \in Share(x, 898), NEW b \in Share(x, 898)
      PROVE  /\ a \in Nat
             /\ b = a \/ (b = a + 1 /\ 5000 * b = 449 * x + 2500)
                      \/ (a = b + 1 /\ 5000 * a = 449 * x + 2500)
  <2>1. PICK y \in Nat : y = x * 898
    BY SMT
  <2>2. Share(x, 898) = Rounded(y, 10000)
    BY SMT, <2>1 DEF Share
  <2>3. /\ a \in Nat /\ b \in Nat
        /\ b = a \/ (b = a + 1 /\ 10000 * b = y + 5000)
                 \/ (a = b + 1 /\ 10000 * a = y + 5000)
    BY SMT, <2>2, TwoRoundings
  <2>. QED
    BY SMT, <2>1, <2>3
<1>4. ASSUME NEW a \in Share(x, 411), NEW b \in Share(x, 411)
      PROVE  /\ a \in Nat
             /\ b = a \/ (b = a + 1 /\ 10000 * b = 411 * x + 5000)
                      \/ (a = b + 1 /\ 10000 * a = 411 * x + 5000)
  <2>1. PICK y \in Nat : y = x * 411
    BY SMT
  <2>2. Share(x, 411) = Rounded(y, 10000)
    BY SMT, <2>1 DEF Share
  <2>3. /\ a \in Nat /\ b \in Nat
        /\ b = a \/ (b = a + 1 /\ 10000 * b = y + 5000)
                 \/ (a = b + 1 /\ 10000 * a = y + 5000)
    BY SMT, <2>2, TwoRoundings
  <2>. QED
    BY SMT, <2>1, <2>3
<1>5. ASSUME NEW a \in Share(x, 640), NEW b \in Share(x, 640)
      PROVE  a \in Nat /\ b = a
  <2>1. PICK y \in Nat : y = x * 640
    BY SMT
  <2>2. Share(x, 640) = Rounded(y, 10000)
    BY SMT, <2>1 DEF Share
  <2>3. /\ a \in Nat /\ b \in Nat
        /\ b = a \/ (b = a + 1 /\ 10000 * b = y + 5000)
                 \/ (a = b + 1 /\ 10000 * a = y + 5000)
    BY SMT, <2>2, TwoRoundings
  <2>. QED
    BY SMT, <2>1, <2>3
<1>6. ASSUME NEW a \in Share(x, 160), NEW b \in Share(x, 160)
      PROVE  a \in Nat /\ b = a
  <2>1. PICK y \in Nat : y = x * 160
    BY SMT
  <2>2. Share(x, 160) = Rounded(y, 10000)
    BY SMT, <2>1 DEF Share
  <2>3. /\ a \in Nat /\ b \in Nat
        /\ b = a \/ (b = a + 1 /\ 10000 * b = y + 5000)
                 \/ (a = b + 1 /\ 10000 * a = y + 5000)
    BY SMT, <2>2, TwoRoundings
  <2>. QED
    BY SMT, <2>1, <2>3
<1>. QED
  BY SMT, <1>1, <1>2, <1>3, <1>4, <1>5, <1>6

\* Two percentages of an amount, capped.
Capped(e) == Min({e, 250000})

LEMMA TwoExpenses ==
    ASSUME NEW x \in Nat, NEW rate \in {20, 35},
           NEW e \in Percent(x, rate), NEW f \in Percent(x, rate)
    PROVE  /\ Capped(e) \in Nat
           /\ Capped(f) - Capped(e) \in -1..1
           /\ Capped(f) # Capped(e) => \E k \in Nat : 20 * k = 7 * x + 10
<1>1. PICK y \in Nat : y = x * rate /\ (y = 20 * x \/ y = 35 * x)
  <2>1. CASE rate = 20
    BY SMT, <2>1
  <2>2. CASE rate = 35
    BY SMT, <2>2
  <2>. QED
    BY SMT, <2>1, <2>2
<1>2. Percent(x, rate) = Rounded(y, 100)
  BY SMT, <1>1 DEF Percent
<1>3. /\ e \in Nat /\ f \in Nat
      /\ f = e \/ (f = e + 1 /\ 100 * f = y + 50) \/ (e = f + 1 /\ 100 * e = y + 50)
  BY SMT, <1>2, TwoRoundings
<1>4. PICK a \in Nat : a = Capped(e) /\ a = IF e <= 250000 THEN e ELSE 250000
  BY SMT, <1>3, SmallerOf DEF Capped
<1>5. PICK b \in Nat : b = Capped(f) /\ b = IF f <= 250000 THEN f ELSE 250000
  BY SMT, <1>3, SmallerOf DEF Capped
<1>6. b - a \in -1..1 /\ (b # a => f # e)
  BY SMT, <1>3, <1>4, <1>5
<1>7. ASSUME NEW k \in Nat, 100 * k = y + 50 PROVE 20 * k = 7 * x + 10
  BY SMT, <1>1, <1>7
<1>8. f # e => \E k \in Nat : 20 * k = 7 * x + 10
  BY SMT, <1>3, <1>7
<1>. QED
  BY SMT, <1>4, <1>5, <1>6, <1>8

\* No amount leaves half a centime of both the AMO and the expenses.
LEMMA OneHalf ==
    ASSUME NEW x \in Nat, NEW a \in Nat, NEW e \in Nat,
           5000 * a = 113 * x + 2500, 20 * e = 7 * x + 10
    PROVE  FALSE
  BY SMT

\* Two ways to round the shares of a salary.
LEMMA SharesClose ==
    ASSUME NEW gross \in 0..Infinity, NEW s \in Shares(gross), NEW z \in Shares(gross)
    PROVE  /\ s.cnss \in Nat /\ s.amo \in Nat /\ s.expenses \in Nat /\ s.charges \in Nat
           /\ z.cnss = s.cnss
           /\ z.amo - s.amo \in -1..1
           /\ z.expenses - s.expenses \in -1..1
           /\ z.amo = s.amo \/ z.expenses = s.expenses
           /\ z.charges - s.charges \in -1..1
<1>1. gross \in Nat
  BY SMT, AmountRange
<1>2. PICK base \in Nat : base = Min({gross, 600000}) /\ (base = gross \/ base = 600000)
  BY SMT, <1>1, SmallerOf
<1>3. PICK rate \in {20, 35} : rate = IF gross * 12 <= 7800000 THEN 35 ELSE 20
  BY SMT
<1>. DEFINE Spent == {Capped(x) : x \in Percent(gross, rate)}
            Charged == {a + b + c + d : a \in Share(base, 898), b \in Share(gross, 411),
                                        c \in Share(gross, 640), d \in Share(gross, 160)}
<1>4. Shares(gross) = [cnss : Share(base, 448), amo : Share(gross, 226),
                       expenses : Spent, charges : Charged]
  BY SMT, <1>2, <1>3 DEF Shares, Capped
<1>5. /\ s.cnss \in Share(base, 448) /\ s.amo \in Share(gross, 226)
      /\ s.expenses \in Spent /\ s.charges \in Charged
      /\ z.cnss \in Share(base, 448) /\ z.amo \in Share(gross, 226)
      /\ z.expenses \in Spent /\ z.charges \in Charged
  <2>. HIDE DEF Spent, Charged
  <2>. QED
    BY SMT, <1>4
<1>6. s.cnss \in Nat /\ z.cnss = s.cnss
  BY SMT, <1>5, TwoShares
<1>7. PICK a \in Nat, b \in Nat : a = s.amo /\ b = z.amo
  BY SMT, <1>1, <1>5, TwoShares
<1>8. b = a \/ (b = a + 1 /\ 5000 * b = 113 * gross + 2500)
            \/ (a = b + 1 /\ 5000 * a = 113 * gross + 2500)
  BY SMT, <1>1, <1>5, <1>7, TwoShares
<1>9. /\ s.expenses \in Nat /\ z.expenses - s.expenses \in -1..1
      /\ z.expenses # s.expenses => \E e \in Nat : 20 * e = 7 * gross + 10
  <2>0. ASSUME NEW spent \in Spent
        PROVE  \E e \in Percent(gross, rate) : spent = Capped(e)
    BY Zenon
  <2>. HIDE DEF Spent, Charged
  <2>1. PICK e \in Percent(gross, rate) : s.expenses = Capped(e)
    BY Zenon, <1>5, <2>0
  <2>2. PICK f \in Percent(gross, rate) : z.expenses = Capped(f)
    BY Zenon, <1>5, <2>0
  <2>. QED
    <3>1. /\ Capped(e) \in Nat
          /\ Capped(f) - Capped(e) \in -1..1
          /\ Capped(f) # Capped(e) => \E k \in Nat : 20 * k = 7 * gross + 10
      BY SMT, <1>1, TwoExpenses
    <3>. QED
      BY SMT, <2>1, <2>2, <3>1
<1>10. b = a \/ z.expenses = s.expenses
  BY SMT, <1>1, <1>8, <1>9, OneHalf
<1>11. s.charges \in Nat /\ z.charges - s.charges \in -1..1
  <2>1. PICK a1 \in Share(base, 898), b1 \in Share(gross, 411),
             c1 \in Share(gross, 640), d1 \in Share(gross, 160) : s.charges = a1 + b1 + c1 + d1
    BY SMT, <1>5
  <2>2. PICK a2 \in Share(base, 898), b2 \in Share(gross, 411),
             c2 \in Share(gross, 640), d2 \in Share(gross, 160) : z.charges = a2 + b2 + c2 + d2
    BY SMT, <1>5
  <2>3. /\ c1 \in Nat /\ c2 = c1 /\ d1 \in Nat /\ d2 = d1
    BY SMT, <1>1, TwoShares
  <2>4. /\ a1 \in Nat /\ a2 \in Nat
        /\ a2 = a1 \/ (a2 = a1 + 1 /\ 5000 * a2 = 449 * base + 2500)
                   \/ (a1 = a2 + 1 /\ 5000 * a1 = 449 * base + 2500)
    BY SMT, TwoShares
  <2>5. /\ b1 \in Nat /\ b2 \in Nat
        /\ b2 = b1 \/ (b2 = b1 + 1 /\ 10000 * b2 = 411 * gross + 5000)
                   \/ (b1 = b2 + 1 /\ 10000 * b1 = 411 * gross + 5000)
    BY SMT, <1>1, TwoShares
  <2>6. a2 = a1 \/ b2 = b1
    <3>. SUFFICES ASSUME a2 # a1, b2 # b1 PROVE FALSE
      OBVIOUS
    <3>1. PICK p \in Nat : 5000 * p = 449 * base + 2500
      BY SMT, <2>4
    <3>2. PICK q \in Nat : 10000 * q = 411 * gross + 5000
      BY SMT, <2>5
    <3>3. CASE base = 600000
      BY SMT, <3>1, <3>3
    <3>4. CASE base = gross
      BY SMT, <1>1, <3>1, <3>2, <3>4
    <3>. QED
      BY <1>2, <3>3, <3>4
  <2>. QED
    BY SMT, <2>1, <2>2, <2>3, <2>4, <2>5, <2>6
<1>. QED
  BY SMT, <1>6, <1>7, <1>8, <1>9, <1>10, <1>11

\* A payslip from its shares, its taxable base and its tax.
TaxableOf(gross, s) == AtLeastZero(gross - s.cnss - s.amo - s.expenses)
PayslipOf(gross, s, t, ir) ==
    [cnss |-> s.cnss, amo |-> s.amo, taxable |-> t, ir |-> ir,
     net |-> gross - s.cnss - s.amo - ir, charges |-> s.charges]

IsPayslip(gross, n, p) ==
    \E s \in Shares(gross) : \E ir \in StoreTax(TaxableOf(gross, s), n) :
       p = PayslipOf(gross, s, TaxableOf(gross, s), ir)

LEMMA StorePayslipOf ==
    ASSUME NEW gross, NEW n, NEW p
    PROVE  p \in StorePayslips(gross, n) <=> IsPayslip(gross, n, p)
<1>. DEFINE Given(s) == {PayslipOf(gross, s, TaxableOf(gross, s), ir) :
                           ir \in StoreTax(TaxableOf(gross, s), n)}
<1>1. StorePayslips(gross, n) = UNION {Given(s) : s \in Shares(gross)}
  BY SMT DEF StorePayslips, TaxableOf, PayslipOf
<1>2. ASSUME NEW s
      PROVE  p \in Given(s) <=> \E ir \in StoreTax(TaxableOf(gross, s), n) :
                                   p = PayslipOf(gross, s, TaxableOf(gross, s), ir)
  BY Zenon
<1>. HIDE DEF Given
<1>3. p \in UNION {Given(s) : s \in Shares(gross)} <=> \E s \in Shares(gross) : p \in Given(s)
  BY Zenon
<1>. QED
  BY Zenon, <1>1, <1>2, <1>3 DEF IsPayslip

\* The taxable base is an amount.
LEMMA TaxableRange ==
    ASSUME NEW gross \in 0..Infinity, NEW s \in Shares(gross)
    PROVE  TaxableOf(gross, s) \in 0..Infinity
<1>1. PICK c \in Nat, a \in Nat, e \in Nat : c = s.cnss /\ a = s.amo /\ e = s.expenses
  BY SMT, SharesClose
<1>2. PICK d \in Int : d = gross - c - a - e
  BY SMT, AmountRange
<1>3. TaxableOf(gross, s) = IF d >= 0 THEN d ELSE 0
  BY SMT, <1>1, <1>2, NoLessThanZero DEF TaxableOf
<1>. QED
  BY SMT, <1>2, <1>3, AmountRange

\* Without extras the service computes what the store may compute.
LEMMA ServiceAsStore ==
    ASSUME NEW gross \in 0..Infinity, NEW n \in Nat, NEW p \in ServicePayslips(gross, NoExtras, n)
    PROVE  p \in StorePayslips(gross, n)
<1>1. gross \in Nat
  BY SMT, AmountRange
<1>2. ServiceShares(gross) = Shares(gross)
  <2>1. 3000000 \div 12 = 250000
    BY SMT
  <2>. QED
    BY SMT, <2>1 DEF ServiceShares, Shares
<1>3. ASSUME NEW t \in 0..Infinity, NEW ir \in ServiceTax(t, n)
      PROVE  ir \in StoreTax(t, n)
  <2>1. PICK m \in Nat : m = Min({n, 6})
    BY SMT, SmallerOf
  <2>2. PICK rate \in Nat, deduction \in Nat :
           /\ Matching(Rules, t).rate = rate /\ Matching(Rules, t).deduction = deduction
    BY SMT, TableIsProgressive
  <2>3. IrBrackets = Rules
    BY SMT DEF IrBrackets, Rules
  <2>4. PICK y \in Int : y = t * rate
    BY SMT, AmountRange
  <2>5. PICK k \in Int : k = deduction + 5000 * m
    BY SMT
  <2>. DEFINE Left(tax) == AtLeastZero(tax - deduction - 5000 * m)
  <2>60. ServiceTax(t, n) = {Left(tax) : tax \in Rounded(y, 100)}
    <3>. DEFINE row == Matching(Rules, t)
    <3>1. Matching(IrBrackets, t) = row
      BY SMT, <2>3
    <3>. HIDE DEF row
    <3>2. ServiceTax(t, n) = {AtLeastZero(tax - row.deduction - 5000 * Min({n, 6})) :
                                tax \in Percent(t, row.rate)}
      BY SMT, <3>1 DEF ServiceTax
    <3>3. row.deduction = deduction /\ Percent(t, row.rate) = Rounded(y, 100)
      BY SMT, <2>2, <2>4 DEF Percent, row
    <3>. QED
      BY SMT, <2>1, <3>2, <3>3
  <2>. HIDE DEF Left
  <2>61. PICK r \in Rounded(y, 100) : ir = Left(r)
    BY Zenon, <2>60
  <2>6. ir = AtLeastZero(r - deduction - 5000 * m)
    BY SMT, <2>61 DEF Left
  <2>7. r \in Int
    BY SMT, RoundedOf
  <2>8. r - deduction - 5000 * m = r - k
    BY SMT, <2>5, <2>7
  <2>9. r - k \in Rounded(y - k * 100, 100)
    BY RoundedShift
  <2>10. StoreTax(t, n) = {AtLeastZero(tax) : tax \in Rounded(y - k * 100, 100)}
    BY SMT, <2>1, <2>2, <2>4, <2>5 DEF StoreTax
  <2>. QED
    BY SMT, <2>6, <2>8, <2>9, <2>10
<1>. DEFINE x == NoExtras
            exempt == SeniorityExemption(x.seniority, gross)
<1>4. /\ x.seniority = 0 /\ x.withheld = 0
      /\ gross + x.seniority + x.overtime + x.bonus + x.other = gross
      /\ gross + x.transport + x.other + x.overtime + x.seniority = gross
  BY SMT, <1>1 DEF NoExtras
<1>5. exempt = 0
  <2>1. PICK b \in Int : b = 600000 - Min({gross, 600000}) /\ b >= 0
    BY SMT, <1>1, SmallerOf
  <2>2. AtLeastZero(b) = b
    BY SMT, <2>1, NoLessThanZero
  <2>3. Min({0, b}) = 0
    BY SMT, <2>1, SmallerOf
  <2>. QED
    BY SMT, <1>4, <2>1, <2>2, <2>3 DEF SeniorityExemption
<1>. DEFINE Taxable(s) == AtLeastZero(gross - s.cnss - s.amo - s.expenses - exempt)
<1>. DEFINE Given(s, ir) == [cnss |-> s.cnss, amo |-> s.amo, taxable |-> Taxable(s), ir |-> ir,
                             net |-> gross - s.cnss - s.amo - ir - x.withheld,
                             charges |-> s.charges]
<1>. HIDE DEF x, exempt, Taxable, Given
<1>0. PICK s \in Shares(gross) : \E ir \in ServiceTax(Taxable(s), n) : p = Given(s, ir)
  <2>1. \E z \in Shares(gross) : \E tax \in ServiceTax(Taxable(z), n) : p = Given(z, tax)
    <3>. DEFINE taxed == gross + x.seniority + x.overtime + x.bonus + x.other
                paid == gross + x.transport + x.other + x.overtime + x.seniority
                free == SeniorityExemption(x.seniority, taxed)
                Base(z) == AtLeastZero(paid - z.cnss - z.amo - z.expenses - free)
                Slip(z, tax) == [cnss |-> z.cnss, amo |-> z.amo, taxable |-> Base(z), ir |-> tax,
                                 net |-> paid - z.cnss - z.amo - tax - x.withheld,
                                 charges |-> z.charges]
    <3>1. p \in ServicePayslips(gross, x, n)
      BY DEF x
    <3>2. p \in UNION {{Slip(z, tax) : tax \in ServiceTax(Base(z), n)} : z \in ServiceShares(taxed)}
      BY ONLY <3>1, Zenon DEF ServicePayslips
    <3>3. taxed = gross /\ paid = gross
      BY SMT, <1>4
    <3>. HIDE DEF taxed, paid
    <3>4. free = exempt
      BY SMT, <3>3 DEF exempt
    <3>. HIDE DEF free
    <3>5. \A z : Base(z) = Taxable(z)
      BY SMT, <3>3, <3>4 DEF Taxable
    <3>. HIDE DEF Base
    <3>6. \A z, tax : Slip(z, tax) = Given(z, tax)
      BY SMT, <3>3, <3>5 DEF Given
    <3>. HIDE DEF Slip
    <3>7. PICK z \in ServiceShares(taxed) : p \in {Slip(z, tax) : tax \in ServiceTax(Base(z), n)}
      BY Zenon, <3>2
    <3>8. PICK tax \in ServiceTax(Base(z), n) : p = Slip(z, tax)
      BY Zenon, <3>7
    <3>9. z \in Shares(gross)
      BY Zenon, <1>2, <3>3
    <3>10. Base(z) = Taxable(z) /\ Slip(z, tax) = Given(z, tax)
      BY Zenon, <3>5, <3>6
    <3>11. tax \in ServiceTax(Taxable(z), n) /\ p = Given(z, tax)
      BY Zenon, <3>8, <3>10
    <3>. QED
      BY Zenon, <3>9, <3>11
  <2>. QED
    BY Zenon, <2>1
<1>6. PICK ir \in ServiceTax(Taxable(s), n) : p = Given(s, ir)
  BY Zenon, <1>0
<1>7. PICK c \in Nat, a \in Nat, e \in Nat : c = s.cnss /\ a = s.amo /\ e = s.expenses
  BY SMT, SharesClose
<1>8. Taxable(s) = TaxableOf(gross, s)
  <2>1. gross - c - a - e - exempt = gross - c - a - e
    BY SMT, <1>1, <1>5, <1>7
  <2>. QED
    BY Zenon, <1>7, <2>1 DEF TaxableOf, Taxable
<1>9. ir \in StoreTax(TaxableOf(gross, s), n)
  BY Zenon, <1>3, <1>6, <1>8, TaxableRange
<1>10. ir \in Nat
  BY Zenon, <1>9, TaxableRange, ProgressiveTax
<1>11. gross - s.cnss - s.amo - ir - x.withheld = gross - s.cnss - s.amo - ir
  <2>1. gross - c - a - ir - 0 = gross - c - a - ir
    BY SMT, <1>1, <1>10
  <2>. QED
    BY SMT, <1>4, <1>7, <2>1
<1>12. p = PayslipOf(gross, s, TaxableOf(gross, s), ir)
  BY SMT, <1>6, <1>8, <1>11 DEF PayslipOf, Given
<1>. QED
  BY Zenon, <1>9, <1>12, StorePayslipOf DEF IsPayslip

\* The two calculations of any amount agree, and withhold the progressive tax.
LEMMA OnePayslip ==
    ASSUME NEW gross \in 0..Infinity, NEW n \in Nat
    PROVE  Agrees(gross, n)
<1>. SUFFICES ASSUME NEW p \in StorePayslips(gross, n), NEW q \in StorePayslips(gross, n)
              PROVE  /\ p.cnss = q.cnss
                     /\ Within(p.amo, q.amo, 1)
                     /\ Within(p.taxable, q.taxable, 1)
                     /\ Within(p.charges, q.charges, 1)
                     /\ Within(p.ir, q.ir, 1)
                     /\ Within(p.net, q.net, 1)
                     /\ Within(p.ir * 100,
                               AtLeastZero(Less(Progressive(p.taxable), Min({n, 6}))), 100)
  BY SMT, ServiceAsStore DEF Agrees, Less
<1>20. IsPayslip(gross, n, p) /\ IsPayslip(gross, n, q)
  BY Zenon, StorePayslipOf
<1>0. PICK s \in Shares(gross) : \E i \in StoreTax(TaxableOf(gross, s), n) :
         p = PayslipOf(gross, s, TaxableOf(gross, s), i)
  BY Zenon, <1>20 DEF IsPayslip
<1>1. PICK i \in StoreTax(TaxableOf(gross, s), n) :
         p = PayslipOf(gross, s, TaxableOf(gross, s), i)
  BY Zenon, <1>0
<1>00. PICK z \in Shares(gross) : \E j \in StoreTax(TaxableOf(gross, z), n) :
         q = PayslipOf(gross, z, TaxableOf(gross, z), j)
  BY Zenon, <1>20 DEF IsPayslip
<1>2. PICK j \in StoreTax(TaxableOf(gross, z), n) :
         q = PayslipOf(gross, z, TaxableOf(gross, z), j)
  BY Zenon, <1>00
<1>3. gross \in Nat
  BY SMT, AmountRange
<1>4. PICK c \in Nat, a \in Nat, b \in Nat, e \in Nat, f \in Nat, h \in Nat, k \in Nat :
         /\ c = s.cnss /\ c = z.cnss /\ a = s.amo /\ b = z.amo
         /\ e = s.expenses /\ f = z.expenses /\ h = s.charges /\ k = z.charges
  <2>1. /\ s.cnss \in Nat /\ s.amo \in Nat /\ s.expenses \in Nat /\ s.charges \in Nat
        /\ z.cnss = s.cnss
    BY Zenon, SharesClose
  <2>2. /\ z.amo \in Nat /\ z.expenses \in Nat /\ z.charges \in Nat
    BY Zenon, SharesClose
  <2>. QED
    BY Zenon, <2>1, <2>2
<1>5. b - a \in -1..1 /\ f - e \in -1..1 /\ (b = a \/ f = e) /\ k - h \in -1..1
  <2>1. /\ z.amo - s.amo \in -1..1 /\ z.expenses - s.expenses \in -1..1
        /\ z.amo = s.amo \/ z.expenses = s.expenses
        /\ z.charges - s.charges \in -1..1
    BY Zenon, SharesClose
  <2>. QED
    BY Zenon, <1>4, <2>1
<1>6. PICK t \in 0..Infinity : t = TaxableOf(gross, s)
  BY Zenon, TaxableRange
<1>7. PICK u \in 0..Infinity : u = TaxableOf(gross, z)
  BY Zenon, TaxableRange
<1>8. t \in Nat /\ u \in Nat
  BY SMT, AmountRange
<1>9. PICK d \in Int : d = gross - c - a - e
  BY SMT, <1>3
<1>10. PICK g \in Int : g = gross - c - b - f
  BY SMT, <1>3
<1>11. t = (IF d >= 0 THEN d ELSE 0) /\ u = (IF g >= 0 THEN g ELSE 0)
  <2>1. t = AtLeastZero(d) /\ u = AtLeastZero(g)
    BY Zenon, <1>4, <1>6, <1>7, <1>9, <1>10 DEF TaxableOf
  <2>. QED
    BY SMT, <2>1, NoLessThanZero
<1>12. i \in StoreTax(t, n) /\ j \in StoreTax(u, n)
  BY Zenon, <1>1, <1>2, <1>6, <1>7
<1>13. /\ i \in Nat /\ j \in Nat /\ (t = 0 => i = 0) /\ (u = 0 => j = 0)
  BY Zenon, <1>12, ProgressiveTax
<1>14. /\ t = u => j - i \in -1..1
       /\ u = t + 1 => j - i \in 0..1
       /\ t = u + 1 => i - j \in 0..1
  BY SMT, <1>12, TaxesClose
<1>15. u - t \in -1..1 /\ j - i \in -1..1
  <2>1. u - t \in -1..1
    BY SMT, <1>3, <1>5, <1>8, <1>9, <1>10, <1>11
  <2>. QED
    BY SMT, <1>8, <1>13, <1>14, <2>1
<1>16. (b - a) + (j - i) \in -1..1
  <2>1. CASE b = a
    BY SMT, <1>13, <1>15, <2>1
  <2>2. CASE b = a + 1
    <3>1. g = d - 1
      BY SMT, <1>5, <1>9, <1>10, <2>2
    <3>2. (t = 0 /\ u = 0) \/ t = u + 1
      BY SMT, <1>11, <3>1
    <3>. QED
      BY SMT, <1>13, <1>14, <2>2, <3>2
  <2>3. CASE a = b + 1
    <3>1. g = d + 1
      BY SMT, <1>5, <1>9, <1>10, <2>3
    <3>2. (t = 0 /\ u = 0) \/ u = t + 1
      BY SMT, <1>11, <3>1
    <3>. QED
      BY SMT, <1>13, <1>14, <2>3, <3>2
  <2>. QED
    BY SMT, <1>5, <2>1, <2>2, <2>3
<1>17. /\ p.cnss = c /\ p.amo = a /\ p.taxable = t /\ p.ir = i /\ p.charges = h
       /\ p.net = gross - c - a - i
       /\ q.cnss = c /\ q.amo = b /\ q.taxable = u /\ q.ir = j /\ q.charges = k
       /\ q.net = gross - c - b - j
  BY Zenon, <1>1, <1>2, <1>4, <1>6, <1>7 DEF PayslipOf
<1>18. /\ a - b \in -1..1 /\ t - u \in -1..1 /\ h - k \in -1..1 /\ i - j \in -1..1
       /\ (gross - c - a - i) - (gross - c - b - j) \in -1..1
  BY SMT, <1>3, <1>5, <1>8, <1>13, <1>15, <1>16
<1>19. Within(i * 100, AtLeastZero(Less(Progressive(t), Min({n, 6}))), 100)
  BY Zenon, <1>12, ProgressiveTax
<1>. QED
  BY Zenon, <1>17, <1>18, <1>19 DEF Within

LEMMA PayrollInvHolds == PayrollSpec => [](RunsInv /\ JournalInv /\ OthersOK /\ LeaveInv)
<1>1. PayrollInit => RunsInv /\ OthersOK
  BY InitInv, PayrollAssumption DEF PayrollInit, OthersOK, Balances
<1>2. PayrollInit => JournalInv
  BY DEF PayrollInit, JournalInv, PostedRunsInLedger
<1>3. PayrollInit => LeaveInv
  <2>. SUFFICES ASSUME PayrollInit, NEW e \in Employees
                PROVE  /\ Days(leaveRequests, e, "REQUESTED") <= balances[e].pending
                       /\ balances[e].taken + balances[e].pending <= AcquiredDays
    BY DEF LeaveInv
  <2>1. DOMAIN <<>> = {} /\ <<>> \in Seq(LeaveRequests)
    OBVIOUS
  <2>2. CountedOf(<<>>, e, "REQUESTED") \in [{} -> Int]
    BY <2>1, CountedType
  <2>3. Days(<<>>, e, "REQUESTED") = 0
    BY <2>2, SumEmpty DEF Days
  <2>. QED
    BY <2>3, PayrollAssumption DEF PayrollInit
<1>. QED
  BY <1>1, <1>2, <1>3, StepRuns, JournalSteps, StepOthers, LeaveSteps, PTL DEF PayrollSpec

\* The type of the staff, the runs and the leave (the fields of Employee,
\* PayrollRun, LeaveBalance and LeaveRequest in erp.types.ts).
THEOREM PayrollTypeCorrect == PayrollSpec => []PayrollTypeOK
<1>1. RunsInv /\ JournalInv /\ OthersOK => PayrollTypeOK
  BY DEF RunsInv, RunsOK, JournalInv, OthersOK, PayrollTypeOK
<1>. QED
  BY <1>1, PayrollInvHolds, PTL

\* A month never has two runs that are not cancelled, for any staff, any months
\* and any number of runs (createPayrollRun and the two reports that create one).
THEOREM OneLiveRunAlways == PayrollSpec => []OneLiveRun
<1>1. PayrollInit => RunsInv
  BY InitInv
<1>2. RunsInv /\ [PayrollNext]_payrollVars => RunsInv'
  BY StepRuns
<1>3. RunsInv => OneLiveRun
  BY DEF RunsInv
<1>. QED
  BY <1>1, <1>2, <1>3, PTL DEF PayrollSpec

\* What has been approved is what will be paid: no later request changes the
\* payslips of an approved run, or revives a posted or cancelled one.
THEOREM ApprovedStayApproved == PayrollSpec => ApprovedRunsFrozen
<1>1. PayrollInit => RunsInv
  BY InitInv
<1>2. RunsInv /\ [PayrollNext]_payrollVars => RunsInv'
  BY StepRuns
<1>3. RunsInv /\ [PayrollNext]_payrollVars => [FrozenStep]_payrollVars
  BY StepRuns
<1>4. ApprovedRunsFrozen <=> [][FrozenStep]_payrollVars
  BY DEF ApprovedRunsFrozen, FrozenStep
<1>. QED
  BY <1>1, <1>2, <1>3, <1>4, PTL DEF PayrollSpec

\* A posted run is in the ledger with the total of the payslips that can be
\* printed from it, and entries and posted runs of a month come one for one
\* (postPayrollRun, cancelPayrollRun, calculatePayrollRun).
THEOREM LedgerAlwaysFollows == PayrollSpec => LedgerFollowsRuns
<1>1. RunsInv /\ JournalInv => PostedRunsInLedger
  BY DEF JournalInv
<1>2. RunsInv /\ JournalInv /\ [PayrollNext]_payrollVars => [TogetherStep]_payrollVars
  BY JournalSteps
<1>. QED
  BY <1>1, <1>2, PayrollInvHolds, PTL DEF PayrollSpec, LedgerFollowsRuns, TogetherStep, Standing

\* Requests made together never take more than an employee has acquired, because
\* the days of every undecided request are pending (createLeaveRequest,
\* approveLeaveRequest, rejectLeaveRequest).
THEOREM LeaveStaysWithinBalance == PayrollSpec => []LeaveWithinBalance
<1>1. LeaveInv => LeaveWithinBalance
  BY DEF LeaveInv, LeaveWithinBalance
<1>. QED
  BY <1>1, PayrollInvHolds, PTL

\* The two counters of a leave balance move with the requests they count.
THEOREM BalancesAlwaysFollow == PayrollSpec => BalancesFollowRequests
<1>1. OthersOK /\ LeaveInv /\ [PayrollNext]_payrollVars
        => [leaveRequests' # <<>> =>
              \A e \in Employees :
                 /\ (balances[e].pending - DaysOf(e, "REQUESTED"))'
                       = balances[e].pending - DaysOf(e, "REQUESTED")
                 /\ (balances[e].taken - DaysOf(e, "APPROVED"))'
                       = balances[e].taken - DaysOf(e, "APPROVED")]_payrollVars
  <2>. SUFFICES ASSUME OthersOK, LeaveInv, [PayrollNext]_payrollVars,
                       leaveRequests' # <<>>, NEW e \in Employees
                PROVE  /\ balances'[e].pending - DaysOf(e, "REQUESTED")'
                             = balances[e].pending - DaysOf(e, "REQUESTED")
                       /\ balances'[e].taken - DaysOf(e, "APPROVED")'
                             = balances[e].taken - DaysOf(e, "APPROVED")
    OBVIOUS
  <2>1. leaveRequests \in Seq(LeaveRequests) /\ leaveRequests' \in Seq(LeaveRequests)
    BY StepOthers DEF OthersOK
  <2>2. \A status : /\ DaysOf(e, status) = Days(leaveRequests, e, status)
                    /\ DaysOf(e, status)' = Days(leaveRequests', e, status)
    BY <2>1, DaysSum DEF DaysOf
  <2>3. FollowStep
    BY LeaveSteps
  <2>. QED
    BY <2>2, <2>3 DEF FollowStep
<1>. QED
  BY <1>1, PayrollInvHolds, PTL DEF PayrollSpec, BalancesFollowRequests

\* Whatever the salaries of its day were, a run pays what the simulation computes
\* for the same salary: the two payslips of any amount agree to within a centime,
\* however each of them rounds a half, and withhold the progressive tax
\* (calculateEmployeePayslip, PayrollService.generatePayslip).
THEOREM PayslipsAlwaysAgree == PayrollSpec => []PayslipsAgree
<1>1. Salaries \subseteq Undisputed
  <2>. SUFFICES ASSUME NEW s \in Salaries, NEW gross \in Amounts[s], NEW n \in Dependents
                PROVE  Agrees(gross, n)
    BY DEF Undisputed
  <2>1. gross \in 0..Infinity
    BY Zenon, PayrollAssumption DEF Salaries
  <2>2. n \in Nat
    BY Zenon, PayslipAssumption
  <2>. QED
    BY Zenon, <2>1, <2>2, OnePayslip
<1>2. RunsInv => PayslipsAgree
  <2>. SUFFICES ASSUME RunsInv, NEW i \in DOMAIN runs, NEW e \in DOMAIN runs[i].payslips
                PROVE  runs[i].payslips[e] \in Salaries
    BY <1>1 DEF PayslipsAgree
  <2>1. runs \in Seq(Runs)
    BY DEF RunsInv, RunsOK
  <2>2. runs[i] \in Runs
    BY <2>1
  <2>3. runs[i].payslips \in Payslips
    BY <2>2 DEF Runs
  <2>. QED
    BY <2>3 DEF Payslips
<1>. QED
  BY <1>2, PayrollInvHolds, PTL
=============================================================================
