------------------------------- MODULE Payroll -------------------------------
(***************************************************************************)
(* The payroll runs of one tenant, month by month, and the leave of its    *)
(* employees for one year.                                                 *)
(*                                                                         *)
(* A payslip is abstracted to the salary it was computed from: its other   *)
(* amounts are functions of that salary.  An employee who has not been     *)
(* hired yet is an inactive one.  The remaining days of a leave balance    *)
(* are derived: every handler recomputes them with the fields they are     *)
(* computed from.                                                          *)
(*                                                                         *)
(* Left out: the tenant's own CNSS number and the date of the rule pack    *)
(* (they refuse a run like a missing identifier does), export archives.    *)
(***************************************************************************)
EXTENDS Integers, Sequences, FiniteSetsExt, Payslip

CONSTANTS Employees,
          Periods,       \* months a run may be created for
          ScalePeriod,   \* the month of the scale controls, "2026-05" in the code
          MaxSalary,     \* bound on salaries
          Amounts,       \* the monthly amounts a salary stands for, in centimes
          AcquiredDays,  \* leave an employee acquires in a year, 18 in the code
          MaxRuns,       \* bounds on the number of runs, entries and requests
          MaxEntries,
          MaxRequests

ASSUME PayrollAssumption ==
    /\ IsFiniteSet(Employees)
    /\ ScalePeriod \in Periods
    /\ Amounts \in [0..MaxSalary -> SUBSET (0..Infinity)]
    /\ {MaxSalary, AcquiredDays, MaxRuns, MaxEntries, MaxRequests} \subseteq Nat

VARIABLES active,         \* the employees with employee.active
          identified,     \* the employees with a CNSS number
          salary,         \* employee.baseSalary
          runs,           \* workspace.payrollRuns
          journal,        \* the entries of workspace.journalEntries whose source is a run
          locked,         \* the months whose fiscal period is LOCKED or CLOSED
          balances,       \* workspace.leaveBalances
          leaveRequests   \* workspace.leaveRequests

staffVars == <<active, identified, salary>>
runVars == <<runs, journal>>
leaveVars == <<balances, leaveRequests>>
payrollVars == <<staffVars, runVars, locked, leaveVars>>

Salaries == 0..MaxSalary
RunStatus == {"DRAFT", "CALCULATED", "APPROVED", "POSTED", "CANCELLED"}
\* The payslips of a run, by employee.
Payslips == UNION {[staff -> Salaries] : staff \in SUBSET Employees}
Runs == [period : Periods, status : RunStatus, payslips : Payslips]
\* What the entry of a run posts is what its payslips add up to.
Entries == [period : Periods, total : Nat, void : BOOLEAN]
Balances == [taken : Nat, pending : Nat]
LeaveRequests == [employee : Employees, days : 1..AcquiredDays,
                  status : {"REQUESTED", "APPROVED", "REJECTED"}]

-----------------------------------------------------------------------------
NoPayslips == [e \in {} |-> 0]
Draft(p) == [period |-> p, status |-> "DRAFT", payslips |-> NoPayslips]

\* Payslips of everybody active, at today's salaries.
Calculated(run) ==
    [run EXCEPT !.status = "CALCULATED", !.payslips = [e \in active |-> salary[e]]]

PayslipTotal(run) == SumFunction(run.payslips)

RunsOf(p) == {i \in DOMAIN runs : runs[i].period = p}
\* A posted run is not counted.
LiveRunsMutant(p) == {i \in RunsOf(p) : runs[i].status \notin {"POSTED", "CANCELLED"}}
\* What createPayrollRun looks for before it creates a run.
LiveRuns(p) == {i \in RunsOf(p) : runs[i].status # "CANCELLED"}

\* validatePayrollRunCompliance, with the employees as they are today
Compliant(run) == run.payslips # NoPayslips /\ DOMAIN run.payslips \subseteq identified

CreatePayrollRun(p) ==
    /\ LiveRuns(p) = {}
    /\ Len(runs) < MaxRuns
    /\ runs' = Append(runs, Draft(p))
    /\ UNCHANGED <<staffVars, journal, locked, leaveVars>>

\* An approved run may be calculated again.
CalculableMutant(run) == run.status \in {"DRAFT", "CALCULATED", "APPROVED"}
Calculable(run) == run.status \in {"DRAFT", "CALCULATED"}

CalculatePayrollRun(i) ==
    /\ Calculable(runs[i])
    /\ runs' = [runs EXCEPT ![i] = Calculated(@)]
    /\ UNCHANGED <<staffVars, journal, locked, leaveVars>>

\* The scale controls make sure that the run of a fixed month is calculated.
MoroccoScaleControlsReadiness ==
    /\ LiveRuns(ScalePeriod) = {}
    /\ Len(runs) < MaxRuns
    /\ runs' = Append(runs, Calculated(Draft(ScalePeriod)))
    /\ UNCHANGED <<staffVars, journal, locked, leaveVars>>

\* The evidence of a month, or a preview of its entry, creates and calculates a
\* run when the month has none; a cancelled run counts as one here.  The evidence
\* of a draft is CalculatePayrollRun.
PayrollEvidencePack(p) ==
    /\ RunsOf(p) = {}
    /\ Len(runs) < MaxRuns
    /\ runs' = Append(runs, Calculated(Draft(p)))
    /\ UNCHANGED <<staffVars, journal, locked, leaveVars>>

\* A draft is calculated first, and stays calculated when it does not comply.
ApprovePayrollRun(i) ==
    LET run == IF runs[i].status = "DRAFT" THEN Calculated(runs[i]) ELSE runs[i] IN
    /\ run.status = "CALCULATED"
    /\ runs' = [runs EXCEPT ![i] = IF Compliant(run) THEN [run EXCEPT !.status = "APPROVED"]
                                                     ELSE run]
    /\ UNCHANGED <<staffVars, journal, locked, leaveVars>>

PostedTotal(run) == PayslipTotal(run)

Postable(run) == /\ run.status = "APPROVED"
                 /\ Compliant(run)
                 /\ PayslipTotal(run) > 0

PostPayrollRun(i) ==
    /\ Postable(runs[i])
    /\ runs[i].period \notin locked
    /\ Len(journal) < MaxEntries
    /\ journal' = Append(journal, [period |-> runs[i].period, total |-> PostedTotal(runs[i]),
                                   void |-> FALSE])
    /\ runs' = [runs EXCEPT ![i].status = "POSTED"]
    /\ UNCHANGED <<staffVars, locked, leaveVars>>

\* The entry of a run may be voided by hand, and the run stays POSTED.  The month
\* that has to be open is the one the entry was posted in, which may be any.
VoidJournalEntry(k) ==
    /\ ~journal[k].void
    /\ journal' = [journal EXCEPT ![k].void = TRUE]
    /\ UNCHANGED <<staffVars, runs, locked, leaveVars>>

CancellableMutant(run) == TRUE
\* The test of cancelPayrollRun and rejectPayrollRun
Cancellable(run) == run.status # "POSTED"

\* rejectPayrollRun leaves the run CANCELLED as well.
CancelPayrollRun(i) ==
    /\ Cancellable(runs[i])
    /\ runs' = [runs EXCEPT ![i].status = "CANCELLED"]
    /\ UNCHANGED <<staffVars, journal, locked, leaveVars>>

-----------------------------------------------------------------------------
\* Any of the three fields, by an edition, a contract, an amendment or archiving.
UpdateEmployee(e) ==
    /\ active' \in {active, active \cup {e}, active \ {e}}
    /\ identified' \in {identified, identified \cup {e}, identified \ {e}}
    /\ \E s \in Salaries : salary' = [salary EXCEPT ![e] = s]
    /\ UNCHANGED <<runVars, locked, leaveVars>>

UpsertFiscalPeriod(p) ==
    /\ locked' \in {locked \cup {p}, locked \ {p}}
    /\ UNCHANGED <<staffVars, runVars, leaveVars>>

\* Runs and requests are wiped; entries and balances stay.
ResetSampleModule ==
    /\ runs' = <<>>
    /\ leaveRequests' = <<>>
    /\ UNCHANGED <<staffVars, journal, locked, balances>>

-----------------------------------------------------------------------------
RemainingMutant(e) == AcquiredDays - balances[e].taken
\* leaveBalance.remainingDays
Remaining(e) == AcquiredDays - balances[e].taken - balances[e].pending

CreateLeaveRequest(e, days) ==
    /\ Len(leaveRequests) < MaxRequests
    /\ days <= Remaining(e)
    /\ balances' = [balances EXCEPT ![e].pending = @ + days]
    /\ leaveRequests' = Append(leaveRequests,
                               [employee |-> e, days |-> days, status |-> "REQUESTED"])
    /\ UNCHANGED <<staffVars, runVars, locked>>

\* A decision leaves the days pending.
UnpendMutant(balance, days) == balance
Unpend(balance, days) == [balance EXCEPT !.pending = Max({0, @ - days})]

ApproveLeaveRequest(i) ==
    LET request == leaveRequests[i]
        unpended == Unpend(balances[request.employee], request.days)
    IN
    /\ request.status = "REQUESTED"
    /\ balances' = [balances EXCEPT ![request.employee] =
                      [taken |-> unpended.taken + request.days, pending |-> unpended.pending]]
    /\ leaveRequests' = [leaveRequests EXCEPT ![i].status = "APPROVED"]
    /\ UNCHANGED <<staffVars, runVars, locked>>

RejectLeaveRequest(i) ==
    LET request == leaveRequests[i] IN
    /\ request.status = "REQUESTED"
    /\ balances' = [balances EXCEPT ![request.employee] = Unpend(@, request.days)]
    /\ leaveRequests' = [leaveRequests EXCEPT ![i].status = "REJECTED"]
    /\ UNCHANGED <<staffVars, runVars, locked>>

-----------------------------------------------------------------------------
PayrollInit ==
    /\ active \in SUBSET Employees
    /\ identified \in SUBSET Employees
    /\ salary \in [Employees -> Salaries]
    /\ runs = <<>>
    /\ journal = <<>>
    /\ locked = {}
    /\ balances = [e \in Employees |-> [taken |-> 0, pending |-> 0]]
    /\ leaveRequests = <<>>

PayrollNext ==
    \/ \E p \in Periods : \/ CreatePayrollRun(p)
                          \/ PayrollEvidencePack(p)
                          \/ UpsertFiscalPeriod(p)
    \/ MoroccoScaleControlsReadiness
    \/ \E i \in DOMAIN runs : \/ CalculatePayrollRun(i)
                              \/ ApprovePayrollRun(i)
                              \/ PostPayrollRun(i)
                              \/ CancelPayrollRun(i)
    \/ \E k \in DOMAIN journal : VoidJournalEntry(k)
    \/ \E e \in Employees : \/ UpdateEmployee(e)
                            \/ \E days \in 1..AcquiredDays : CreateLeaveRequest(e, days)
    \/ \E i \in DOMAIN leaveRequests : ApproveLeaveRequest(i) \/ RejectLeaveRequest(i)
    \/ ResetSampleModule

PayrollSpec == PayrollInit /\ [][PayrollNext]_payrollVars

-----------------------------------------------------------------------------
PayrollTypeOK ==
    /\ active \in SUBSET Employees
    /\ identified \in SUBSET Employees
    /\ salary \in [Employees -> Salaries]
    /\ runs \in Seq(Runs)
    /\ journal \in Seq(Entries)
    /\ locked \in SUBSET Periods
    /\ balances \in [Employees -> Balances]
    /\ leaveRequests \in Seq(LeaveRequests)

\* A month never has two runs that are not cancelled, whoever created them: the
\* screen, the evidence of the month or the scale controls.
OneLiveRun ==
    \A i, j \in DOMAIN runs :
       /\ runs[i].period = runs[j].period
       /\ "CANCELLED" \notin {runs[i].status, runs[j].status}
       => i = j

PostedRunsInLedger ==
    \A i \in DOMAIN runs :
       runs[i].status = "POSTED" =>
          \E k \in DOMAIN journal : /\ journal[k].period = runs[i].period
                                    /\ journal[k].total = PayslipTotal(runs[i])

PostedRuns(p) == {i \in RunsOf(p) : runs[i].status = "POSTED"}
EntriesOf(p) == {k \in DOMAIN journal : journal[k].period = p}
VoidedOf(p) == {k \in EntriesOf(p) : journal[k].void}

\* A posted run agrees with the ledger: there is an entry of its month with the
\* total of the payslips that can be printed from it today, though somebody may
\* have voided it.  And except when the runs are wiped, what a month has in the
\* books moves with its posted runs, one for one, but for the entries voided by
\* hand, each of which leaves its run without one: with OneLiveRun, a month is
\* paid at most once.
LedgerFollowsRuns ==
    /\ []PostedRunsInLedger
    /\ [][runs' # <<>> =>
           \A p \in Periods :
              Cardinality(EntriesOf(p) \ VoidedOf(p))' - Cardinality(PostedRuns(p))'
                 = Cardinality(EntriesOf(p) \ VoidedOf(p)) - Cardinality(PostedRuns(p))
                   - (IF \E k \in EntriesOf(p) : VoidJournalEntry(k) THEN 1 ELSE 0)]_payrollVars

\* What has been approved is what will be paid: from approval on the payslips of
\* a run no longer change, whatever happens to salaries and staff, and posted or
\* cancelled runs stay so.
ApprovedRunsFrozen ==
    [][\A i \in DOMAIN runs :
         runs[i].status \in {"APPROVED", "POSTED", "CANCELLED"} /\ runs' # <<>> =>
            /\ runs'[i].payslips = runs[i].payslips
            /\ \/ runs'[i].status = runs[i].status
               \/ runs[i].status = "APPROVED" /\ runs'[i].status \in {"POSTED", "CANCELLED"}]_payrollVars

\* The salaries on whose every amount the two calculations agree.
Undisputed == {s \in Salaries : \A gross \in Amounts[s], n \in Dependents : Agrees(gross, n)}

\* Whatever the salaries of its day were, a run pays every employee who has no
\* extras what the simulation and the Damancom file compute for the same
\* salary, to within the centime that a half may be rounded to either side, and
\* withholds the progressive income tax
\* (calculateEmployeePayslip, PayrollService.generatePayslip).
PayslipsAgree ==
    \A i \in DOMAIN runs : \A e \in DOMAIN runs[i].payslips :
       runs[i].payslips[e] \in Undisputed

\* Requests made together never take more than an employee has acquired.
LeaveWithinBalance ==
    \A e \in Employees : balances[e].taken + balances[e].pending <= AcquiredDays

DaysOf(e, status) ==
    SumFunction([i \in {i \in DOMAIN leaveRequests : /\ leaveRequests[i].employee = e
                                                     /\ leaveRequests[i].status = status}
                   |-> leaveRequests[i].days])

\* The two counters of a balance follow the requests they count, except that
\* wiping the requests leaves their days where they were.
BalancesFollowRequests ==
    [][leaveRequests' # <<>> =>
         \A e \in Employees :
            /\ (balances[e].pending - DaysOf(e, "REQUESTED"))'
                  = balances[e].pending - DaysOf(e, "REQUESTED")
            /\ (balances[e].taken - DaysOf(e, "APPROVED"))'
                  = balances[e].taken - DaysOf(e, "APPROVED")]_payrollVars
=============================================================================
