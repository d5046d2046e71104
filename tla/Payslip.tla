------------------------------- MODULE Payslip -------------------------------
(***************************************************************************)
(* The two calculations of a payslip: StorePayslips for the runs of the    *)
(* store (calculateEmployeePayslip), ServicePayslips for the simulation    *)
(* and the Damancom file (PayrollService.generatePayslip).  Each has its   *)
(* own copy of the rates, of the income tax table and of r2.               *)
(*                                                                         *)
(* Amounts are whole centimes.  The r2 of the store is Math.round on the   *)
(* product of an amount and a hundred, the one of the service toFixed, and *)
(* what they round is a floating-point product already: on exactly half a  *)
(* centime each goes up or down, and not always both the same way.  So a   *)
(* calculation is the set of the payslips it may give, and every rounding  *)
(* of every calculation chooses for itself.                                *)
(***************************************************************************)
EXTENDS Integers, Sequences, FiniteSetsExt

CONSTANT Dependents  \* numbers of dependents

ASSUME PayslipAssumption == Dependents \subseteq Nat

\* The whole numbers nearest to x / unit: two of them on a half.
Rounded(x, unit) ==
    {r \in {x \div unit, x \div unit + 1} : 2 * (r * unit - x) \in -unit..unit}
\* A rate is in ten thousandths, a percentage in hundredths.
Share(amount, rate) == Rounded(amount * rate, 10000)
Percent(amount, rate) == Rounded(amount * rate, 100)
AtLeastZero(x) == Max({0, x})

Infinity == 100000000
Bracket(upper, rate, deduction) == [upper |-> upper, rate |-> rate, deduction |-> deduction]
Matching(table, taxable) ==
    table[Min({i \in DOMAIN table : taxable <= table[i].upper})]

-----------------------------------------------------------------------------
\* irBrackets of the rule pack MA-2026
RulesMutant == <<Bracket(333333, 0, 0), Bracket(500000, 10, 33333), Bracket(666667, 20, 83333),
                 Bracket(833333, 30, 150000), Bracket(1500000, 34, 150000),
                 Bracket(Infinity, 37, 228333)>>
Rules == <<Bracket(333333, 0, 0), Bracket(500000, 10, 33333), Bracket(666667, 20, 83333),
           Bracket(833333, 30, 150000), Bracket(1500000, 34, 183333),
           Bracket(Infinity, 37, 228333)>>

\* What an employee is withheld, the expenses that are not taxed, and what the
\* employer pays on top.
Shares(gross) ==
    LET base == Min({gross, 600000}) IN
    [cnss : Share(base, 448),
     amo : Share(gross, 226),
     expenses : {Min({x, 250000}) :
                   x \in Percent(gross, IF gross * 12 <= 7800000 THEN 35 ELSE 20)},
     charges : {a + b + c + d : a \in Share(base, 898), b \in Share(gross, 411),
                                c \in Share(gross, 640), d \in Share(gross, 160)}]

\* The rate is applied, the deductions are taken, and the rest is rounded.
StoreTax(taxable, dependents) ==
    LET bracket == Matching(Rules, taxable) IN
    {AtLeastZero(tax) :
       tax \in Rounded(taxable * bracket.rate
                        - (bracket.deduction + 5000 * Min({dependents, 6})) * 100, 100)}

StorePayslips(gross, dependents) ==
    UNION {LET taxable == AtLeastZero(gross - s.cnss - s.amo - s.expenses) IN
           {[cnss |-> s.cnss, amo |-> s.amo, taxable |-> taxable, ir |-> ir,
             net |-> gross - s.cnss - s.amo - ir, charges |-> s.charges] :
              ir \in StoreTax(taxable, dependents)}
             : s \in Shares(gross)}

-----------------------------------------------------------------------------
\* IR_BRACKETS of the service
IrBrackets == <<Bracket(333333, 0, 0), Bracket(500000, 10, 33333), Bracket(666667, 20, 83333),
                Bracket(833333, 30, 150000), Bracket(1500000, 34, 183333),
                Bracket(Infinity, 37, 228333)>>

\* The elements of a salary besides the base; a transport allowance is paid and
\* not taxed.
NoExtras == [seniority |-> 0, overtime |-> 0, bonus |-> 0, other |-> 0, transport |-> 0,
             withheld |-> 0]

\* The shares as the service computes them, its cap on the expenses being a
\* twelfth of 30,000 DH.
ServiceShares(grossTaxable) ==
    LET base == Min({grossTaxable, 600000}) IN
    [cnss : Share(base, 448),
     amo : Share(grossTaxable, 226),
     expenses : {Min({x, 3000000 \div 12}) :
                   x \in Percent(grossTaxable, IF grossTaxable * 12 <= 7800000 THEN 35 ELSE 20)},
     charges : {a + b + c + d : a \in Share(base, 898), b \in Share(grossTaxable, 411),
                                c \in Share(grossTaxable, 640), d \in Share(grossTaxable, 160)}]

\* The rate is applied, the tax is rounded, and the deductions are taken from it.
ServiceTax(taxable, dependents) ==
    LET bracket == Matching(IrBrackets, taxable) IN
    {AtLeastZero(tax - bracket.deduction - 5000 * Min({dependents, 6})) :
       tax \in Percent(taxable, bracket.rate)}

\* The part of the seniority bonus that is not taxed
SeniorityExemption(bonus, grossTaxable) ==
    Min({bonus, AtLeastZero(600000 - Min({grossTaxable, 600000}))})

ServicePayslips(baseSalary, x, dependents) ==
    LET grossTaxable == baseSalary + x.seniority + x.overtime + x.bonus + x.other
        exempt == SeniorityExemption(x.seniority, grossTaxable)
        grossToPay == baseSalary + x.transport + x.other + x.overtime + x.seniority
    IN  UNION {LET taxable == AtLeastZero(grossToPay - s.cnss - s.amo - s.expenses - exempt) IN
               {[cnss |-> s.cnss, amo |-> s.amo, taxable |-> taxable, ir |-> ir,
                 net |-> grossToPay - s.cnss - s.amo - ir - x.withheld, charges |-> s.charges] :
                  ir \in ServiceTax(taxable, dependents)}
                 : s \in ServiceShares(grossTaxable)}

-----------------------------------------------------------------------------
\* Income tax slice by slice: what lies in a slice of the taxable base is taxed
\* at the rate of the slice.  In hundredths of a centime.
Slices == <<[from |-> 0, rate |-> 0], [from |-> 333333, rate |-> 10], [from |-> 500000, rate |-> 20],
            [from |-> 666667, rate |-> 30], [from |-> 833333, rate |-> 34],
            [from |-> 1500000, rate |-> 37]>>
RaiseOf(i) == Slices[i].rate - Slices[i - 1].rate
Progressive(taxable) ==
    SumFunction([i \in 2..6 |-> AtLeastZero(taxable - Slices[i].from) * RaiseOf(i)])

Within(a, b, margin) == a - b \in -margin..margin

\* However both round, no amount of a payslip without extras differs by more than
\* a centime between the two calculations, the contribution to the CNSS does not
\* differ at all, and the tax both read off a table is the progressive one, less
\* 50 DH for each of the first six dependents.
Agrees(gross, n) ==
    \A mine \in StorePayslips(gross, n), theirs \in ServicePayslips(gross, NoExtras, n) :
       LET due == AtLeastZero(Progressive(mine.taxable) - 500000 * Min({n, 6})) IN
       /\ mine.cnss = theirs.cnss
       /\ Within(mine.amo, theirs.amo, 1)
       /\ Within(mine.taxable, theirs.taxable, 1)
       /\ Within(mine.charges, theirs.charges, 1)
       /\ Within(mine.ir, theirs.ir, 1)
       /\ Within(mine.net, theirs.net, 1)
       /\ Within(mine.ir * 100, due, 100)
=============================================================================
