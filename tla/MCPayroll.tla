------------------------------ MODULE MCPayroll ------------------------------
(***************************************************************************)
(* Small instance of Payroll for TLC: one employee, one month and three    *)
(* salaries, none, low and high.  The amounts the two payslips are         *)
(* compared for are every 7.77 DH up to 20,000 DH a month, every centime   *)
(* around the amounts where a rule changes, and every 25 DH, where a rate  *)
(* leaves half a centime of the AMO and the two may round it differently.  *)
(***************************************************************************)
EXTENDS Payroll

Thresholds == {0, 333333, 500000, 600000, 650000, 1250000, 1500000}
Grosses == {777 * k : k \in 0..2574} \cup {2500 * k : k \in 0..800}
           \cup {g \in {t + d : t \in Thresholds, d \in -5..5} : g >= 0}
MCAmounts ==
    [s \in Salaries |-> CASE s = 0 -> {0}
                           [] s = 1 -> {g \in Grosses : g \in 1..650000}
                           [] OTHER -> {g \in Grosses : g > 650000}]
=============================================================================
