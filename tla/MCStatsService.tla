--------------------------- MODULE MCStatsService ---------------------------
(***************************************************************************)
(* An instance of StatsService for TLC: two agreements with one provider,  *)
(* two invoices for the first and one for the second.                      *)
(***************************************************************************)
EXTENDS StatsServiceProperties, TLC

CONSTANTS a1, a2, i1, i2, i3, t1, t2

AgreementOfInvoice == [i \in Invoices |-> IF i = i3 THEN a2 ELSE a1]
Amounts == [i \in Invoices |-> IF i = i1 THEN 1 ELSE IF i = i2 THEN 2 ELSE 4]
OneProvider == [a \in Agreements |-> "provider"]

(* No property tells one task from another.                                *)
TaskSymmetry == Permutations(Tasks)
=============================================================================
