------------------------------- MODULE MCPayments -------------------------------
EXTENDS Payments, TLC

Symmetry == Permutations(Checkouts)
================================================================================
