------------------------------- MODULE MCAccounts -------------------------------
(* Accounts on a small instance: the calls are interchangeable.               *)
EXTENDS Accounts, TLC

CallSymmetry == Permutations(Calls)
================================================================================
