------------------------------ MODULE MCSwitch ------------------------------
(* Switch on small instances: the configurations are Switch*.cfg.  The       *)
(* accounts are interchangeable, so safety is checked up to their renaming.  *)
EXTENDS SwitchCustody, TLC

AccountSymmetry == Permutations(Accounts)

\* Bound: what goes wrong in one behaviour, of all kinds together.
Mishaps == crashes + faults + outside <= 3

=============================================================================
