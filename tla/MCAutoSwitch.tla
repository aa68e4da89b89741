----------------------------- MODULE MCAutoSwitch -----------------------------
(* An account with a weekly limit, whose windows reset soon after the start, and *)
(* one without, whose windows reset at another time.                             *)
EXTENDS AutoSwitch

CONSTANTS a, b

MCOffset == [x \in Accounts |-> IF x = a THEN 1 ELSE 0]
MCLength == [session |-> 3, weekly |-> 6]
=============================================================================
