---------------------------- MODULE SwitchCustody ----------------------------
(* Switch implements Custody under Claude Code's locks: where each account's  *)
(* usable login is, read off the slot, the vault and what is under way.       *)
EXTENDS Switch

\* A login is usable where the service takes it: the same bytes after a session
\* renewed them are nobody's.
SignedIn == IF live \in usable THEN Account(live) ELSE Nobody

\* Answered and not saved: by a session over the login it sent, or by this run.
Hand == {a \in Accounts : Renewing(a) \/ run.fresh[a] \in usable}

Keeping == INSTANCE Custody WITH
  signedIn <- SignedIn, kept <- {a \in Accounts : Kept(a)}, hand <- Hand,
  enrolled <- index.enrolled, gone <- taken

\* Every step of a switch, a recovery, a renewal or a crash moves one account's
\* login one place on or none: no install over a login that is not kept, no copy
\* dropped whose account has no other, no answer lost but with who held it.
Custodied == Keeping!Spec

=============================================================================
