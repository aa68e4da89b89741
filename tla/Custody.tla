------------------------------ MODULE Custody -------------------------------
(***************************************************************************)
(* What the switch engine promises about the logins it is trusted with,    *)
(* with nothing of how: no files, names, journal, locks or order of writes.*)
(*                                                                         *)
(* An account's usable login is in one or more of three places: the tool's *)
(* slot, Pitboard's vault, or the hands of a program the service has just  *)
(* answered.  Every step moves one account's login one place on.  A login  *)
(* leaves a place only where another has one for that account; the one     *)
(* place a login may be lost from is somebody's hands, when they die or    *)
(* cannot write it down.                                                   *)
(***************************************************************************)
EXTENDS Naturals

CONSTANTS Accounts,   \* every account the tool can be signed in to
          Nobody      \* no account

VARIABLES
  signedIn,   \* whose usable login the tool's slot holds, or Nobody
  kept,       \* accounts Pitboard can still find a usable login of
  hand,       \* accounts whose new login the service gave and nobody has saved
  enrolled,   \* the accounts Pitboard answers for
  gone,       \* accounts that lost their login to somebody else
  outside     \* how often somebody else acted

vars == <<signedIn, kept, hand, enrolled, gone, outside>>

Has(a) == a = signedIn \/ a \in kept \/ a \in hand

Init ==
  /\ signedIn \in Accounts
  /\ kept \in SUBSET (Accounts \ {signedIn})
  /\ hand = {} /\ gone = {} /\ outside = 0
  /\ enrolled = kept \cup {signedIn}

\* The login signed in, or one just answered, is written to the vault; or one read
\* from the slot before somebody signed out.
Keep(a) ==
  /\ a = signedIn \/ a \in hand \/ a \in gone
  /\ kept' = kept \cup {a}
  /\ UNCHANGED <<signedIn, hand, enrolled, gone, outside>>

\* A login goes into the slot from the vault, over one that is kept as well, or
\* over none.
PutIn(a) ==
  /\ a \in kept \cup gone
  /\ signedIn \in kept \cup gone \cup {Nobody}
  /\ signedIn' = a
  /\ UNCHANGED <<kept, hand, enrolled, gone, outside>>

\* The slot is left half written, its login kept, and until it is written whole
\* nobody is signed in.
Empty ==
  /\ signedIn \in kept \cup gone
  /\ signedIn' = Nobody
  /\ UNCHANGED <<kept, hand, enrolled, gone, outside>>

\* Copies in the vault are let go of, of accounts whose login is elsewhere.
Sheds ==
  /\ kept' \in SUBSET kept
  /\ \A a \in kept \ kept' : a = signedIn \/ a \in hand' \/ a \in gone \/ a \notin enrolled

LetGo == Sheds /\ UNCHANGED <<signedIn, hand, enrolled, gone, outside>>

\* The service takes an account's login, wherever it is, and gives another.
Exchange(a) ==
  /\ Has(a) \/ a \in gone
  /\ \/ UNCHANGED signedIn
     \/ signedIn = a /\ signedIn' = Nobody
  /\ kept' \in {kept, kept \ {a}}
  /\ hand' = hand \cup {a}
  /\ UNCHANGED <<enrolled, gone, outside>>

\* A tool saves what it was answered where it keeps its login.  Somebody else may
\* hold another answer for the same account.
Save(a) ==
  /\ a \in hand
  /\ signedIn \in {Nobody, a}
  /\ signedIn' = a /\ hand' \in {hand, hand \ {a}}
  /\ UNCHANGED <<kept, enrolled, gone, outside>>

\* What was answered is in the vault and let go of, or is lost with its holder, who
\* may not know that another sign-in put the account in use meanwhile.
SetDown ==
  /\ hand' \in SUBSET hand /\ Sheds
  /\ gone' \ gone \subseteq hand \ hand' /\ gone \subseteq gone'
  /\ \A a \in hand \ hand' : a = signedIn \/ a \in kept \cup gone'
  /\ UNCHANGED <<signedIn, enrolled, outside>>

Forget(a) ==
  /\ a \in enrolled /\ enrolled' = enrolled \ {a}
  /\ kept' \in {kept, kept \ {a}}
  /\ UNCHANGED <<signedIn, hand, gone, outside>>

\* Somebody signs in, signs out, or ends a login at the service.  What becomes of
\* the account that was signed in, or ended, is theirs to answer for.
Elsewhere ==
  /\ outside' = outside + 1
  /\ \E a \in Accounts :
       /\ signedIn' \in {signedIn, Nobody, a}
       /\ kept' \in {kept, kept \ {a}} /\ hand' \in SUBSET hand
       /\ gone' \in SUBSET Accounts
       /\ gone' \ gone \subseteq {a, signedIn} \cup hand /\ gone \ gone' \subseteq {signedIn'}
  /\ \A a \in enrolled : Has(a) /\ ~Has(a)' => a \in gone'
  /\ UNCHANGED enrolled

Next ==
  \/ LetGo \/ SetDown \/ Empty \/ Elsewhere
  \/ \E a \in Accounts : Keep(a) \/ PutIn(a) \/ Exchange(a) \/ Save(a) \/ Forget(a)

Spec == Init /\ [][Next]_vars

-----------------------------------------------------------------------------
(* What follows from it. *)

\* An account Pitboard answers for has a usable login somewhere, unless somebody
\* else took it.
NoneLost == \A a \in enrolled : Has(a) \/ a \in gone

=============================================================================
