------------------------- MODULE SwitchCustodyProofs -------------------------
(***************************************************************************)
(* What TLAPS proves of Switch under Claude Code's locks, for any number   *)
(* of accounts, logins, names, crashes and failures (Reliable):            *)
(*   NothingIsLost           Spec => []NothingLost                         *)
(*   SwitchImplementsCustody Spec => Custodied                             *)
(*   SignedInIsNotRenewed    Spec => LiveNotRenewed                        *)
(*   SwitchLosesNone         Spec => []Keeping!NoneLost                    *)
(*                                                                         *)
(* All four rest on one inductive invariant, Guarded.  NothingLost itself *)
(* says where a login is now; what makes it last is what the run knows of  *)
(* the disk when it acts on it:                                            *)
(*   Basis    what SwitchProofs keeps: Inv, Found, Locked;                 *)
(*   Traced   every login held was issued, every name was reserved, and    *)
(*            what is listed to be deleted stays so in the run's mind;     *)
(*   Answers  an answer not recorded is nowhere but under a listed name;   *)
(*   Staged   what settling and a change have done by each of their steps; *)
(*   Secure   every account is Safe (the tool, its session or somebody     *)
(*            outside answers for its login) or has its login Stored, by   *)
(*            the index on disk and by the one the run may yet save, so    *)
(*            that a crash before, during or after the save finds it;      *)
(*   Slot     what the slot holds, against what the run read of it, what   *)
(*            is parked, and what the journal names.                       *)
(* Each action has a lemma ...Keeps; NextKeeps puts them together.         *)
(*                                                                         *)
(* The refinement reads Custody's places off Switch's (SwitchCustody) and  *)
(* takes each action to the one it is, or to a stutter: lemmas ...Keeping. *)
(* It needs one more invariant, Settled, for an account forgotten.         *)
(***************************************************************************)
EXTENDS SwitchCustody, SwitchProofs

\* Claude Code's locks; the journal can be removed, and the reads a settling run goes on
\* without do not fail.  Every other store, vault and file operation may fail, and the
\* run may be killed at every step.
Reliable == Locking /\ Failing \cap {"unlink", "twin", "item"} = {}

-----------------------------------------------------------------------------
(* What is where. *)

IndexKnown(ix, given, c) ==
  /\ \A a \in Accounts : ix.parked[a] # NoPark => a \in ix.enrolled
  /\ \A a \in Accounts : Known(ix.parked[a].login, given)
  /\ \A n \in ix.discarded : n[2] <= c

\* An answer nobody but the session that has it holds.
Unsaved(l) ==
  /\ \A n \in Names : vault[n] # l
  /\ \A a \in Accounts : index.parked[a].login # l /\ mem.parked[a].login # l /\ run.fresh[a] # l

SessionTraced ==
  sess # NoRenewal =>
    /\ sess.sent \in Logins \ usable /\ sess.fresh \in Logins
    /\ Account(sess.sent) = Account(sess.fresh)
    /\ Known(sess.sent, issued) /\ Known(sess.fresh, issued) /\ Unsaved(sess.fresh)

\* A journal's two names are its accounts', and the login it records going out is too.
JournalTraced(j, c) ==
  j # NoJournal =>
    /\ j.incoming[1] = j.to /\ j.incoming[2] <= c
    /\ j.park # NoName => j.fromLogin \in Logins /\ Account(j.fromLogin) = j.from

\* Every login held anywhere was issued and every name was reserved; what is listed to
\* be deleted and still there stays listed in the run's mind.
Traced ==
  /\ mem.enrolled = index.enrolled
  /\ IndexKnown(index, issued, clock) /\ IndexKnown(mem, issued, clock)
  /\ \A n \in Names : vault[n] # NoLogin => n[2] <= clock /\ Known(vault[n], issued)
  /\ Known(live, issued) /\ Known(run.seen, issued) /\ Known(run.before, issued)
  /\ \A a \in Accounts : Known(run.fresh[a], issued)
  /\ SessionTraced /\ JournalTraced(journal, clock)
  /\ \A n \in index.discarded : vault[n] # NoLogin => n \in mem.discarded

-----------------------------------------------------------------------------
(* How an index changes in a step. *)

\* No account is added, no park but of what is in the vault, and names are only
\* added to the list of what goes.
Follows(ix, iy, v, c) ==
  /\ iy.enrolled \subseteq ix.enrolled
  /\ \A a \in Accounts : iy.parked[a] # NoPark =>
       /\ a \in iy.enrolled
       /\ iy.parked[a] = ix.parked[a] \/ v[iy.parked[a].name] = iy.parked[a].login
  /\ ix.discarded \subseteq iy.discarded
  /\ \A n \in iy.discarded : n \in ix.discarded \/ n[2] <= c

\* What an index says of one account's logins is as it was.
Spares(ix, iy, a) ==
  /\ iy.parked[a] = ix.parked[a]
  /\ \A n \in Names : n[1] = a => (n \in iy.discarded <=> n \in ix.discarded)

\* An index follows from itself, and spares everybody.
LEMMA FollowsItself ==
  ASSUME NEW ix, NEW v, NEW c, Enrolls(ix)
  PROVE  Follows(ix, ix, v, c) /\ \A a \in Accounts : Spares(ix, ix, a)
BY DEF Follows, Spares, Enrolls

\* What follows from what follows, follows.
LEMMA FollowsOn ==
  ASSUME NEW ix, NEW iy, NEW iz, NEW v, NEW c, Follows(ix, iy, v, c), Follows(iy, iz, v, c)
  PROVE  Follows(ix, iz, v, c)
BY DEF Follows

\* What follows holds parks only of enrolled accounts.
LEMMA FollowsEnrolls ==
  ASSUME NEW ix, NEW iy, NEW v, NEW c, Follows(ix, iy, v, c)
  PROVE  Enrolls(iy)
BY DEF Follows, Enrolls

\* An item discarded changes what is said of its own account's logins only.
LEMMA DiscardFollows ==
  ASSUME NEW ix, NEW v, NEW c, NEW n \in Names, IndexTrue(ix, v, c), Enrolls(ix), n[2] <= c,
         NEW iy, iy = Discard(ix, n)
  PROVE  /\ Follows(ix, iy, v, c) /\ iy.enrolled = ix.enrolled
         /\ iy.discarded = ix.discarded \cup {n}
         /\ \A a \in Accounts : ix.parked[a].name = n => iy.parked[a] = NoPark
         /\ \A a \in Accounts : ix.parked[a].name # n => iy.parked[a] = ix.parked[a]
         /\ \A a \in Accounts : a # n[1] => Spares(ix, iy, a)
<1>1. /\ iy.enrolled = ix.enrolled /\ iy.discarded = ix.discarded \cup {n}
      /\ \A a \in Accounts : iy.parked[a] = IF ix.parked[a].name = n THEN NoPark ELSE ix.parked[a]
  BY DEF IndexTrue, Indexes, Discard, LetGo
<1>2. \A a \in Accounts : ix.parked[a] # NoPark => ix.parked[a].name[1] = a
  BY DEF IndexTrue, ParkOK
<1>3. \A a \in Accounts : a # n[1] => ix.parked[a].name # n
  BY <1>2, NobodyNamed DEF NoPark
<1>4. Follows(ix, iy, v, c)
  BY <1>1 DEF Follows, Enrolls
<1> QED BY <1>1, <1>3, <1>4 DEF Spares

\* So does a park recorded, of the item it names.
LEMMA ParkForFollows ==
  ASSUME NEW ix, NEW v, NEW c \in Nat, NEW a \in Accounts, NEW p, IndexTrue(ix, v, c), Enrolls(ix),
         ParkOK(a, p, v, c), v[p.name] = p.login,
         NEW iy, iy = ParkFor(ix, a, p)
  PROVE  /\ Follows(ix, iy, v, c) /\ iy.enrolled = ix.enrolled
         /\ a \notin ix.enrolled => iy = ix
         /\ a \in ix.enrolled => iy.parked[a] = p
         /\ a \in ix.enrolled /\ ix.parked[a].name \in {NoName, p.name}
              => iy.discarded = ix.discarded
         /\ a \in ix.enrolled /\ ix.parked[a].name \notin {NoName, p.name}
              => iy.discarded = ix.discarded \cup {ix.parked[a].name}
         /\ \A b \in Accounts : b # a => Spares(ix, iy, b)
<1> DEFINE with == [ix EXCEPT !.parked[a] = p]
<1> DEFINE old == ix.parked[a].name
<1>1. CASE a \notin ix.enrolled
  <2>1. iy = ix
    BY <1>1 DEF ParkFor
  <2>2. Follows(ix, ix, v, c) /\ \A b \in Accounts : Spares(ix, ix, b)
    BY FollowsItself
  <2> QED BY <1>1, <2>1, <2>2
<1>2. CASE a \in ix.enrolled
  <2>1. /\ with.enrolled = ix.enrolled /\ with.discarded = ix.discarded /\ with.parked[a] = p
        /\ \A b \in Accounts : b # a => with.parked[b] = ix.parked[b]
        /\ IndexTrue(with, v, c)
    BY DEF IndexTrue, Indexes, ParkOK
  <2>2. Enrolls(with) /\ Follows(ix, with, v, c) /\ \A b \in Accounts : b # a => Spares(ix, with, b)
    BY <1>2, <2>1 DEF Enrolls, Follows, Spares
  <2>3. iy = IF old \in {NoName, p.name} THEN with ELSE Discard(with, old)
    BY <1>2 DEF ParkFor
  <2> HIDE DEF with
  <2>4. CASE old \in {NoName, p.name}
    BY <1>2, <2>1, <2>2, <2>3, <2>4
  <2>5. CASE old \notin {NoName, p.name}
    <3>1. old \in Names /\ old[1] = a /\ old[2] <= c
      BY <2>5 DEF IndexTrue, Indexes, ParkOK, Parks, NoPark
    <3>2. iy = Discard(with, old)
      BY <2>3, <2>5
    <3> HIDE DEF old
    <3>3. /\ Follows(with, iy, v, c) /\ iy.enrolled = with.enrolled
          /\ iy.discarded = with.discarded \cup {old}
          /\ \A b \in Accounts : with.parked[b].name # old => iy.parked[b] = with.parked[b]
          /\ \A b \in Accounts : b # a => Spares(with, iy, b)
      BY <2>1, <2>2, <3>1, <3>2, DiscardFollows
    <3>4. iy.parked[a] = p
      BY <2>1, <2>5, <3>3 DEF ParkOK
    <3>5. \A b \in Accounts : b # a => Spares(ix, iy, b)
      BY <2>2, <3>3 DEF Spares
    <3>6. Follows(ix, iy, v, c)
      BY <2>2, <3>3, FollowsOn
    <3> QED BY <1>2, <2>1, <2>5, <3>3, <3>4, <3>5, <3>6 DEF old
  <2> QED BY <2>4, <2>5
<1> QED BY <1>1, <1>2

\* And a park replaced by another of its account's, its item listed for deletion.
LEMMA RenewedFollows ==
  ASSUME NEW ix, NEW v, NEW c \in Nat, NEW a \in Accounts, NEW p, IndexTrue(ix, v, c), Enrolls(ix),
         ParkOK(a, p, v, c), v[p.name] = p.login, ix.parked[a] # NoPark,
         NEW iy, iy = ParkFor(Discard(ix, ix.parked[a].name), a, p)
  PROVE  /\ Follows(ix, iy, v, c) /\ iy.enrolled = ix.enrolled
         /\ iy.parked[a] = p /\ iy.discarded = ix.discarded \cup {ix.parked[a].name}
         /\ \A b \in Accounts : b # a => Spares(ix, iy, b)
<1> DEFINE old == ix.parked[a].name
<1> DEFINE without == Discard(ix, old)
<1>1. old \in Names /\ old[1] = a /\ old[2] <= c /\ a \in ix.enrolled
  BY DEF IndexTrue, ParkOK, Parks, Enrolls
<1>0. iy = ParkFor(without, a, p)
  OBVIOUS
<1> HIDE DEF old
<1>3. IndexTrue(without, v, c) /\ without = Discard(ix, old)
  BY <1>1, DiscardFits
<1> HIDE DEF without
<1>2. /\ Follows(ix, without, v, c) /\ without.enrolled = ix.enrolled
      /\ without.discarded = ix.discarded \cup {old}
      /\ \A b \in Accounts : b # a => Spares(ix, without, b)
      /\ \A b \in Accounts : ix.parked[b].name = old => without.parked[b] = NoPark
  BY <1>1, <1>3, DiscardFollows
<1>4. Enrolls(without) /\ without.parked[a].name = NoName
  BY <1>2, FollowsEnrolls DEF old, NoPark
<1>5. /\ Follows(without, iy, v, c) /\ iy.enrolled = without.enrolled
      /\ iy.parked[a] = p /\ iy.discarded = without.discarded
      /\ \A b \in Accounts : b # a => Spares(without, iy, b)
  <2>1. /\ Follows(without, iy, v, c) /\ iy.enrolled = without.enrolled
        /\ a \in without.enrolled => iy.parked[a] = p
        /\ a \in without.enrolled /\ without.parked[a].name \in {NoName, p.name}
              => iy.discarded = without.discarded
        /\ \A b \in Accounts : b # a => Spares(without, iy, b)
    BY <1>0, <1>3, <1>4, ParkForFollows
  <2> QED BY <1>1, <1>2, <1>4, <2>1
<1>6. Follows(ix, iy, v, c) /\ \A b \in Accounts : b # a => Spares(ix, iy, b)
  BY <1>2, <1>5, FollowsOn DEF Spares
<1> QED BY <1>2, <1>5, <1>6 DEF old

\* So do the copies of a login let go of.
LEMMA DiscardAllFollows ==
  ASSUME NEW ix, NEW v, NEW c, NEW l, IndexTrue(ix, v, c), Enrolls(ix),
         NEW iy, iy = DiscardAll(ix, Twins(ix, l))
  PROVE  /\ Follows(ix, iy, v, c) /\ iy.enrolled = ix.enrolled
         /\ \A a \in Accounts : iy.parked[a] \in {ix.parked[a], NoPark}
         /\ \A a \in Accounts : l \in Logins => iy.parked[a].login # l
         /\ \A a \in Accounts : Spares(ix, iy, a) \/ (l \in Logins /\ a = Account(l))
<1> DEFINE ns == Twins(ix, l)
<1>0. iy = DiscardAll(ix, ns)
  OBVIOUS
<1>1. \A n \in ns : /\ n \in Names /\ l \in Logins /\ n[1] = Account(l) /\ n[2] <= c
                    /\ \E a \in Accounts : ix.parked[a] = [name |-> n, login |-> l]
  <2> SUFFICES ASSUME NEW n \in ns
               PROVE  /\ n \in Names /\ l \in Logins /\ n[1] = Account(l) /\ n[2] <= c
                      /\ \E a \in Accounts : ix.parked[a] = [name |-> n, login |-> l]
    OBVIOUS
  <2>1. PICK a \in Accounts : ix.parked[a] = [name |-> n, login |-> l] /\ n \in Names /\ l \in Logins
    BY DEF Twins
  <2>2. ix.parked[a] # NoPark
    BY <2>1, NobodyNamed DEF NoPark
  <2>3. ParkOK(a, ix.parked[a], v, c)
    BY <2>2 DEF IndexTrue
  <2> QED BY <2>1, <2>3 DEF ParkOK
<1>2. \A a \in Accounts : ix.parked[a].login = l /\ l \in Logins => ix.parked[a].name \in ns
  <2> SUFFICES ASSUME NEW a \in Accounts, ix.parked[a].login = l, l \in Logins
               PROVE  ix.parked[a].name \in ns
    OBVIOUS
  <2>1. ix.parked[a] # NoPark
    BY NobodyNamed DEF NoPark
  <2>2. ix.parked[a] \in Parks
    BY <2>1 DEF IndexTrue, ParkOK
  <2> QED BY <2>2 DEF Twins, Parks
<1> HIDE DEF ns
<1>3. /\ iy.enrolled = ix.enrolled /\ iy.discarded = ix.discarded \cup ns
      /\ \A a \in Accounts : iy.parked[a] = IF ix.parked[a].name \in ns THEN NoPark ELSE ix.parked[a]
  BY <1>0 DEF IndexTrue, Indexes, DiscardAll
<1>4. Follows(ix, iy, v, c)
  BY <1>1, <1>3 DEF Follows, Enrolls
<1>5. \A a \in Accounts : l \in Logins => iy.parked[a].login # l
  BY <1>2, <1>3, NobodyNamed DEF NoPark
<1>6. ASSUME NEW a \in Accounts, ~(l \in Logins /\ a = Account(l)) PROVE Spares(ix, iy, a)
  <2>1. \A n \in ns : n[1] # a /\ n \in Names
    BY <1>1, <1>6
  <2>2. ix.parked[a].name \notin ns
    <3>1. CASE ix.parked[a] = NoPark
      BY <3>1, <2>1, NobodyNamed DEF NoPark
    <3>2. CASE ix.parked[a] # NoPark
      BY <3>2, <2>1 DEF IndexTrue, ParkOK
    <3> QED BY <3>1, <3>2
  <2> QED BY <1>3, <2>1, <2>2 DEF Spares
<1> QED BY <1>3, <1>4, <1>5, <1>6

\* And an account forgotten.
LEMMA RemovedFollows ==
  ASSUME NEW ix, NEW v, NEW c, NEW a \in Accounts, IndexTrue(ix, v, c), Enrolls(ix),
         NEW iy, iy = Removed(ix, a)
  PROVE  /\ Follows(ix, iy, v, c) /\ iy.enrolled = ix.enrolled \ {a}
         /\ \A b \in Accounts : b # a => Spares(ix, iy, b)
<1> DEFINE without == [ix EXCEPT !.enrolled = @ \ {a}]
<1> DEFINE n == ix.parked[a].name
<1>1. /\ without.parked = ix.parked /\ without.discarded = ix.discarded
      /\ without.enrolled = ix.enrolled \ {a} /\ IndexTrue(without, v, c)
  BY DEF IndexTrue, Indexes
<1>2. CASE ix.parked[a] = NoPark
  <2>1. iy = without
    BY <1>2 DEF Removed
  <2> HIDE DEF without
  <2>2. Follows(ix, without, v, c) /\ \A b \in Accounts : b # a => Spares(ix, without, b)
    BY <1>1, <1>2 DEF Follows, Spares, Enrolls
  <2> QED BY <1>1, <2>1, <2>2
<1>3. CASE ix.parked[a] # NoPark
  <2>1. n \in Names /\ n[1] = a /\ n[2] <= c
    BY <1>3 DEF IndexTrue, ParkOK, Parks
  <2>2. iy = Discard(without, n)
    BY <1>3 DEF Removed
  <2>3. \A b \in Accounts : b # a => ix.parked[b].name # n
    BY <2>1, NobodyNamed DEF IndexTrue, ParkOK, NoPark
  <2> HIDE DEF without, n
  <2>4. /\ iy.enrolled = without.enrolled /\ iy.discarded = without.discarded \cup {n}
        /\ \A b \in Accounts : iy.parked[b] = IF without.parked[b].name = n THEN NoPark ELSE without.parked[b]
    BY <1>1, <2>2 DEF IndexTrue, Indexes, Discard, LetGo
  <2>5. ix.parked[a].name = n
    BY DEF n
  <2>6. Follows(ix, iy, v, c)
    BY <1>1, <2>1, <2>3, <2>4, <2>5 DEF Follows, Enrolls
  <2>7. \A b \in Accounts : b # a => Spares(ix, iy, b)
    BY <1>1, <2>1, <2>3, <2>4 DEF Spares
  <2> QED BY <1>1, <2>4, <2>6, <2>7
<1> QED BY <1>2, <1>3

\* The item parked for the account going out.
LEMMA JournalParks ==
  ASSUME VaultTrue, clock \in Nat, JournalTrue(journal, clock), journal # NoJournal,
         journal.park # NoName, vault[journal.park] # NoLogin
  PROVE  /\ journal.park \in Names /\ journal.park[1] = journal.from /\ journal.from \in Accounts
         /\ journal.park[2] <= clock
         /\ ParkOK(journal.from, [name |-> journal.park, login |-> vault[journal.park]], vault, clock)
BY NobodyNamed DEF JournalTrue, Journals, VaultTrue, ParkOK, Parks, Names

\* Finishing or undoing what a journal tells of lets go of nobody's login but that of
\* the account found signed in, and of the account going out where its park is not
\* recorded.
LEMMA RepairedFollows ==
  ASSUME NEW ix, NEW l \in Logins \cup {NoLogin}, IndexTrue(ix, vault, clock), Enrolls(ix),
         VaultTrue, clock \in Nat,
         JournalTrue(journal, clock), journal # NoJournal, JournalTraced(journal, clock),
         journal.park # NoName => l \in Logins,
         NEW iy, iy = Repaired(ix, journal, OwnerOf(journal, l), l)
  PROVE  /\ Follows(ix, iy, vault, clock) /\ iy.enrolled = ix.enrolled
         /\ \A a \in Accounts :
              \/ Spares(ix, iy, a)
              \/ l \in Logins /\ a = Account(l)
              \/ /\ journal.park # NoName /\ a = journal.from
                 /\ ix.parked[a].name # journal.park
<1> DEFINE owner == OwnerOf(journal, l)
<1> DEFINE parked == IF Replaces(journal) THEN NoLogin ELSE vault[journal.park]
<1> DEFINE offered == [name |-> journal.park, login |-> parked]
<1> DEFINE first == IF parked = NoLogin THEN ix
                    ELSE IF owner = journal.from THEN Discard(ix, journal.park)
                    ELSE IF References(ix, journal.park) THEN ix
                    ELSE IF journal.from \in ix.enrolled
                         THEN ParkFor(ix, journal.from, offered)
                    ELSE Discard(ix, journal.park)
<1> DEFINE second == [first EXCEPT !.inUse = [owner |-> journal.to, login |-> l]]
<1> DEFINE third == [first EXCEPT !.inUse = [owner |-> Nobody, login |-> NoLogin]]
<1> DEFINE Allowed(iz) == \A a \in Accounts :
                            \/ Spares(ix, iz, a)
                            \/ l \in Logins /\ a = Account(l)
                            \/ /\ journal.park # NoName /\ a = journal.from
                               /\ ix.parked[a].name # journal.park
<1>0. iy = IF owner # journal.to THEN first
           ELSE IF journal.to \in ix.enrolled THEN Discard(second, journal.incoming)
           ELSE third
  BY DEF Repaired
<1>1. parked # NoLogin => journal.park # NoName /\ parked = vault[journal.park]
  BY DEF Replaces
<1> HIDE DEF parked
<1>2. parked # NoLogin =>
        /\ journal.park \in Names /\ journal.park[1] = journal.from /\ journal.from \in Accounts
        /\ journal.park[2] <= clock
        /\ ParkOK(journal.from, offered, vault, clock) /\ vault[offered.name] = offered.login
  BY <1>1, JournalParks
<1>3. parked # NoLogin /\ owner = journal.from => l \in Logins /\ Account(l) = journal.from
  <2> SUFFICES ASSUME parked # NoLogin, owner = journal.from
               PROVE  l \in Logins /\ Account(l) = journal.from
    OBVIOUS
  <2>1. journal.park # NoName /\ journal.from # journal.to
    BY <1>1 DEF JournalTrue
  <2>2. l \in Logins /\ journal.fromLogin \in Logins /\ Account(journal.fromLogin) = journal.from
    BY <2>1 DEF JournalTraced
  <2> QED BY <2>1, <2>2, NobodyNamed DEF OwnerOf
<1>4. owner = journal.to => l \in Logins /\ Account(l) = journal.to
  BY NobodyAssumption DEF OwnerOf, JournalTrue, Account, NoLogin, Logins
<1>5. /\ Follows(ix, first, vault, clock) /\ first.enrolled = ix.enrolled /\ Allowed(first)
      /\ IndexTrue(first, vault, clock)
  <2>1. CASE first = ix
    BY <2>1, FollowsItself
  <2>2. CASE /\ parked # NoLogin /\ first = Discard(ix, journal.park)
             /\ owner = journal.from \/ ~References(ix, journal.park)
    <3> HIDE DEF first, owner
    <3>1. journal.park \in Names /\ journal.park[2] <= clock /\ first = Discard(ix, journal.park)
      BY <1>2, <2>2
    <3>2. IndexTrue(first, vault, clock)
      BY <3>1, DiscardFits
    <3>3. /\ Follows(ix, first, vault, clock) /\ first.enrolled = ix.enrolled
          /\ \A a \in Accounts : a # journal.park[1] => Spares(ix, first, a)
      BY <3>1, DiscardFollows
    <3>4. ~References(ix, journal.park) => \A a \in Accounts : ix.parked[a].name # journal.park
      BY DEF References
    <3> QED BY <1>1, <1>2, <1>3, <2>2, <3>2, <3>3, <3>4
  <2>3. CASE /\ parked # NoLogin /\ first = ParkFor(ix, journal.from, offered)
             /\ ~References(ix, journal.park)
    <3> HIDE DEF first, owner, offered
    <3>0. /\ first = ParkFor(ix, journal.from, offered) /\ journal.from \in Accounts
          /\ ParkOK(journal.from, offered, vault, clock) /\ vault[offered.name] = offered.login
      BY <1>2, <2>3
    <3>1. IndexTrue(first, vault, clock)
      BY <3>0, ParkForFits
    <3>2. /\ Follows(ix, first, vault, clock) /\ first.enrolled = ix.enrolled
          /\ \A a \in Accounts : a # journal.from => Spares(ix, first, a)
      BY <3>0, ParkForFollows
    <3>3. \A a \in Accounts : ix.parked[a].name # journal.park
      BY <2>3 DEF References
    <3> QED BY <1>1, <1>2, <2>3, <3>1, <3>2, <3>3
  <2> QED BY <2>1, <2>2, <2>3
<1> HIDE DEF first, owner
<1>6. CASE owner # journal.to
  BY <1>0, <1>5, <1>6
<1>7. CASE owner = journal.to
  <2>1. /\ third.enrolled = first.enrolled /\ third.parked = first.parked
        /\ third.discarded = first.discarded
        /\ second.enrolled = first.enrolled /\ second.parked = first.parked
        /\ second.discarded = first.discarded
    BY <1>5 DEF IndexTrue, Indexes
  <2>2. IndexTrue(second, vault, clock)
    BY <1>4, <1>5, <1>7 DEF IndexTrue, Indexes, JournalTrue
  <2>3. iy = Discard(second, journal.incoming) \/ iy = third
    BY <1>0, <1>7
  <2> HIDE DEF second, third
  <2>4. /\ Follows(ix, second, vault, clock) /\ Allowed(second) /\ Enrolls(second)
        /\ Follows(ix, third, vault, clock) /\ Allowed(third)
    BY <1>5, <2>1 DEF Follows, Spares, Enrolls
  <2>5. CASE iy = Discard(second, journal.incoming)
    <3>1. journal.incoming \in Names /\ journal.incoming[1] = journal.to /\ journal.incoming[2] <= clock
      BY DEF JournalTrue, JournalTraced
    <3>2. /\ Follows(second, iy, vault, clock) /\ iy.enrolled = second.enrolled
          /\ \A a \in Accounts : a # journal.to => Spares(second, iy, a)
      BY <2>2, <2>4, <2>5, <3>1, DiscardFollows
    <3>3. Follows(ix, iy, vault, clock)
      BY <2>4, <3>2, FollowsOn
    <3>4. Allowed(iy)
      BY <1>4, <1>7, <2>4, <3>2 DEF Spares
    <3> QED BY <1>5, <2>1, <3>2, <3>3, <3>4
  <2> QED BY <1>5, <2>1, <2>3, <2>4, <2>5
<1> QED BY <1>6, <1>7

\* Giving one up parks what it stored for the account going out, where that is not
\* parked yet.
LEMMA GivenUpFollows ==
  ASSUME NEW ix, IndexTrue(ix, vault, clock), Enrolls(ix), VaultTrue, clock \in Nat, Locking,
         JournalTrue(journal, clock), journal # NoJournal,
         NEW parked \in {NoLogin, IF Replaces(journal) THEN NoLogin ELSE vault[journal.park]},
         NEW incoming, NEW slot,
         NEW iy, iy = GivenUp(ix, journal, parked, incoming, slot)
  PROVE  /\ Follows(ix, iy, vault, clock) /\ iy.enrolled = ix.enrolled
         /\ \A a \in Accounts :
              \/ Spares(ix, iy, a)
              \/ /\ journal.park # NoName /\ a = journal.from
                 /\ ix.parked[a].name # journal.park
<1> DEFINE offered == [name |-> journal.park, login |-> parked]
<1>1. iy = IF parked # NoLogin THEN ParkFor(ix, journal.from, offered) ELSE ix
  BY DEF GivenUp, LiveTwin
<1>2. CASE parked = NoLogin
  BY <1>1, <1>2, FollowsItself
<1>3. CASE parked # NoLogin
  <2>1. journal.park # NoName /\ parked = vault[journal.park]
    BY <1>3 DEF Replaces
  <2>2. /\ journal.park \in Names /\ ParkOK(journal.from, offered, vault, clock)
        /\ journal.from \in Accounts
    BY <1>3, <2>1, JournalParks
  <2>3. offered.name = journal.park /\ offered.login = parked /\ vault[offered.name] = offered.login
    BY <2>1
  <2>4. ix.parked[journal.from].name = journal.park => ix.parked[journal.from] = offered
    <3> SUFFICES ASSUME ix.parked[journal.from].name = journal.park
                 PROVE  ix.parked[journal.from] = offered
      OBVIOUS
    <3>1. ix.parked[journal.from] # NoPark
      BY <2>1 DEF NoPark
    <3>2. ParkOK(journal.from, ix.parked[journal.from], vault, clock)
      BY <2>2, <3>1 DEF IndexTrue
    <3>3. ix.parked[journal.from].login = parked
      BY <1>3, <2>1, <3>2 DEF ParkOK
    <3> QED BY <3>2, <3>3 DEF ParkOK, Parks
  <2> HIDE DEF offered
  <2>5. /\ Follows(ix, iy, vault, clock) /\ iy.enrolled = ix.enrolled
        /\ \A a \in Accounts : a # journal.from => Spares(ix, iy, a)
        /\ journal.from \notin ix.enrolled => iy = ix
        /\ journal.from \in ix.enrolled => iy.parked[journal.from] = offered
        /\ journal.from \in ix.enrolled /\ ix.parked[journal.from].name \in {NoName, offered.name}
                  => iy.discarded = ix.discarded
    BY <1>1, <1>3, <2>2, <2>3, ParkForFollows
  <2>6. ix.parked[journal.from].name = journal.park => Spares(ix, iy, journal.from)
    BY <2>3, <2>4, <2>5 DEF Spares
  <2> QED BY <2>1, <2>5, <2>6
<1> QED BY <1>2, <1>3

-----------------------------------------------------------------------------
(* What a run knows of the disk at each step (the rest of the invariant). *)

\* An answer no index records is under a name that is written down, where it is stored.
Answers ==
  \A a \in Accounts : run.fresh[a] # NoLogin =>
    /\ index.parked[a].login # run.fresh[a] /\ mem.parked[a].login # run.fresh[a]
    /\ \A n \in Names : vault[n] = run.fresh[a] =>
         n \in listed /\ n \notin index.discarded /\ n \notin mem.discarded

\* Steps no journal is left for: every run settles one first, and a renewal does not
\* start over one.
Unjournaled ==
  \/ pc \in {"sweep", "sweepList", "twins", "dropTwins", "identify", "forget", "prove",
             "lock", "ready", "reserve", "journal"} \cup Asking
  \/ pc \in {"purge", "purgeSave"} /\ run.next # "clear"

\* Steps after a change's sweep and before it reserves a name.
Swept ==
  \/ pc = "twins" /\ run.cmd # "renew"
  \/ pc \in {"dropTwins", "purge", "purgeSave"} /\ run.cmd # "renew" /\ run.next = "entry"
  \/ pc \in {"identify", "forget", "prove"}

\* A change that knows what is signed in.
Knowing == pc \in Changing \/ (pc \in Asking /\ run.cmd # "renew")

\* What settling has done by each of its steps.
StagedSettling ==
  /\ pc \in {"reconcile", "repair", "clearRepaired", "sweepList"} => mem = index
  /\ pc = "repair" /\ journal.park # NoName => run.seen \in Logins
  /\ pc \in {"sweep", "sweepList"} => run.keep = {}
  /\ pc = "sweep" =>
       /\ index.discarded \subseteq mem.discarded
       /\ \A a \in Accounts :
            \/ mem.parked[a] = index.parked[a]
            \/ /\ mem.parked[a].name \in listed \ index.discarded
               /\ vault[mem.parked[a].name] = mem.parked[a].login
  /\ Unjournaled => journal = NoJournal
  /\ Swept => listed = {}
  /\ pc \in {"identify", "forget"} => run.next = "idle"

\* What is on the list: only a name for the account going in, until one is reserved
\* for the one going out.
StagedNames ==
  /\ (pc \in Asking /\ run.cmd # "renew") \/ pc \in {"lock", "ready", "reserve"}
        => \A n \in listed : n[1] = run.to
  /\ pc \in {"journal", "parkStore", "parkRecord", "reread", "install"} /\ run.going = "out"
        => /\ \A n \in listed : n[1] = run.out => n = run.park
           /\ run.park \notin index.discarded /\ run.park \notin mem.discarded
  /\ pc \in {"reread", "install"} /\ run.going = "out" =>
        /\ mem.parked[run.out] = [name |-> run.park, login |-> run.before]
        /\ index.parked[run.out] = mem.parked[run.out]
        /\ vault[run.park] = run.before
  /\ pc \in {"renewStore", "renewRecord"} =>
        /\ run.park[2] = clock /\ run.park \in listed
        /\ run.park \notin index.discarded /\ run.park \notin mem.discarded

\* What a change has decided, and what its journal says of it.
StagedChange ==
  /\ pc \in Changing \ {"prove"} => mem.parked[run.to] = run.inc
  /\ (pc \in Changing \ {"prove"} \/ (pc \in Asking /\ run.cmd # "renew")) =>
        (run.going = "out" => run.out \in mem.enrolled)
  /\ Knowing /\ run.going = "nothing" => run.seen = NoLogin
  /\ Knowing /\ run.going = "refused" => run.seen \in Logins \ usable
  /\ pc \in Writing /\ run.going # "out" => run.before = run.seen
  /\ pc \in {"parkStore", "parkRecord", "reread", "install", "holds", "record"} =>
        /\ journal # NoJournal
        /\ journal.to = run.to /\ journal.incoming = run.inc.name
        /\ IF run.going = "out" THEN journal.from = run.out /\ journal.park = run.park
           ELSE journal.park = NoName
  /\ pc \in Asking => \A a \in run.refused : mem.parked[a].login \notin usable

Staged == StagedSettling /\ StagedNames /\ StagedChange

-----------------------------------------------------------------------------
(* Where an account's login is kept. *)

\* The parks of an account a run may take to be its login: the recorded one, and the
\* items under listed names that no deletion is noted for.
Offers(ix, a, li, v) ==
  {p \in Parks : /\ p.name[1] = a
                 /\ \/ p.name \in li \ ix.discarded /\ v[p.name] = p.login
                    \/ ix.parked[a] = p}

\* Every park offered of login x is there and stays there, and every other one is of a
\* login the service no longer takes, under an older name.
Newest(ix, a, x, li, v, us) ==
  \A p \in Offers(ix, a, li, v) :
    IF p.login = x
    THEN v[p.name] = x /\ p.name \notin ix.discarded
    ELSE /\ p.login \notin us
         /\ \A q \in Offers(ix, a, li, v) : q.login = x => p.name[2] < q.name[2]

\* x is a's login, by the index on disk and by the one the run may yet save.
Firm(ix, iy, a, x, li, v, us) ==
  /\ x \in us
  /\ Newest(ix, a, x, li, v, us) /\ Newest(iy, a, x, li, v, us)
  /\ ix.parked[a].login = x => iy.parked[a] = ix.parked[a]

\* One item of it is offered by both.
Both(ix, iy, a, x, li, v) ==
  \E n \in Names : [name |-> n, login |-> x] \in Offers(ix, a, li, v) \cap Offers(iy, a, li, v)

\* The account's login is stored, or is the answer f the run has still to write down.
Stored(ix, iy, a, f, li, v, us) ==
  IF f # NoLogin THEN Firm(ix, iy, a, f, li, v, us)
  ELSE \E x \in Logins : Firm(ix, iy, a, x, li, v, us) /\ Both(ix, iy, a, x, li, v)

\* The account's login is the tool's to keep, or somebody else's to answer for.
Safe(a) == Signed(a) \/ Renewing(a) \/ a \in taken \/ a \notin index.enrolled

\* Whatever the run does next, and wherever it is killed, the account keeps a login.
Secure ==
  \A a \in Accounts :
    Safe(a) \/ Stored(index, mem, a, run.fresh[a], listed, vault, usable)

\* After what is parked of the login signed in was dropped.
TwinFree ==
  \/ pc \in {"purge", "purgeSave"} /\ run.cmd # "renew" /\ run.next = "entry"
  \/ pc \in {"identify", "prove"} \cup Asking

\* What the slot holds, against what the run read of it and what is parked.
SlotHolds ==
  /\ live \in Logins => live \in usable \/ Renewing(Account(live)) \/ Account(live) \in taken
  /\ pc \in Writing /\ run.before \in Logins =>
       Account(run.before) \in taken \/ (live = run.before /\ live \in usable)
  /\ live = Torn /\ journal # NoJournal =>
       /\ journal.to \in index.enrolled
       /\ vault[journal.incoming] \in usable \cup {NoLogin} \/ journal.to \in taken

\* What a journal parked is recorded, or its account is safe.
JournalBacked ==
  journal # NoJournal /\ journal.park # NoName =>
    \/ Safe(journal.from)
    \/ index.parked[journal.from].name = journal.park /\ mem.parked[journal.from].name = journal.park

\* Its login is stored, whatever the slot holds.
StillParked(a) == a \in taken \/ Stored(index, mem, a, NoLogin, listed, vault, usable)

\* Whose logins the run may let go of, or write over.
SlotSafe ==
  /\ pc \in {"repair", "dropTwins"} /\ run.seen \in Logins => Safe(Account(run.seen))
  /\ pc \in Changing \ {"prove", "holds", "record"} => run.inc.login \in usable \/ Safe(run.to)
  /\ pc = "holds" => StillParked(run.to)
  /\ pc = "record" \/ (pc = "holds" /\ live # NoLogin) => Safe(run.to)

SlotTwins ==
  /\ pc = "dropTwins" =>
       \A a \in Accounts : mem.parked[a].login = live /\ live \in Logins => live = run.seen
  /\ TwinFree =>
       \A a \in Accounts : live \in Logins => mem.parked[a].login # live /\ run.fresh[a] # live

Slot == SlotHolds /\ JournalBacked /\ SlotSafe /\ SlotTwins

\* The whole of it, with what SwitchProofs keeps.
Basis == Inv /\ Found /\ Locked

Guarded == Basis /\ Traced /\ Answers /\ Staged /\ Secure /\ Slot

-----------------------------------------------------------------------------
(* What keeps a login stored. *)

\* An item offered is its account's, by name and by login.
LEMMA OffersTrue ==
  ASSUME NEW ix, NEW a \in Accounts, NEW li, NEW v, NEW c, IndexTrue(ix, v, c),
         \A n \in Names : v[n] # NoLogin => Account(v[n]) = n[1],
         NEW p \in Offers(ix, a, li, v)
  PROVE  /\ p.name \in Names /\ p.login \in Logins /\ p.name[1] = a /\ Account(p.login) = a
         /\ p = [name |-> p.name, login |-> p.login]
         /\ v[p.name] \in {p.login, NoLogin}
<1>1. p \in Parks /\ p.name \in Names /\ p.login \in Logins /\ p.name[1] = a
  BY DEF Offers, Parks
<1>2. p.login # NoLogin /\ p # NoPark
  BY <1>1, NobodyNamed DEF NoPark
<1>3. CASE ix.parked[a] = p
  BY <1>1, <1>2, <1>3 DEF IndexTrue, ParkOK, Parks
<1>4. CASE v[p.name] = p.login
  BY <1>1, <1>2, <1>4 DEF Parks
<1> QED BY <1>1, <1>3, <1>4 DEF Offers

\* Where nothing that is said of an account changes, what is offered of it does not.
LEMMA SparesOffers ==
  ASSUME NEW ix, NEW iy, NEW a, NEW li, NEW v, Spares(ix, iy, a)
  PROVE  Offers(iy, a, li, v) = Offers(ix, a, li, v)
<1>1. \A p \in Parks : p.name \in Names
  BY DEF Parks
<1> QED BY <1>1 DEF Offers, Spares

\* An account spared in the index to be saved keeps its login stored.
LEMMA StoredOver ==
  ASSUME NEW ix, NEW iy, NEW iz, NEW a, NEW f, NEW li, NEW v, NEW us,
         Spares(iy, iz, a), Stored(ix, iy, a, f, li, v, us)
  PROVE  Stored(ix, iz, a, f, li, v, us)
<1>1. Offers(iz, a, li, v) = Offers(iy, a, li, v)
  BY SparesOffers
<1>2. \A p \in Offers(iy, a, li, v) : p.name \in Names /\ p.name[1] = a
  BY DEF Offers, Parks
<1>3. \A x : Newest(iy, a, x, li, v, us) => Newest(iz, a, x, li, v, us)
  BY <1>1, <1>2 DEF Newest, Spares
<1>4. \A x : Firm(ix, iy, a, x, li, v, us) => Firm(ix, iz, a, x, li, v, us)
  BY <1>3 DEF Firm, Spares
<1>5. \A x : Both(ix, iy, a, x, li, v) => Both(ix, iz, a, x, li, v)
  BY <1>1 DEF Both
<1> QED BY <1>4, <1>5 DEF Stored

\* What is stored by two indexes is stored by either alone.
LEMMA FirmEither ==
  ASSUME NEW ix, NEW iy, NEW a, NEW x, NEW li, NEW v, NEW us, Firm(ix, iy, a, x, li, v, us)
  PROVE  Firm(ix, ix, a, x, li, v, us) /\ Firm(iy, iy, a, x, li, v, us)
BY DEF Firm

\* So is what is stored whole.
LEMMA StoredEither ==
  ASSUME NEW ix, NEW iy, NEW a, NEW f, NEW li, NEW v, NEW us, Stored(ix, iy, a, f, li, v, us)
  PROVE  Stored(ix, ix, a, f, li, v, us) /\ Stored(iy, iy, a, f, li, v, us)
<1>1. \A x : Both(ix, iy, a, x, li, v) => Both(ix, ix, a, x, li, v) /\ Both(iy, iy, a, x, li, v)
  BY DEF Both
<1> QED BY <1>1, FirmEither DEF Stored

\* Nothing of an account changes in the vault, on the list, at the service or in hand.
Alike(a) ==
  /\ \A n \in Names : n[1] = a =>
       vault'[n] = vault[n] /\ (vault[n] # NoLogin => (n \in listed' <=> n \in listed))
  /\ \A l \in Logins : Account(l) = a => (l \in usable' <=> l \in usable)
  /\ run'.fresh[a] = run.fresh[a]

\* Such an account is offered what it was.
LEMMA AlikeOffers ==
  ASSUME Inv, NEW ix, IndexTrue(ix, vault, clock), NEW a \in Accounts, Alike(a)
  PROVE  Offers(ix, a, listed', vault') = Offers(ix, a, listed, vault)
<1>1. \A p \in Parks : p.name \in Names /\ p.login # NoLogin
  BY NobodyNamed DEF Parks
<1>2. ASSUME NEW p \in Parks, p.name[1] = a
      PROVE  (p.name \in listed' \ ix.discarded /\ vault'[p.name] = p.login)
               <=> (p.name \in listed \ ix.discarded /\ vault[p.name] = p.login)
  BY <1>1, <1>2 DEF Alike
<1> QED BY <1>2 DEF Offers

\* And has its login stored where it had it.
LEMMA AlikeStored ==
  ASSUME Inv, NEW ix, NEW iy, IndexTrue(ix, vault, clock), IndexTrue(iy, vault, clock),
         NEW a \in Accounts, Alike(a),
         Stored(ix, iy, a, run.fresh[a], listed, vault, usable)
  PROVE  Stored(ix, iy, a, run'.fresh[a], listed', vault', usable')
<1> DEFINE f == run.fresh[a]
<1>0. \A n \in Names : vault[n] # NoLogin => Account(vault[n]) = n[1]
  BY DEF Inv, DiskTrue, VaultTrue
<1>1. /\ Offers(ix, a, listed', vault') = Offers(ix, a, listed, vault)
      /\ Offers(iy, a, listed', vault') = Offers(iy, a, listed, vault)
  BY AlikeOffers
<1>2. \A p \in Offers(ix, a, listed, vault) \cup Offers(iy, a, listed, vault) :
        p.name \in Names /\ p.name[1] = a /\ p.login \in Logins /\ Account(p.login) = a
  BY <1>0, OffersTrue
<1>3. \A x : Newest(ix, a, x, listed, vault, usable) => Newest(ix, a, x, listed', vault', usable')
  BY <1>1, <1>2 DEF Newest, Alike
<1>4. \A x : Newest(iy, a, x, listed, vault, usable) => Newest(iy, a, x, listed', vault', usable')
  BY <1>1, <1>2 DEF Newest, Alike
<1>5. \A x \in Logins : Account(x) = a /\ Firm(ix, iy, a, x, listed, vault, usable)
                          => Firm(ix, iy, a, x, listed', vault', usable')
  BY <1>3, <1>4 DEF Firm, Alike
<1>6. \A x \in Logins : Both(ix, iy, a, x, listed, vault)
                          => Both(ix, iy, a, x, listed', vault') /\ Account(x) = a
  BY <1>1, <1>2 DEF Both
<1>7. f # NoLogin => f \in Logins /\ Account(f) = a
  BY DEF Inv, RunTrue, Asked, Runs
<1>8. run'.fresh[a] = f
  BY DEF Alike
<1> QED BY <1>5, <1>6, <1>7, <1>8 DEF Stored

\* A step that saves an index, or not, and has it or the one on disk in mind.
LEMMA SecureStep ==
  ASSUME Inv, Secure, NEW iy, IndexTrue(iy, vault, clock),
         index' \in {index, iy}, mem' \in {index', iy},
         \A a \in Accounts :
           \/ Safe(a)' \/ Stored(index', mem', a, run'.fresh[a], listed', vault', usable')
           \/ Alike(a) /\ ~Safe(a) /\ Spares(mem, iy, a)
           \/ Alike(a) /\ Stored(index, iy, a, run.fresh[a], listed, vault, usable)
  PROVE  Secure'
<1> SUFFICES ASSUME NEW a \in Accounts, ~Safe(a)', Alike(a),
                    \/ ~Safe(a) /\ Spares(mem, iy, a)
                    \/ Stored(index, iy, a, run.fresh[a], listed, vault, usable)
             PROVE  Stored(index', mem', a, run'.fresh[a], listed', vault', usable')
  BY DEF Secure
<1>1. ~Safe(a) => Stored(index, mem, a, run.fresh[a], listed, vault, usable)
  BY DEF Secure
<1>2. Stored(index, iy, a, run.fresh[a], listed, vault, usable)
  BY <1>1, StoredOver
<1>3. /\ Stored(index, index, a, run.fresh[a], listed, vault, usable)
      /\ Stored(iy, iy, a, run.fresh[a], listed, vault, usable)
  BY <1>2, StoredEither
<1>4. Stored(index', mem', a, run.fresh[a], listed, vault, usable)
  BY <1>2, <1>3
<1>5. IndexTrue(index', vault, clock) /\ IndexTrue(mem', vault, clock)
  BY DEF Inv, DiskTrue
<1> QED BY <1>4, <1>5, AlikeStored

\* Every account it changes something of is safe.
LEMMA SecureSaves ==
  ASSUME Inv, Secure, NEW iy, IndexTrue(iy, vault, clock),
         index' \in {index, iy}, mem' \in {index', iy},
         \A a \in Accounts : Safe(a) => Safe(a)',
         \A a \in Accounts : Safe(a)' \/ (Alike(a) /\
             \/ Spares(mem, iy, a)
             \/ Stored(index, iy, a, run.fresh[a], listed, vault, usable))
  PROVE  Secure'
<1>1. \A a \in Accounts :
           \/ Safe(a)' \/ Stored(index', mem', a, run'.fresh[a], listed', vault', usable')
           \/ Alike(a) /\ ~Safe(a) /\ Spares(mem, iy, a)
           \/ Alike(a) /\ Stored(index, iy, a, run.fresh[a], listed, vault, usable)
  OBVIOUS
<1> QED BY <1>1, SecureStep

-----------------------------------------------------------------------------
(* Steps that touch no login: only what the indexes say, and what the run has read. *)

\* What a run holds of logins is what it held, what the slot holds, or nothing.
RunKept ==
  /\ run'.seen \in {run.seen, live, NoLogin} /\ run'.before \in {run.before, live, NoLogin}
  /\ \A a \in Accounts : run'.fresh[a] \in {run.fresh[a], NoLogin}

\* A step of the indexes: one is made of what the run has in mind, and saved or not.
Makes(iy) ==
  /\ IndexTrue(iy, vault, clock) /\ Follows(mem, iy, vault, clock)
  /\ index' \in {index, iy} /\ mem' \in {index', iy}
  /\ iy.enrolled = mem.enrolled \/ mem' = index'

\* What is known of an index made of another.
LEMMA FollowsKnown ==
  ASSUME Inv, Traced, NEW iy, IndexTrue(iy, vault, clock), Follows(mem, iy, vault, clock)
  PROVE  IndexKnown(iy, issued, clock)
<1>1. \A a \in Accounts : Known(iy.parked[a].login, issued)
  <2> SUFFICES ASSUME NEW a \in Accounts PROVE Known(iy.parked[a].login, issued)
    OBVIOUS
  <2>1. CASE iy.parked[a] = NoPark
    BY <2>1, NobodyNamed DEF NoPark, Known
  <2>2. CASE iy.parked[a] = mem.parked[a]
    BY <2>2 DEF Traced, IndexKnown
  <2>3. CASE iy.parked[a] # NoPark /\ vault[iy.parked[a].name] = iy.parked[a].login
    <3>1. iy.parked[a].name \in Names /\ iy.parked[a].login \in Logins
      BY <2>3 DEF IndexTrue, ParkOK, Parks
    <3> QED BY <2>3, <3>1, NobodyNamed DEF Traced
  <2> QED BY <2>1, <2>2, <2>3 DEF Follows
<1> QED BY <1>1 DEF IndexKnown, Follows, Traced

\* An answer nobody but its session has stays so.
LEMMA FollowsUnsaved ==
  ASSUME Inv, Traced, NEW iy, Makes(iy), UNCHANGED <<vault, sess>>, RunKept,
         sess # NoRenewal
  PROVE  Unsaved(sess.fresh)'
<1>1. sess.fresh \in Logins /\ Unsaved(sess.fresh)
  BY DEF Traced, SessionTraced
<1>2. sess.fresh # NoLogin /\ sess'.fresh = sess.fresh
  BY <1>1, NobodyNamed
<1>3. \A a \in Accounts : iy.parked[a].login # sess.fresh
  <2> SUFFICES ASSUME NEW a \in Accounts, iy.parked[a].login = sess.fresh PROVE FALSE
    OBVIOUS
  <2>1. iy.parked[a] # NoPark
    BY <1>2 DEF NoPark
  <2>2. iy.parked[a].name \in Names
    BY <2>1 DEF Makes, IndexTrue, ParkOK, Parks
  <2> QED BY <1>1, <2>1, <2>2 DEF Makes, Follows, Unsaved
<1>4. \A n \in Names : vault'[n] # sess.fresh
  BY <1>1 DEF Unsaved
<1>5. \A a \in Accounts : run'.fresh[a] # sess.fresh
  BY <1>1, <1>2 DEF Unsaved, RunKept
<1>6. \A a \in Accounts : index'.parked[a].login # sess.fresh /\ mem'.parked[a].login # sess.fresh
  BY <1>1, <1>3 DEF Unsaved, Makes
<1> QED BY <1>2, <1>4, <1>5, <1>6 DEF Unsaved

\* Everything held was issued, and everything named was reserved, after a step that
\* issues nothing.
LEMMA TracedOver ==
  ASSUME Inv, Traced, NEW iy, Makes(iy), UNCHANGED <<vault, usable, issued, sess>>,
         clock' \in Nat, clock <= clock',
         Known(live', issued), RunKept, JournalTraced(journal', clock')
  PROVE  Traced'
<1>0. clock \in Nat /\ \A n \in Names : n[2] \in Nat
  BY SwitchBounds DEF Inv, DiskTrue, ListTrue, Names
<1>1. IndexKnown(iy, issued, clock) /\ IndexKnown(index, issued, clock) /\ IndexKnown(mem, issued, clock)
  BY FollowsKnown DEF Makes, Traced
<1>2. \A n \in index.discarded \cup mem.discarded \cup iy.discarded : n \in Names
  BY DEF Makes, IndexTrue, Indexes, Inv, DiskTrue, RunTrue
<1>3. IndexKnown(index, issued', clock') /\ IndexKnown(mem, issued', clock')
      /\ IndexKnown(iy, issued', clock')
  BY <1>0, <1>1, <1>2 DEF IndexKnown
<1>4. IndexKnown(index', issued', clock') /\ IndexKnown(mem', issued', clock')
  BY <1>3 DEF Makes
<1>5. mem'.enrolled = index'.enrolled
  BY DEF Makes, Traced
<1>6. \A n \in Names : vault'[n] # NoLogin => n[2] <= clock' /\ Known(vault'[n], issued')
  BY <1>0 DEF Traced
<1>7. /\ Known(live', issued') /\ Known(run'.seen, issued') /\ Known(run'.before, issued')
      /\ \A a \in Accounts : Known(run'.fresh[a], issued')
  BY NobodyNamed DEF Traced, RunKept, Known
<1>8. SessionTraced'
  <2> SUFFICES ASSUME sess' # NoRenewal
               PROVE  /\ sess'.sent \in Logins \ usable' /\ sess'.fresh \in Logins
                      /\ Account(sess'.sent) = Account(sess'.fresh)
                      /\ Known(sess'.sent, issued') /\ Known(sess'.fresh, issued')
                      /\ Unsaved(sess.fresh)'
    BY DEF SessionTraced
  <2> QED BY FollowsUnsaved DEF Traced, SessionTraced
<1>9. \A n \in index'.discarded : vault'[n] # NoLogin => n \in mem'.discarded
  BY DEF Makes, Traced, Follows
<1> QED BY <1>4, <1>5, <1>6, <1>7, <1>8, <1>9 DEF Traced

\* Who is safe stays so while the slot, the tokens and the session are let be.
LEMMA SafeStays ==
  ASSUME UNCHANGED <<live, usable, sess, taken>>, index'.enrolled \subseteq index.enrolled
  PROVE  \A a : Safe(a) => Safe(a)'
BY DEF Safe, Signed, Renewing, SavesOver

\* A step that touches nothing but the indexes, the journal and the run.
Plain == UNCHANGED <<live, vault, listed, clock, usable, issued, sess, taken>>

\* No step but a forgetting changes who is enrolled, and that one only takes away.
LEMMA MakesEnrolled ==
  ASSUME Traced, NEW iy, Makes(iy)
  PROVE  index'.enrolled \subseteq index.enrolled
BY DEF Makes, Follows, Traced

\* Such a step keeps every login traced and every account's where it is, where what it
\* changes of an account is that of one that is safe.
LEMMA PlainKeeps ==
  ASSUME Inv, Traced, Secure, NEW iy, Makes(iy), Plain, RunKept, journal' \in {journal, NoJournal},
         \A a \in Accounts : run'.fresh[a] = run.fresh[a],
         \A a \in Accounts : \/ Spares(mem, iy, a) \/ Safe(a) \/ Safe(a)'
                             \/ Stored(index, iy, a, run.fresh[a], listed, vault, usable)
  PROVE  Traced' /\ Secure' /\ \A a : Safe(a) => Safe(a)'
<1>1. \A a : Safe(a) => Safe(a)'
  BY SafeStays, MakesEnrolled DEF Plain
<1>2. Traced'
  <2>1. clock \in Nat
    BY SwitchBounds DEF Inv, DiskTrue, ListTrue
  <2>2. JournalTraced(journal', clock')
    BY DEF Traced, JournalTraced, Plain
  <2>3. Known(live', issued)
    BY DEF Traced, Plain
  <2> QED BY <2>1, <2>2, <2>3, TracedOver DEF Plain
<1>3. \A a \in Accounts : Alike(a)
  BY DEF Alike, Plain
<1>4. Secure'
  BY <1>1, <1>3, SecureSaves DEF Makes
<1> QED BY <1>1, <1>2, <1>4

\* Without a session's renewal nobody's answer is under way.
LEMMA NoneRenewing ==
  ASSUME Inv, sess = NoRenewal
  PROVE  \A a : ~Renewing(a)
BY NobodyNamed DEF Renewing, NoRenewal, Inv, DiskTrue, WorldOK

\* The slot, the vault and what the journal names are as they were.
LEMMA PlainHolds ==
  ASSUME Inv, Traced, SlotHolds, NEW iy, Makes(iy), Plain, journal' \in {journal, NoJournal},
         journal' # NoJournal => iy.enrolled = mem.enrolled,
         pc' \in Writing /\ run'.before \in Logins =>
           \/ pc \in Writing /\ run'.before = run.before
           \/ run'.before = live /\ sess = NoRenewal
  PROVE  SlotHolds'
<1>1. journal' # NoJournal => index'.enrolled = index.enrolled
  BY DEF Makes, Traced
<1>2. /\ Signed(Account(live))' = Signed(Account(live))
      /\ \A a : Renewing(a)' = Renewing(a)
  BY DEF Plain, Signed, Renewing, SavesOver
<1>3. live' \in Logins =>
        live' \in usable' \/ Renewing(Account(live))' \/ Account(live') \in taken'
  BY <1>2 DEF SlotHolds, Plain
<1>4. pc' \in Writing /\ run'.before \in Logins =>
        Account(run'.before) \in taken' \/ (live' = run'.before /\ live' \in usable')
  BY NoneRenewing DEF SlotHolds, Plain
<1>5. live' = Torn /\ journal' # NoJournal =>
        /\ journal'.to \in index'.enrolled
        /\ vault'[journal'.incoming] \in usable' \cup {NoLogin} \/ journal'.to \in taken'
  BY <1>1 DEF SlotHolds, Plain
<1> QED BY <1>3, <1>4, <1>5 DEF SlotHolds

\* The park a journal names stays recorded, or its account is safe.
LEMMA PlainReturns ==
  ASSUME JournalBacked, NEW iy, Makes(iy), journal' \in {journal, NoJournal},
         \A a : Safe(a) => Safe(a)',
         journal # NoJournal /\ journal' # NoJournal /\ journal.park # NoName =>
           \/ Spares(mem, iy, journal.from) \/ Safe(journal.from)
           \/ iy.parked[journal.from].name = journal.park
  PROVE  JournalBacked'
<1> SUFFICES ASSUME journal' # NoJournal, journal'.park # NoName, ~Safe(journal.from)'
             PROVE  /\ index'.parked[journal'.from].name = journal'.park
                    /\ mem'.parked[journal'.from].name = journal'.park
  BY DEF JournalBacked
<1>1. journal' = journal /\ ~Safe(journal.from)
  OBVIOUS
<1>2. /\ index.parked[journal.from].name = journal.park
      /\ mem.parked[journal.from].name = journal.park
  BY <1>1 DEF JournalBacked
<1>3. iy.parked[journal.from].name = journal.park
  BY <1>1, <1>2 DEF Spares
<1> QED BY <1>1, <1>2, <1>3 DEF Makes

\* A run that ends there leaves what it wrote, and nothing to write.
LEMMA EndsKeeps ==
  ASSUME Guarded, Basis', NEW iy, Makes(iy), Plain, Ends, journal' \in {journal, NoJournal},
         journal' # NoJournal => iy.enrolled = mem.enrolled,
         \A a \in Accounts : run.fresh[a] = NoLogin,
         \A a \in Accounts :
            \/ Spares(mem, iy, a) \/ Safe(a)
            \/ a \notin index'.enrolled
            \/ journal = NoJournal /\ Stored(index, iy, a, run.fresh[a], listed, vault, usable)
  PROVE  Guarded'
<1> USE DEF Guarded, Basis
<1>1. pc' = "idle" /\ run' = NoRun /\ mem' = index'
  BY DEF Ends
<1>2. /\ run'.seen = NoLogin /\ run'.before = NoLogin /\ \A a \in Accounts : run'.fresh[a] = NoLogin
  BY <1>1 DEF NoRun
<1>3. Traced' /\ Secure' /\ \A a : Safe(a) => Safe(a)'
  <2>1. RunKept /\ \A a \in Accounts : run'.fresh[a] = run.fresh[a]
    BY <1>2 DEF RunKept
  <2>2. \A a : a \notin index'.enrolled => Safe(a)'
    BY DEF Safe
  <2> QED BY <2>1, <2>2, PlainKeeps
<1>4. Answers'
  BY <1>2 DEF Answers
<1>5. Staged'
  BY <1>1 DEF Staged, StagedSettling, StagedNames, StagedChange, Unjournaled, Swept, Asking,
              Changing, Writing, Knowing
<1>6. SlotHolds'
  BY <1>1, PlainHolds DEF Slot, Writing
<1>7. SlotSafe' /\ JournalBacked'
  <2>1. journal # NoJournal /\ journal' # NoJournal /\ journal.park # NoName =>
           \/ Spares(mem, iy, journal.from) \/ Safe(journal.from)
           \/ iy.parked[journal.from].name = journal.park
    <3> SUFFICES ASSUME journal # NoJournal, journal' # NoJournal, journal.park # NoName
                 PROVE  Spares(mem, iy, journal.from) \/ Safe(journal.from)
      OBVIOUS
    <3>1. journal.from \in Accounts
      BY DEF Inv, DiskTrue, JournalTrue, Journals, Names
    <3> QED BY <3>1 DEF Safe, Makes, Traced
  <2>2. JournalBacked'
    BY <1>3, <2>1, PlainReturns DEF Slot
  <2> QED BY <1>1, <2>2 DEF SlotSafe, Changing
<1>8. SlotTwins'
  BY <1>1 DEF SlotTwins, TwinFree, Asking
<1> QED BY <1>3, <1>4, <1>5, <1>6, <1>7, <1>8 DEF Slot

\* An index in mind is made of itself.
LEMMA MakesMem ==
  ASSUME Inv, Traced, index' \in {index, mem}, mem' \in {index', mem}
  PROVE  Makes(mem) /\ \A a \in Accounts : Spares(mem, mem, a)
<1>1. Enrolls(mem)
  BY DEF Traced, IndexKnown, Enrolls
<1> QED BY <1>1, FollowsItself DEF Makes, Inv, RunTrue, Traced

\* A refusal, or an operation that failed before anything was written.
LEMMA RefusesKeeps ==
  ASSUME Guarded, Basis', Refuses \/ \E op \in Operations : Breaks(op),
         \A a \in Accounts : run.fresh[a] = NoLogin
  PROVE  Guarded'
<1>1. /\ Plain /\ Ends /\ index' = index /\ journal' = journal
  BY DEF Refuses, Breaks, Plain, disk, service
<1>2. mem' = index'
  BY <1>1 DEF Ends
<1>3. Makes(mem) /\ \A a \in Accounts : Spares(mem, mem, a)
  BY <1>1, <1>2, MakesMem DEF Guarded, Basis
<1> QED BY <1>1, <1>3, EndsKeeps

\* What holds after a step of the indexes, whatever it is for.
LEMMA PlainStep ==
  ASSUME Guarded, NEW iy, Makes(iy), Plain, RunKept, journal' \in {journal, NoJournal},
         journal' # NoJournal => iy.enrolled = mem.enrolled,
         pc' \in Writing /\ run'.before \in Logins =>
           \/ pc \in Writing /\ run'.before = run.before
           \/ run'.before = live /\ sess = NoRenewal,
         \A a \in Accounts : run'.fresh[a] = run.fresh[a],
         \A a \in Accounts : \/ Spares(mem, iy, a) \/ Safe(a)
                             \/ a \notin index'.enrolled
                             \/ /\ journal = NoJournal
                                /\ Stored(index, iy, a, run.fresh[a], listed, vault, usable)
  PROVE  Traced' /\ Secure' /\ SlotHolds' /\ JournalBacked' /\ \A a : Safe(a) => Safe(a)'
<1> USE DEF Guarded, Basis
<1>1. Traced' /\ Secure' /\ \A a : Safe(a) => Safe(a)'
  <2>1. \A a : a \notin index'.enrolled => Safe(a)'
    BY DEF Safe
  <2> QED BY <2>1, PlainKeeps
<1>2. SlotHolds'
  BY PlainHolds DEF Slot
<1>3. journal # NoJournal /\ journal' # NoJournal /\ journal.park # NoName =>
        \/ Spares(mem, iy, journal.from) \/ Safe(journal.from)
        \/ iy.parked[journal.from].name = journal.park
  <2> SUFFICES ASSUME journal # NoJournal, journal' # NoJournal, journal.park # NoName
               PROVE  Spares(mem, iy, journal.from) \/ Safe(journal.from)
    OBVIOUS
  <2>1. journal.from \in Accounts
    BY DEF Inv, DiskTrue, JournalTrue, Journals, Names
  <2> QED BY <2>1 DEF Safe, Makes, Traced
<1>4. JournalBacked'
  BY <1>1, <1>3, PlainReturns DEF Slot
<1> QED BY <1>1, <1>2, <1>4

\* And where the indexes, too, are as they were.
LEMMA QuietStep ==
  ASSUME Guarded, index' \in {index, mem}, mem' \in {index', mem}, Plain, RunKept,
         journal' \in {journal, NoJournal},
         pc' \in Writing /\ run'.before \in Logins =>
           \/ pc \in Writing /\ run'.before = run.before
           \/ run'.before = live /\ sess = NoRenewal,
         \A a \in Accounts : run'.fresh[a] = run.fresh[a]
  PROVE  /\ Traced' /\ Secure' /\ SlotHolds' /\ JournalBacked' /\ \A a : Safe(a) => Safe(a)'
         /\ index'.enrolled = index.enrolled /\ mem'.enrolled = mem.enrolled
<1>1. Makes(mem) /\ \A a \in Accounts : Spares(mem, mem, a)
  BY MakesMem DEF Guarded, Basis
<1>2. mem.enrolled = index.enrolled
  BY DEF Guarded, Traced
<1> QED BY <1>1, <1>2, PlainStep

-----------------------------------------------------------------------------
(* Starting, and doing nothing. *)

\* A run that starts has read the index and nothing else.
LEMMA StartKeeps ==
  ASSUME Guarded, Basis', NEW cmd \in Commands, NEW a \in Accounts \cup {Nobody}, Start(cmd, a)
  PROVE  Guarded'
<1>1. /\ Plain /\ index' = index /\ mem' = index' /\ journal' = journal /\ pc = "idle"
      /\ pc' \in {"twins", "abandon", "reconcile"} /\ run' = [NoRun EXCEPT !.cmd = cmd, !.to = a]
      /\ pc' = "twins" => journal = NoJournal /\ cmd = "renew"
  BY DEF Start, Goes, Plain, disk, service
<1>2. /\ run'.seen = NoLogin /\ run'.before = NoLogin /\ run'.cmd = cmd
      /\ \A b \in Accounts : run'.fresh[b] = NoLogin
  BY <1>1 DEF NoRun
<1>3. \A b \in Accounts : run.fresh[b] = NoLogin
  BY <1>1 DEF Guarded, Basis, Inv, RunTrue, Asked, Asking
<1>4. Traced' /\ Secure' /\ SlotHolds' /\ JournalBacked'
  BY <1>1, <1>2, <1>3, QuietStep, NobodyNamed DEF RunKept, Writing
<1>5. Answers'
  BY <1>2 DEF Answers
<1>6. Staged'
  BY <1>1, <1>2 DEF Staged, StagedSettling, StagedNames, StagedChange, Unjournaled, Swept, Asking,
                    Changing, Writing, Knowing
<1>7. SlotSafe' /\ SlotTwins'
  BY <1>1 DEF SlotSafe, SlotTwins, TwinFree, Changing, Asking
<1> QED BY <1>4, <1>5, <1>6, <1>7 DEF Slot, Guarded

\* Nor does a step that changes nothing.
LEMMA StutterKeeps ==
  ASSUME Guarded, Basis', UNCHANGED vars
  PROVE  Guarded'
<1> USE DEF Guarded, vars, disk, service, world, process
<1>1. Traced' /\ Answers' /\ Staged'
  BY DEF Traced, SessionTraced, Unsaved, Answers, Staged, StagedSettling, StagedNames, StagedChange,
         Unjournaled, Swept, Knowing
<1>2. \A a : Safe(a) <=> Safe(a)'
  BY DEF Safe, Signed, Renewing, SavesOver
<1>3. Secure'
  BY <1>2 DEF Secure
<1>4. Slot'
  BY <1>2 DEF Slot, SlotHolds, JournalBacked, SlotSafe, StillParked, SlotTwins, TwinFree, Renewing, SavesOver
<1> QED BY <1>1, <1>3, <1>4

\* Outside a renewal no answer is held.
LEMMA NoAnswers ==
  ASSUME Inv, pc \notin Asking
  PROVE  Answers /\ \A a \in Accounts : run.fresh[a] = NoLogin
BY DEF Inv, RunTrue, Asked, Answers

\* After a step out of one, either.
LEMMA NoAnswersNext ==
  ASSUME Basis', pc' \notin Asking
  PROVE  Answers' /\ \A a \in Accounts : run'.fresh[a] = NoLogin
BY DEF Basis, Inv, RunTrue, Asked, Answers

-----------------------------------------------------------------------------
(* What happens outside. *)

\* What a step outside the process leaves of what the run knows.
LEMMA OutsideKeeps ==
  ASSUME Guarded, Basis', UNCHANGED <<vault, index, journal, listed, clock, process>>,
         \A a \in Accounts :
           Safe(a) => Safe(a)' \/ (pc = "holds" /\ a = run.to /\ live' = NoLogin),
         pc = "holds" => StillParked(run.to)' /\ live' \in {live, NoLogin},
         \A a \in Accounts :
           Safe(a)' \/ \A l \in Logins : Account(l) = a => (l \in usable' <=> l \in usable),
         \A l \in usable' : l \in usable \/ ~Known(l, issued),
         \A a \in Accounts : issued[a] <= issued'[a],
         SessionTraced', Known(live', issued'), SlotHolds',
         \/ live' \in {live, NoLogin}
         \/ \A a \in Accounts : mem.parked[a].login # live' /\ run.fresh[a] # live'
  PROVE  Guarded'
<1> USE DEF Guarded, Basis, process
<1>0. \A l \in Logins : Known(l, issued) => Known(l, issued')
  BY SwitchBounds DEF Known, Logins, Inv, DiskTrue, WorldOK
<1>1. Traced'
  <2>1. IndexKnown(index, issued, clock)' /\ IndexKnown(mem, issued, clock)'
    BY <1>0 DEF Traced, IndexKnown, Known
  <2>2. \A n \in Names : vault'[n] # NoLogin => n[2] <= clock' /\ Known(vault'[n], issued')
    BY <1>0 DEF Traced, Known
  <2>3. /\ Known(run'.seen, issued') /\ Known(run'.before, issued')
        /\ \A a \in Accounts : Known(run'.fresh[a], issued')
    BY <1>0 DEF Traced, Known
  <2>4. JournalTraced(journal', clock')
    BY DEF Traced
  <2> QED BY <2>1, <2>2, <2>3, <2>4 DEF Traced
<1>2. Answers'
  BY DEF Answers
<1>3. Staged'
  <2>1. StagedSettling' /\ StagedNames'
    BY DEF Staged, StagedSettling, StagedNames, Unjournaled, Swept
  <2>2. Knowing /\ run.going = "refused" => run.seen \notin usable'
    BY DEF Staged, StagedChange, Traced
  <2>3. pc \in Asking => \A a \in run.refused : mem.parked[a].login \notin usable'
    <3> SUFFICES ASSUME pc \in Asking, NEW a \in run.refused PROVE mem.parked[a].login \notin usable'
      OBVIOUS
    <3>1. mem.parked[a].login \notin usable
      BY DEF Staged, StagedChange
    <3>2. a \in Accounts
      BY DEF Inv, RunTrue, Runs
    <3> QED BY <3>1, <3>2 DEF Traced, IndexKnown
  <2>4. StagedChange'
    BY <2>2, <2>3 DEF Staged, StagedChange, Knowing
  <2> QED BY <2>1, <2>4 DEF Staged
<1>4. Secure'
  <2>1. \A a \in Accounts : Safe(a)' \/ Alike(a)
    BY DEF Alike
  <2>2. Makes(mem) /\ \A a \in Accounts : Spares(mem, mem, a)
    BY MakesMem
  <2>3. PICK iy : iy = mem
    OBVIOUS
  <2>4. IndexTrue(iy, vault, clock) /\ index' \in {index, iy} /\ mem' \in {index', iy}
    BY <2>2, <2>3 DEF Makes
  <2>5. ASSUME NEW a \in Accounts
        PROVE  \/ Safe(a)' \/ Stored(index', mem', a, run'.fresh[a], listed', vault', usable')
               \/ Alike(a) /\ ~Safe(a) /\ Spares(mem, iy, a)
    <3>1. CASE Safe(a) /\ ~Safe(a)'
      <4>1. pc = "holds" /\ a = run.to /\ StillParked(a)'
        BY <3>1
      <4>2. run'.fresh[a] = NoLogin
        BY <4>1, NoAnswers DEF Asking
      <4> QED BY <3>1, <4>1, <4>2 DEF StillParked, Safe
    <3>2. CASE ~Safe(a)
      BY <2>1, <2>2, <2>3, <3>2
    <3> QED BY <3>1, <3>2
  <2>6. \A a \in Accounts :
           \/ Safe(a)' \/ Stored(index', mem', a, run'.fresh[a], listed', vault', usable')
           \/ Alike(a) /\ ~Safe(a) /\ Spares(mem, iy, a)
           \/ Alike(a) /\ Stored(index, iy, a, run.fresh[a], listed, vault, usable)
    BY <2>5
  <2> QED BY <2>4, <2>6, SecureStep
<1>5. JournalBacked'
  <2>1. journal # NoJournal /\ journal.park # NoName => journal.from \in Accounts
    BY DEF Inv, DiskTrue, JournalTrue, Journals, Names
  <2>2. journal # NoJournal /\ journal.park # NoName /\ pc = "holds" => journal.from # run.to
    <3> SUFFICES ASSUME journal # NoJournal, journal.park # NoName, pc = "holds"
                 PROVE  journal.from # run.to
      OBVIOUS
    <3>1. run.going = "out" /\ journal.from = run.out
      BY DEF Staged, StagedChange
    <3>2. pc \in Changing
      BY DEF Changing
    <3> QED BY <3>1, <3>2 DEF Inv, RunTrue, Bound, Reserved
  <2> QED BY <2>1, <2>2 DEF Slot, JournalBacked
<1>6. SlotSafe'
  <2>1. pc \in {"repair", "dropTwins"} /\ run.seen \in Logins => Account(run.seen) \in Accounts
    BY DEF Account, Logins
  <2>2. pc \in Changing => run.to \in Accounts
    BY DEF Inv, RunTrue, Bound
  <2>3. pc \in Changing \ {"prove"} => run.inc.login \in Logins /\ Account(run.inc.login) = run.to
    BY DEF Inv, RunTrue, Reserved, Parks
  <2>4. pc \in Changing \ {"prove", "holds", "record"} =>
          run.inc.login \in usable' \/ Safe(run.to)'
    BY <2>2, <2>3 DEF Slot, SlotSafe
  <2>5. pc = "record" \/ (pc = "holds" /\ live' # NoLogin) => Safe(run.to)'
    BY <2>2 DEF Slot, SlotSafe, Changing
  <2>6. pc \in {"repair", "dropTwins"} /\ run.seen \in Logins => Safe(Account(run.seen))'
    BY <2>1 DEF Slot, SlotSafe
  <2> QED BY <2>4, <2>5, <2>6 DEF SlotSafe
<1>7. SlotTwins'
  BY NobodyNamed DEF Slot, SlotTwins, TwinFree
<1> QED BY <1>1, <1>2, <1>3, <1>4, <1>5, <1>6, <1>7 DEF Slot

\* Nothing held is the login issued next.
LEMMA FreshUnheld ==
  ASSUME Inv, Traced, NEW a \in Accounts, Issues(a)
  PROVE  /\ Unsaved(Fresh(a)) /\ live # Fresh(a) /\ run.seen # Fresh(a) /\ run.before # Fresh(a)
         /\ \A b \in Accounts : mem.parked[b].login # Fresh(a) /\ run.fresh[b] # Fresh(a)
<1>1. Fresh(a) \in Logins /\ ~Known(Fresh(a), issued)
  BY FreshUnknown
<1>2. \A h : Known(h, issued) => h # Fresh(a)
  BY <1>1
<1>3. Fresh(a) # NoLogin
  BY <1>1, NobodyNamed
<1> QED BY <1>2, <1>3 DEF Traced, IndexKnown, Unsaved

\* A session's renewal spends the login signed in, whose account is in the session's hands.
LEMMA SessionSendsKeeps ==
  ASSUME Guarded, Basis', Reliable, SessionSends
  PROVE  Guarded'
<1> USE DEF Guarded, Basis
<1>1. /\ sess = NoRenewal /\ live \in usable /\ toolLock = "free" /\ Locking
      /\ UNCHANGED <<vault, index, journal, listed, clock, process, live, taken>>
      /\ usable' = (usable \ {live}) \cup {Fresh(Account(live))} /\ Issues(Account(live))
      /\ sess' = [sent |-> live, fresh |-> Fresh(Account(live))]
  BY DEF SessionSends, disk, Reliable
<1>2. live \in Logins /\ Account(live) \in Accounts
  BY <1>1 DEF Inv, DiskTrue, WorldOK, Account, Logins
<1>3. PICK a \in Accounts : a = Account(live)
  BY <1>2
<1>4. /\ usable' = (usable \ {live}) \cup {Fresh(a)} /\ Issues(a)
      /\ sess'.sent = live /\ sess'.fresh = Fresh(a)
  BY <1>1, <1>3
<1>5. /\ Fresh(a) \in Logins /\ Account(Fresh(a)) = a /\ ~Known(Fresh(a), issued)
      /\ Known(Fresh(a), issued') /\ \A b \in Accounts : issued[b] <= issued'[b]
      /\ \A l \in Logins : Known(l, issued) => l # Fresh(a) /\ Known(l, issued')
  BY <1>4, <1>2, FreshUnknown
<1>6. Renewing(a)' /\ Safe(a)'
  <2>1. sess'.fresh \in usable' /\ Account(sess'.fresh) = a
    BY <1>4, <1>1, <1>5
  <2>2. SavesOver'
    BY <1>4, <1>1 DEF SavesOver
  <2> QED BY <2>1, <2>2 DEF Renewing, Safe
<1>7. \A b : Safe(b) => Safe(b)'
  <2> SUFFICES ASSUME NEW b, Safe(b), b # a PROVE Safe(b)'
    BY <1>6 DEF Safe, Renewing
  <2>1. ~Renewing(b) /\ ~Signed(b)
    BY <1>1, <1>3, <1>4, NoneRenewing DEF Signed
  <2> QED BY <1>1, <1>3, <1>4, <2>1 DEF Safe
<1>8. \A b \in Accounts :
        Safe(b)' \/ \A l \in Logins : Account(l) = b => (l \in usable' <=> l \in usable)
  BY <1>1, <1>3, <1>4, <1>5, <1>6
<1>9. SessionTraced' /\ Known(live', issued')
  <2>1. Unsaved(sess.fresh)'
    <3>1. PICK f \in Logins : f = Fresh(a)
      BY <1>5
    <3>2. /\ \A n \in Names : vault[n] # f
          /\ \A b \in Accounts : /\ index.parked[b].login # f /\ mem.parked[b].login # f
                                 /\ run.fresh[b] # f
      BY <1>4, <3>1, FreshUnheld DEF Unsaved
    <3> QED BY <1>1, <1>4, <3>1, <3>2 DEF Unsaved, process
  <2>2. Known(live', issued')
    BY <1>1, <1>3, <1>4, <1>2, <1>5 DEF Traced
  <2>3. live \notin usable'
    BY <1>4, <1>2, FreshUnheld
  <2>4. Known(live, issued')
    BY <1>1, <1>3, <1>4, <2>2
  <2>5. Account(Fresh(a)) = Account(live)
    BY <1>3, <1>5
  <2> QED BY <1>4, <1>2, <1>5, <2>1, <2>2, <2>3, <2>4, <2>5 DEF SessionTraced
<1>10. SlotHolds'
  <2>1. pc' \notin Writing
    BY <1>1, <1>3, <1>4 DEF Locked, process
  <2>2. live' # Torn
    BY <1>1, <1>3, <1>4, <1>2, NobodyNamed
  <2> QED BY <1>1, <1>3, <1>4, <1>6, <2>1, <2>2 DEF SlotHolds
<1>11. \A l \in usable' : l \in usable \/ ~Known(l, issued)
  BY <1>1, <1>3, <1>4, <1>5
<1>12. pc # "holds"
  BY <1>1 DEF Locked
<1> QED BY <1>1, <1>3, <1>4, <1>5, <1>7, <1>8, <1>9, <1>10, <1>11, <1>12, OutsideKeeps

\* The answer a session saves is its account's login from there on.
LEMMA SessionSavesKeeps ==
  ASSUME Guarded, Basis', Reliable, SessionSaves
  PROVE  Guarded'
<1> USE DEF Guarded, Basis
<1>1. /\ sess # NoRenewal /\ Locking /\ sess' = NoRenewal
      /\ live' = IF SavesOver THEN sess.fresh ELSE live
      /\ UNCHANGED <<vault, index, journal, listed, clock, process, usable, issued, taken>>
  BY DEF SessionSaves, Spoils, Reliable
<1>2. /\ SavesOver => live = sess.sent
      /\ sess.sent \in Logins \ usable /\ sess.fresh \in Logins
      /\ Account(sess.sent) = Account(sess.fresh)
      /\ Known(sess.fresh, issued) /\ Unsaved(sess.fresh)
  BY <1>1 DEF SavesOver, Traced, SessionTraced
<1>3. \A b : Safe(b) => Safe(b)'
  <2> SUFFICES ASSUME NEW b, Signed(b) \/ Renewing(b) PROVE Signed(b)'
    BY <1>1 DEF Safe
  <2>1. CASE SavesOver
    BY <1>1, <1>2, <2>1 DEF Signed, Renewing
  <2>2. CASE ~SavesOver
    BY <1>1, <2>2 DEF Signed, Renewing
  <2> QED BY <2>1, <2>2
<1>4. SessionTraced' /\ Known(live', issued')
  BY <1>1, <1>2 DEF SessionTraced, Traced
<1>5. SlotHolds'
  <2>1. pc' \notin Writing
    BY <1>1 DEF Locked, process
  <2>2. live' \in Logins =>
          live' \in usable' \/ Renewing(Account(live))' \/ Account(live') \in taken'
    <3>1. CASE SavesOver
      BY <1>1, <1>2, <3>1 DEF Slot, SlotHolds, Renewing
    <3>2. CASE ~SavesOver
      BY <1>1, <3>2 DEF Slot, SlotHolds, Renewing
    <3> QED BY <3>1, <3>2
  <2>3. live' = Torn => live = Torn
    BY <1>1, <1>2, NobodyNamed
  <2> QED BY <1>1, <2>1, <2>2, <2>3 DEF Slot, SlotHolds
<1>6. /\ live' \in {live, NoLogin}
         \/ \A b \in Accounts : mem.parked[b].login # live' /\ run.fresh[b] # live'
      /\ \A b \in Accounts : issued[b] <= issued'[b]
  <2>1. \A b \in Accounts : issued[b] \in Nat
    BY SwitchBounds DEF Inv, DiskTrue, WorldOK
  <2> QED BY <1>1, <1>2, <2>1 DEF Unsaved
<1>7. pc # "holds"
  BY <1>1 DEF Locked
<1> QED BY <1>1, <1>3, <1>4, <1>5, <1>6, <1>7, OutsideKeeps

\* Whoever ends a login answers for its account: nobody else's is touched.
LEMMA EndedSafe ==
  ASSUME Locking, Traced, NEW b \in Accounts, Signed(b) \/ Renewing(b)
  PROVE  b \in Ended(live)
BY DEF Signed, Renewing, SavesOver, Ended, Account, Traced, SessionTraced, NoRenewal

\* A sign-out ends the login signed in, and nobody else's.
LEMMA LogOutKeeps ==
  ASSUME Guarded, Basis', Reliable, LogOut
  PROVE  Guarded'
<1> USE DEF Guarded, Basis
<1>1. /\ live \in Logins /\ live' = NoLogin /\ usable' = usable /\ Locking
      /\ UNCHANGED <<vault, index, journal, listed, clock, process, issued, sess>>
      /\ taken' = taken \cup (Ended(live) \ Backed(live))
  BY DEF LogOut, Reliable, Revoked
<1>2. \A b \in Accounts : Safe(b) => Safe(b)' \/ (pc = "holds" /\ b = run.to /\ live' = NoLogin)
  BY <1>1, EndedSafe DEF Safe, Backed
<1>3. \A b \in Accounts : issued[b] <= issued'[b]
  <2>1. \A b \in Accounts : issued[b] \in Nat
    BY SwitchBounds DEF Inv, DiskTrue, WorldOK
  <2> QED BY <1>1, <2>1
<1>4. SessionTraced' /\ Known(live', issued')
  BY <1>1, NobodyNamed DEF SessionTraced, Traced, Known, Unsaved, process
<1>5. SlotHolds'
  <2>1. pc' \in Writing /\ run'.before \in Logins => Account(run'.before) \in taken'
    <3> SUFFICES ASSUME pc \in Writing, run.before \in Logins, Account(run.before) \notin taken
                 PROVE  Account(run.before) \in Ended(live)
      BY <1>1 DEF process, Backed, Writing
    <3>1. live = run.before /\ live \in usable
      BY DEF Slot, SlotHolds
    <3>2. Account(live) \in Accounts
      BY <1>1 DEF Account, Logins
    <3> QED BY <3>1, <3>2 DEF Ended
  <2>2. live' # Torn /\ live' \notin Logins
    BY <1>1, NobodyNamed DEF Torn, NoLogin
  <2> QED BY <2>1, <2>2 DEF SlotHolds
<1>6. pc = "holds" => StillParked(run.to)'
  BY <1>1 DEF Slot, SlotSafe, StillParked, process
<1> QED BY <1>1, <1>2, <1>3, <1>4, <1>5, <1>6, OutsideKeeps

\* A sign-in ends the login it writes over, and gives its account another.
LEMMA OutsideSignInKeeps ==
  ASSUME Guarded, Basis', Reliable, NEW a \in Accounts, OutsideSignIn(a)
  PROVE  Guarded'
<1> USE DEF Guarded, Basis
<1>1. /\ toolLock # "pitboard" /\ Issues(a) /\ live' = Fresh(a) /\ Locking
      /\ usable' = usable \cup {Fresh(a)}
      /\ UNCHANGED <<vault, index, journal, listed, clock, sess, process>>
      /\ taken' = (taken \cup Ended(live)) \ {a}
  BY DEF OutsideSignIn, Revoked, Reliable
<1>2. /\ Fresh(a) \in Logins /\ Account(Fresh(a)) = a /\ ~Known(Fresh(a), issued)
      /\ Known(Fresh(a), issued') /\ \A b \in Accounts : issued[b] <= issued'[b]
      /\ \A l \in Logins : Known(l, issued) => l # Fresh(a) /\ Known(l, issued')
  BY <1>1, FreshUnknown
<1>3. Signed(a)'
  BY <1>1, <1>2 DEF Signed
<1>4. \A b \in Accounts : Safe(b) => Safe(b)'
  BY <1>1, <1>3, EndedSafe DEF Safe
<1>5. \A b \in Accounts :
        Safe(b)' \/ \A l \in Logins : Account(l) = b => (l \in usable' <=> l \in usable)
  BY <1>1, <1>2, <1>3 DEF Safe
<1>6. SessionTraced' /\ Known(live', issued')
  <2>1. sess # NoRenewal => Known(sess.sent, issued') /\ Known(sess.fresh, issued')
                              /\ sess.sent # Fresh(a)
    BY <1>2 DEF Traced, SessionTraced
  <2> QED BY <1>1, <1>2, <2>1 DEF SessionTraced, Traced, Unsaved, process
<1>7. SlotHolds'
  <2>1. pc' \notin Writing
    BY <1>1 DEF Locked, process
  <2>2. live' # Torn
    BY <1>1, <1>2, NobodyNamed
  <2> QED BY <1>1, <1>2, <2>1, <2>2 DEF SlotHolds
<1>8. \A b \in Accounts : mem.parked[b].login # live' /\ run.fresh[b] # live'
  BY <1>1, FreshUnheld
<1>9. pc # "holds"
  BY <1>1 DEF Locked
<1> QED BY <1>1, <1>2, <1>4, <1>5, <1>6, <1>7, <1>8, <1>9, OutsideKeeps

\* A login the service takes no more is its account's to answer for.
LEMMA ServiceRefusesKeeps ==
  ASSUME Guarded, Basis', Reliable, NEW l \in Logins, ServiceRefuses(l)
  PROVE  Guarded'
<1> USE DEF Guarded, Basis
<1>1. /\ l \in usable /\ usable' = usable \ {l} /\ Locking
      /\ UNCHANGED <<live, vault, index, journal, listed, clock, process, issued, sess>>
      /\ taken' = taken \cup Ended(l)
  BY DEF ServiceRefuses, disk, Reliable
<1>2. Account(l) \in Accounts /\ Account(l) \in taken'
  BY <1>1 DEF Account, Logins, Ended
<1>3. \A b \in Accounts : Safe(b) => Safe(b)'
  BY <1>1, <1>2 DEF Safe, Signed, Renewing, SavesOver
<1>4. \A b \in Accounts :
        Safe(b)' \/ \A k \in Logins : Account(k) = b => (k \in usable' <=> k \in usable)
  BY <1>1, <1>2 DEF Safe
<1>5. SessionTraced' /\ Known(live', issued')
  BY <1>1 DEF SessionTraced, Traced, Unsaved, process
<1>6. SlotHolds'
  <2>1. live' \in Logins =>
          live' \in usable' \/ Renewing(Account(live))' \/ Account(live') \in taken'
    BY <1>1, <1>2 DEF Slot, SlotHolds, Renewing, SavesOver, Traced, SessionTraced, NoRenewal
  <2>2. pc' \in Writing /\ run'.before \in Logins =>
          Account(run'.before) \in taken' \/ (live' = run'.before /\ live' \in usable')
    BY <1>1, <1>2 DEF Slot, SlotHolds, process
  <2>3. live' = Torn /\ journal' # NoJournal =>
          /\ journal'.to \in index'.enrolled
          /\ vault'[journal'.incoming] \in usable' \cup {NoLogin} \/ journal'.to \in taken'
    <3> SUFFICES ASSUME live = Torn, journal # NoJournal, journal.to \notin taken,
                        vault[journal.incoming] = l
                 PROVE  Account(l) = journal.to
      BY <1>1, <1>2 DEF Slot, SlotHolds
    <3>1. journal.incoming \in Names /\ journal.incoming[1] = journal.to /\ l # NoLogin
      BY NobodyNamed DEF Inv, DiskTrue, JournalTrue, Traced, JournalTraced
    <3> QED BY <3>1 DEF Inv, DiskTrue, VaultTrue
  <2> QED BY <2>1, <2>2, <2>3 DEF SlotHolds
<1>7. \A b \in Accounts : issued[b] <= issued'[b]
  <2>1. \A b \in Accounts : issued[b] \in Nat
    BY SwitchBounds DEF Inv, DiskTrue, WorldOK
  <2> QED BY <1>1, <2>1
<1>8. pc = "holds" => StillParked(run.to)'
  <2> SUFFICES ASSUME pc = "holds", run.to \notin taken' PROVE StillParked(run.to)'
    BY <1>1 DEF StillParked, process
  <2>1. run.to \in Accounts /\ run.to # Account(l)
    BY <1>2 DEF Inv, RunTrue, Bound, Changing
  <2>2. PICK a \in Accounts : a = run.to
    BY <2>1
  <2>3. run.fresh[a] = NoLogin
    BY NoAnswers DEF Asking
  <2>4. Stored(index, mem, a, NoLogin, listed, vault, usable)
    BY <1>1, <2>2 DEF Slot, SlotSafe, StillParked
  <2>5. Alike(a)
    BY <1>1, <2>1, <2>2 DEF Alike, process
  <2>6. IndexTrue(index, vault, clock) /\ IndexTrue(mem, vault, clock)
    BY DEF Inv, DiskTrue, RunTrue
  <2>7. Stored(index, mem, a, run'.fresh[a], listed', vault', usable')
    BY <2>3, <2>4, <2>5, <2>6, AlikeStored
  <2> QED BY <1>1, <2>2, <2>3, <2>7 DEF StillParked, process
<1> QED BY <1>1, <1>3, <1>4, <1>5, <1>6, <1>7, <1>8, OutsideKeeps

\* What is done outside the process, one by one.
LEMMA WorldKeeps ==
  ASSUME Guarded, Basis', Reliable, World
  PROVE  Guarded'
BY SessionSendsKeeps, SessionSavesKeeps, LogOutKeeps, OutsideSignInKeeps, ServiceRefusesKeeps DEF World

-----------------------------------------------------------------------------
(* Settling. *)

\* A login in the slot is its account's, and its account is safe.
LEMMA SlotIsSafe ==
  ASSUME SlotHolds, live \in Logins
  PROVE  Safe(Account(live)) /\ Account(live) \in Accounts
BY DEF SlotHolds, Safe, Signed, Account, Logins

\* The slot is read for whose the login in it is: one of the journal's, or one the service
\* names, so that it is a login wherever one was parked.
LEMMA ReconcileReadKeeps ==
  ASSUME Guarded, Basis', Reliable, ReconcileRead
  PROVE  Guarded'
<1>0. Inv /\ SlotHolds /\ Traced /\ StagedSettling
  BY DEF Guarded, Basis, Slot, Staged
<1>1. /\ pc = "reconcile" /\ pc' = "repair" /\ journal # NoJournal /\ run' = [run EXCEPT !.seen = live]
      /\ Tells(journal, live) \/ live \in Logins
      /\ Plain /\ index' = index /\ mem' = mem /\ journal' = journal
  BY DEF ReconcileRead, Goes, Plain, disk, service
<1>2. /\ run'.seen = live /\ run'.before = run.before /\ run'.fresh = run.fresh
      /\ run'.park = run.park /\ run'.cmd = run.cmd /\ run'.next = run.next
  BY <1>0, <1>1 DEF Inv, RunTrue, Runs
<1>3. Traced' /\ Secure' /\ SlotHolds' /\ JournalBacked' /\ \A a : Safe(a) => Safe(a)'
  BY <1>1, <1>2, QuietStep DEF RunKept, Writing
<1>4. Answers'
  BY <1>1, NoAnswersNext DEF Asking
<1>5. journal.park # NoName => live \in Logins
  BY <1>0, <1>1 DEF Tells, Replaces, Traced, JournalTraced, Inv, DiskTrue, JournalTrue
<1>6. Staged'
  BY <1>0, <1>1, <1>2, <1>5 DEF Staged, StagedSettling, StagedNames, StagedChange, Unjournaled, Swept,
                                Asking, Changing, Writing, Knowing
<1>7. SlotSafe' /\ SlotTwins'
  BY <1>0, <1>1, <1>2, <1>3, SlotIsSafe DEF SlotSafe, SlotTwins, TwinFree, Changing, Asking, Plain
<1> QED BY <1>3, <1>4, <1>6, <1>7 DEF Slot, Guarded

\* With no journal, or the journal settled, the list is what is left to look at.
LEMMA ReconcileNothingKeeps ==
  ASSUME Guarded, Basis', Reliable, ReconcileNothing \/ ClearRepaired
  PROVE  Guarded'
<1>0. Inv /\ StagedSettling
  BY DEF Guarded, Basis, Staged
<1>1. /\ pc \in {"reconcile", "clearRepaired"} /\ pc' = "sweep" /\ journal' = NoJournal
      /\ run' = [run EXCEPT !.todo = listed, !.keep = {}, !.seen = NoLogin]
      /\ Plain /\ index' = index /\ mem' = mem
  BY DEF ReconcileNothing, ClearRepaired, ClearJournal, Fault, Reliable, ToSweep, Goes, Plain, disk, service
<1>2. /\ run'.seen = NoLogin /\ run'.before = run.before /\ run'.fresh = run.fresh
      /\ run'.keep = {} /\ run'.cmd = run.cmd /\ run'.next = run.next
  BY <1>0, <1>1 DEF Inv, RunTrue, Runs
<1>3. Traced' /\ Secure' /\ SlotHolds' /\ JournalBacked' /\ \A a : Safe(a) => Safe(a)'
  BY <1>1, <1>2, QuietStep DEF RunKept, Writing
<1>4. Answers'
  BY <1>1, NoAnswersNext DEF Asking
<1>5. mem' = index'
  BY <1>0, <1>1 DEF StagedSettling
<1>6. Staged'
  BY <1>1, <1>2, <1>5 DEF Staged, StagedSettling, StagedNames, StagedChange, Unjournaled, Swept,
                          Asking, Changing, Writing, Knowing
<1>7. SlotSafe' /\ SlotTwins'
  BY <1>1 DEF SlotSafe, SlotTwins, TwinFree, Changing, Asking
<1> QED BY <1>3, <1>4, <1>6, <1>7 DEF Slot, Guarded

\* A journal nobody can tell the end of is left, with everything it names.
LEMMA UndeterminedKeeps ==
  ASSUME Guarded, Basis', Undetermined
  PROVE  Guarded'
<1>1. pc = "reconcile" /\ (Refuses \/ \E op \in Operations : Breaks(op))
  BY DEF Undetermined, Operations
<1>2. \A a \in Accounts : run.fresh[a] = NoLogin
  BY <1>1, NoAnswers DEF Guarded, Basis, Asking
<1> QED BY <1>1, <1>2, RefusesKeeps

\* A slot written whole again holds the login going in.
LEMMA ReconcileTornKeeps ==
  ASSUME Guarded, Basis', Reliable, ReconcileTorn
  PROVE  Guarded'
<1>0. Inv /\ SlotHolds /\ Traced /\ StagedSettling /\ Locked /\ Secure /\ JournalBacked /\ Locking
  BY DEF Guarded, Basis, Slot, Staged, Reliable
<1>1. /\ pc = "reconcile" /\ pc' = "reconcile" /\ journal # NoJournal /\ live = Torn
      /\ live' = vault[journal.incoming] /\ live' # NoLogin /\ toolLock # "session"
      /\ UNCHANGED <<vault, index, journal, listed, clock, usable, issued, sess, mem, run, taken>>
  BY DEF ReconcileTorn, Goes, service
<1>2. sess = NoRenewal
  BY <1>0, <1>1 DEF Locked
<1>3. /\ journal.incoming \in Names /\ journal.incoming[1] = journal.to
      /\ live' \in Logins /\ Account(live') = journal.to
  BY <1>0, <1>1 DEF Inv, DiskTrue, JournalTrue, VaultTrue, Traced, JournalTraced
<1>4. Known(live', issued)
  BY <1>0, <1>1, <1>3 DEF Traced
<1>5. Makes(mem) /\ \A a \in Accounts : Spares(mem, mem, a)
  BY <1>0, <1>1, MakesMem
<1>6. Traced'
  <2>1. clock \in Nat /\ JournalTraced(journal, clock)
    BY <1>0, SwitchBounds DEF Inv, DiskTrue, ListTrue, Traced
  <2> QED BY <1>0, <1>1, <1>4, <1>5, <2>1, TracedOver DEF RunKept
<1>7. \A a : Safe(a) => Safe(a)'
  <2>1. \A a : ~Signed(a) /\ ~Renewing(a)
    BY <1>0, <1>1, <1>2, NoneRenewing, NobodyNamed DEF Signed, Inv, DiskTrue, WorldOK
  <2> QED BY <1>1, <2>1 DEF Safe
<1>8. Secure'
  <2>1. \A a \in Accounts : Alike(a)
    BY <1>1 DEF Alike
  <2> QED BY <1>0, <1>5, <1>7, <2>1, SecureSaves DEF Makes
<1>9. SlotHolds'
  BY <1>0, <1>1, <1>3, NobodyNamed DEF SlotHolds, Writing
<1>10. JournalBacked'
  BY <1>0, <1>1, <1>7 DEF JournalBacked
<1>11. Answers'
  BY <1>1, NoAnswersNext DEF Asking
<1>12. Staged'
  BY <1>0, <1>1 DEF Staged, StagedSettling, StagedNames, StagedChange, Unjournaled, Swept,
                    Asking, Changing, Writing, Knowing
<1>13. SlotSafe' /\ SlotTwins'
  BY <1>1 DEF SlotSafe, SlotTwins, TwinFree, Changing, Asking
<1> QED BY <1>6, <1>8, <1>9, <1>10, <1>11, <1>12, <1>13 DEF Slot, Guarded

\* What finishing or undoing a change lets go of is of accounts that are safe.
LEMMA RepairKeeps ==
  ASSUME Guarded, Basis', Reliable, Repair
  PROVE  Guarded'
<1>0. Inv /\ Traced /\ StagedSettling /\ JournalBacked /\ SlotSafe
  BY DEF Guarded, Basis, Slot, Staged
<1>1. pc = "repair"
  BY DEF Repair
<1>2. \A a \in Accounts : run.fresh[a] = NoLogin
  BY <1>0, <1>1, NoAnswers DEF Asking
<1>3. CASE Breaks("save")
  BY <1>2, <1>3, RefusesKeeps DEF Operations
<1>4. CASE /\ Saves(Repaired(mem, journal, OwnerOf(journal, run.seen), run.seen))
           /\ Goes("clearRepaired")
           /\ UNCHANGED <<live, vault, journal, listed, clock, service, run, taken, crashes, outside>>
  <2>1. PICK iy : /\ iy = Repaired(mem, journal, OwnerOf(journal, run.seen), run.seen)
                  /\ index' = iy /\ mem' = iy
    BY <1>4 DEF Saves
  <2>2. pc' = "clearRepaired" /\ run' = run /\ journal' = journal /\ Plain
    BY <1>4 DEF Goes, Plain, service
  <2>3. /\ run.seen \in Logins \cup {NoLogin} /\ IndexTrue(mem, vault, clock) /\ Enrolls(mem)
        /\ VaultTrue /\ clock \in Nat /\ JournalTrue(journal, clock) /\ journal # NoJournal
        /\ JournalTraced(journal, clock) /\ mem = index
        /\ journal.park # NoName => run.seen \in Logins
    BY <1>0, <1>1, SwitchBounds DEF Inv, RunTrue, Settling, Runs, DiskTrue, ListTrue, Traced, IndexKnown,
                      Enrolls, StagedSettling
  <2>4. /\ Follows(mem, iy, vault, clock) /\ iy.enrolled = mem.enrolled
        /\ \A a \in Accounts :
              \/ Spares(mem, iy, a)
              \/ run.seen \in Logins /\ a = Account(run.seen)
              \/ /\ journal.park # NoName /\ a = journal.from
                 /\ mem.parked[a].name # journal.park
    BY <2>1, <2>3, RepairedFollows
  <2>5. Makes(iy)
    BY <2>1, <2>2, <2>4 DEF Makes, Basis, Inv, DiskTrue, Plain
  <2>6. \A a \in Accounts : Spares(mem, iy, a) \/ Safe(a)
    BY <1>0, <1>1, <2>3, <2>4 DEF SlotSafe, JournalBacked
  <2>7. Traced' /\ Secure' /\ SlotHolds' /\ JournalBacked' /\ \A a : Safe(a) => Safe(a)'
    BY <2>2, <2>4, <2>5, <2>6, PlainStep DEF RunKept, Writing
  <2>8. Answers'
    BY <2>2, NoAnswersNext DEF Asking
  <2>9. Staged'
    BY <2>1, <2>2 DEF Staged, StagedSettling, StagedNames, StagedChange, Unjournaled, Swept,
                      Asking, Changing, Writing, Knowing
  <2>10. SlotSafe' /\ SlotTwins'
    BY <2>2 DEF SlotSafe, SlotTwins, TwinFree, Changing, Asking
  <2> QED BY <2>7, <2>8, <2>9, <2>10 DEF Slot, Guarded
<1> QED BY <1>3, <1>4 DEF Repair

\* With fewer items offered, and those of login x as they were, x is still the newest.
LEMMA NewestTrims ==
  ASSUME NEW ix, NEW iy, NEW a, NEW x, NEW li, NEW lj, NEW v, NEW w, NEW us,
         Newest(ix, a, x, li, v, us), Offers(iy, a, lj, w) \subseteq Offers(ix, a, li, v),
         \A p \in Offers(iy, a, lj, w) : p.login = x => w[p.name] = x /\ p.name \notin iy.discarded
  PROVE  Newest(iy, a, x, lj, w, us)
BY DEF Newest

\* An item a sweep gives back leaves its account's login offered: it is that login, or
\* the account has it nowhere else.
LEMMA GivenBackStored ==
  ASSUME Inv, NEW ix, NEW iy, NEW n \in Names, NEW a \in Accounts, a = n[1], n \in listed,
         IndexTrue(ix, vault, clock), IndexTrue(mem, vault, clock),
         NEW p, p = [name |-> n, login |-> vault[n]], vault[n] # NoLogin,
         ~IndexNames(mem, n), GivesBack(mem, n, live),
         iy.parked[a] = p,
         iy.discarded \in {mem.discarded, mem.discarded \cup {mem.parked[a].name}},
         Stored(ix, mem, a, NoLogin, listed, vault, usable)
  PROVE  Stored(ix, iy, a, NoLogin, listed, vault, usable)
<1> DEFINE held == mem.parked[a]
<1>1. PICK x \in Logins : Firm(ix, mem, a, x, listed, vault, usable) /\ Both(ix, mem, a, x, listed, vault)
  BY DEF Stored
<1>2. held = NoPark \/ (held.login # vault[n] /\ n[2] >= held.name[2])
  BY DEF GivesBack
<1>3. p \in Parks /\ p.name = n /\ p.login = vault[n]
  BY DEF Inv, DiskTrue, VaultTrue, Parks
<1>4. p \in Offers(mem, a, listed, vault)
  BY <1>3 DEF Offers, IndexNames
<1>5. held # NoPark => held \in Offers(mem, a, listed, vault) /\ held.name \in Names /\ held.login \in Logins
  BY DEF IndexTrue, ParkOK, Offers, Parks
<1>6. held.login # x
  <2> SUFFICES ASSUME held.login = x PROVE FALSE
    OBVIOUS
  <2>1. held # NoPark
    BY NobodyNamed DEF NoPark
  <2>2. n[2] < held.name[2]
    BY <1>1, <1>2, <1>3, <1>4, <1>5, <2>1 DEF Firm, Newest
  <2> QED BY <1>2, <1>5, <2>1, <2>2, SwitchBounds DEF Names
<1>7. \A q \in Offers(mem, a, listed, vault) : q.login = x => q.name # held.name /\ vault[q.name] = x
                                                 /\ q.name \notin mem.discarded
  <2> SUFFICES ASSUME NEW q \in Offers(mem, a, listed, vault), q.login = x
               PROVE  q.name # held.name /\ vault[q.name] = x /\ q.name \notin mem.discarded
    OBVIOUS
  <2>1. vault[q.name] = x /\ q.name \notin mem.discarded
    BY <1>1 DEF Firm, Newest
  <2>2. q.name \in Names
    BY DEF Offers, Parks
  <2>3. held # NoPark => vault[held.name] \in {held.login, NoLogin}
    BY DEF IndexTrue, ParkOK
  <2> QED BY <1>6, <2>1, <2>2, <2>3, NobodyNamed DEF NoPark
<1> HIDE DEF held
<1>8. Offers(iy, a, listed, vault) \subseteq Offers(mem, a, listed, vault)
  BY <1>4 DEF Offers
<1>9. Newest(iy, a, x, listed, vault, usable)
  BY <1>1, <1>7, <1>8, NewestTrims DEF Firm, held
<1>10. Firm(ix, iy, a, x, listed, vault, usable)
  BY <1>1, <1>6, <1>9 DEF Firm, held
<1>11. Both(ix, iy, a, x, listed, vault)
  <2>1. PICK m \in Names : [name |-> m, login |-> x] \in Offers(ix, a, listed, vault)
                                                          \cap Offers(mem, a, listed, vault)
    BY <1>1 DEF Both
  <2>2. m # held.name /\ vault[m] = x /\ m \notin mem.discarded /\ m[1] = a
    BY <1>7, <2>1 DEF Offers
  <2>3. m \in listed
    BY <1>6, <2>1 DEF Offers, held
  <2>4. [name |-> m, login |-> x] \in Offers(iy, a, listed, vault)
    BY <2>1, <2>2, <2>3 DEF Offers, held
  <2> QED BY <2>1, <2>4 DEF Both
<1> QED BY <1>10, <1>11 DEF Stored

\* An item a sweep discards was not the only one of its account's login.
LEMMA SweptStored ==
  ASSUME Inv, NEW ix, NEW iy, NEW n \in Names, NEW a \in Accounts, a = n[1], n \in listed,
         IndexTrue(ix, vault, clock), IndexTrue(mem, vault, clock), Locking,
         vault[n] # NoLogin, a \in mem.enrolled,
         ~IndexNames(mem, n), ~GivesBack(mem, n, live),
         iy.parked[a] = mem.parked[a], iy.discarded = mem.discarded \cup {n},
         \/ mem.parked[a] = ix.parked[a]
         \/ /\ mem.parked[a].name \in listed \ ix.discarded
            /\ vault[mem.parked[a].name] = mem.parked[a].login,
         Stored(ix, mem, a, NoLogin, listed, vault, usable)
  PROVE  Stored(ix, iy, a, NoLogin, listed, vault, usable)
<1> DEFINE held == mem.parked[a]
<1>1. PICK x \in Logins : Firm(ix, mem, a, x, listed, vault, usable) /\ Both(ix, mem, a, x, listed, vault)
  BY DEF Stored
<1>2. held # NoPark /\ (held.login = vault[n] \/ ~(n[2] >= held.name[2]))
  BY DEF GivesBack, LiveTwin
<1>3. /\ held \in Parks /\ held.name \in Names /\ held.name[1] = a /\ held.name # n
      /\ held = [name |-> held.name, login |-> held.login]
  BY <1>2 DEF IndexTrue, ParkOK, Parks, IndexNames, References
<1>4. held \in Offers(mem, a, listed, vault) /\ held \in Offers(iy, a, listed, vault)
      /\ held \in Offers(ix, a, listed, vault)
  BY <1>3 DEF Offers
<1> HIDE DEF held
<1>5. Offers(iy, a, listed, vault) \subseteq Offers(mem, a, listed, vault)
      /\ \A p \in Offers(iy, a, listed, vault) : p.name # n
  BY <1>3 DEF Offers, held
<1>6. \A p \in Offers(mem, a, listed, vault) : p.login = x => vault[p.name] = x /\ p.name \notin mem.discarded
  BY <1>1 DEF Firm, Newest
<1>7. Newest(iy, a, x, listed, vault, usable)
  BY <1>1, <1>5, <1>6, NewestTrims DEF Firm
<1>8. Firm(ix, iy, a, x, listed, vault, usable)
  BY <1>1, <1>7 DEF Firm
<1>9. Both(ix, iy, a, x, listed, vault)
  <2>1. PICK m \in Names : [name |-> m, login |-> x] \in Offers(ix, a, listed, vault)
                                                          \cap Offers(mem, a, listed, vault)
    BY <1>1 DEF Both
  <2>2. CASE m # n
    <3>1. [name |-> m, login |-> x] \in Offers(iy, a, listed, vault)
      BY <2>1, <2>2 DEF Offers
    <3> QED BY <2>1, <3>1 DEF Both
  <2>3. CASE m = n
    <3>1. vault[n] = x
      BY <1>6, <2>1, <2>3
    <3>2. held.login = x
      <4> SUFFICES ASSUME held.login # x PROVE FALSE
        OBVIOUS
      <4>1. ~(n[2] >= held.name[2])
        BY <1>2, <3>1
      <4>2. held.name[2] < n[2]
        BY <1>1, <1>4, <2>1, <2>3 DEF Firm, Newest
      <4> QED BY <1>3, <4>1, <4>2, SwitchBounds DEF Names
    <3> QED BY <1>3, <1>4, <3>2 DEF Both
  <2> QED BY <2>2, <2>3
<1> QED BY <1>8, <1>9 DEF Stored

\* One name of the list at a time is given back, or discarded.
LEMMA SweepKeeps ==
  ASSUME Guarded, Basis', Reliable, NEW n \in Names, Sweep(n)
  PROVE  Guarded'
<1>0. /\ Inv /\ Traced /\ StagedSettling /\ Secure /\ Locking
      /\ IndexTrue(mem, vault, clock) /\ IndexTrue(index, vault, clock) /\ clock \in Nat
      /\ Enrolls(mem) /\ mem.enrolled = index.enrolled
  BY SwitchBounds DEF Guarded, Basis, Staged, Reliable, Inv, DiskTrue, RunTrue, ListTrue, Traced, IndexKnown,
                      Enrolls
<1>1. /\ pc = "sweep" /\ pc' = "sweep" /\ n \in run.todo
      /\ Plain /\ index' = index /\ journal' = journal
      /\ run' = [run EXCEPT !.todo = @ \ {n}]
      /\ \/ mem' = mem
         \/ /\ ~IndexNames(mem, n) /\ vault[n] # NoLogin
            /\ mem' = IF GivesBack(mem, n, live)
                      THEN ParkFor(mem, n[1], [name |-> n, login |-> vault[n]])
                      ELSE Discard(mem, n)
  BY <1>0 DEF Sweep, Goes, Plain, disk, service, Earliest, TwinRead, Fault, Reliable
<1>2. /\ run'.seen = run.seen /\ run'.before = run.before /\ run'.fresh = run.fresh
      /\ run'.keep = run.keep /\ run'.cmd = run.cmd /\ run'.next = run.next
  BY <1>0, <1>1 DEF Inv, RunTrue, Runs
<1>3. /\ n \in listed /\ journal = NoJournal /\ run.keep = {} /\ n[1] \in Accounts
      /\ index.discarded \subseteq mem.discarded /\ n[2] <= clock
      /\ \A a \in Accounts :
            \/ mem.parked[a] = index.parked[a]
            \/ /\ mem.parked[a].name \in listed \ index.discarded
               /\ vault[mem.parked[a].name] = mem.parked[a].login
  BY <1>0, <1>1 DEF StagedSettling, Inv, RunTrue, Settling, Unjournaled, Names, DiskTrue, ListTrue
<1>4. \A a \in Accounts : run.fresh[a] = NoLogin
  BY <1>0, <1>1, NoAnswers DEF Asking
<1>5. PICK iy : iy = mem'
  OBVIOUS
<1>6. /\ Makes(iy) /\ iy.enrolled = mem.enrolled
      /\ \A a \in Accounts : \/ Spares(mem, iy, a) \/ Safe(a)
                             \/ Stored(index, iy, a, run.fresh[a], listed, vault, usable)
      /\ mem.discarded \subseteq iy.discarded
      /\ \A a \in Accounts : \/ iy.parked[a] = mem.parked[a]
                             \/ a = n[1] /\ iy.parked[a].name = n /\ vault[n] = iy.parked[a].login
                                  /\ n \notin mem.discarded
  <2>1. CASE mem' = mem
    BY <1>0, <1>1, <1>5, <2>1, MakesMem DEF Makes
  <2>2. CASE mem' # mem
    <3> DEFINE p == [name |-> n, login |-> vault[n]]
    <3>1. p.name = n /\ p.login = vault[n]
      OBVIOUS
    <3>2. ParkOK(n[1], p, vault, clock) /\ p = [name |-> n, login |-> vault[n]]
      BY <1>0, <1>1, <1>3, <2>2 DEF ParkOK, Parks, Inv, DiskTrue, VaultTrue
    <3>3. iy = IF GivesBack(mem, n, live) THEN ParkFor(mem, n[1], p) ELSE Discard(mem, n)
      BY <1>1, <1>5, <2>2
    <3> HIDE DEF p
    <3>4. PICK b \in Accounts : b = n[1]
      BY <1>3
    <3>5. \A a \in Accounts : ~Safe(a) => a \in mem.enrolled
                                          /\ Stored(index, mem, a, NoLogin, listed, vault, usable)
      BY <1>0, <1>4 DEF Secure, Safe
    <3>6. index' = index /\ mem' = iy /\ IndexTrue(iy, vault, clock)
      BY <1>1, <1>5 DEF Basis, Inv, RunTrue, Plain
    <3>7. CASE GivesBack(mem, n, live)
      <4>1. iy = ParkFor(mem, b, p) /\ b \in mem.enrolled /\ ParkOK(b, p, vault, clock) /\ vault[p.name] = p.login
        BY <3>1, <3>2, <3>3, <3>4, <3>7 DEF GivesBack
      <4>2. /\ Follows(mem, iy, vault, clock) /\ iy.enrolled = mem.enrolled /\ iy.parked[b] = p
            /\ iy.discarded \in {mem.discarded, mem.discarded \cup {mem.parked[b].name}}
            /\ \A a \in Accounts : a # b => Spares(mem, iy, a)
        <5>1. /\ Follows(mem, iy, vault, clock) /\ iy.enrolled = mem.enrolled
              /\ b \in mem.enrolled => iy.parked[b] = p
              /\ b \in mem.enrolled /\ mem.parked[b].name \in {NoName, p.name}
                    => iy.discarded = mem.discarded
              /\ b \in mem.enrolled /\ mem.parked[b].name \notin {NoName, p.name}
                    => iy.discarded = mem.discarded \cup {mem.parked[b].name}
              /\ \A a \in Accounts : a # b => Spares(mem, iy, a)
          BY <1>0, <4>1, ParkForFollows
        <5> QED BY <4>1, <5>1
      <4>3. ~Safe(b) => Stored(index, iy, b, NoLogin, listed, vault, usable)
        BY <1>0, <1>1, <1>3, <2>2, <3>2, <3>4, <3>5, <3>7, <4>2, GivenBackStored
      <4>4. n \notin mem.discarded
        BY <1>1, <2>2 DEF IndexNames
      <4> QED BY <1>4, <3>1, <3>4, <3>6, <4>2, <4>3, <4>4 DEF Makes, Spares
    <3>8. CASE ~GivesBack(mem, n, live)
      <4>1. iy = Discard(mem, n) /\ IndexTrue(mem, vault, clock) /\ Enrolls(mem) /\ n[2] <= clock
        BY <1>0, <1>3, <3>3, <3>8
      <4>2. /\ Follows(mem, iy, vault, clock) /\ iy.enrolled = mem.enrolled
            /\ iy.discarded = mem.discarded \cup {n}
            /\ \A a \in Accounts : mem.parked[a].name # n => iy.parked[a] = mem.parked[a]
            /\ \A a \in Accounts : a # n[1] => Spares(mem, iy, a)
        BY <4>1, DiscardFollows
      <4>3. \A a \in Accounts : iy.parked[a] = mem.parked[a]
        BY <1>1, <2>2, <4>2 DEF IndexNames, References
      <4>4. ~Safe(b) => Stored(index, iy, b, NoLogin, listed, vault, usable)
        BY <1>0, <1>1, <1>3, <2>2, <3>4, <3>5, <3>8, <4>2, <4>3, SweptStored
      <4> QED BY <1>4, <3>4, <3>6, <4>2, <4>3, <4>4 DEF Makes
    <3> QED BY <3>7, <3>8
  <2> QED BY <2>1, <2>2
<1>7. Traced' /\ Secure' /\ SlotHolds' /\ JournalBacked' /\ \A a : Safe(a) => Safe(a)'
  BY <1>1, <1>2, <1>3, <1>6, PlainStep DEF RunKept, Writing
<1>8. Answers'
  BY <1>1, NoAnswersNext DEF Asking
<1>9. Staged'
  <2>1. StagedSettling'
    BY <1>0, <1>1, <1>2, <1>3, <1>5, <1>6 DEF StagedSettling, Unjournaled, Swept, Asking, Plain
  <2> QED BY <1>1, <2>1 DEF Staged, StagedNames, StagedChange, Asking, Changing, Writing, Knowing
<1>10. SlotSafe' /\ SlotTwins'
  BY <1>1 DEF SlotSafe, SlotTwins, TwinFree, Changing, Asking
<1> QED BY <1>7, <1>8, <1>9, <1>10 DEF Slot, Guarded

\* What the sweep gave back or let go of is saved before the list is cut.
LEMMA SweepSaveKeeps ==
  ASSUME Guarded, Basis', SweepSave
  PROVE  Guarded'
<1>0. Inv /\ StagedSettling
  BY DEF Guarded, Basis, Staged
<1>1. pc = "sweep"
  BY DEF SweepSave
<1>2. \A a \in Accounts : run.fresh[a] = NoLogin
  BY <1>0, <1>1, NoAnswers DEF Asking
<1>3. CASE Breaks("save")
  BY <1>2, <1>3, RefusesKeeps DEF Operations
<1>4. CASE ~Breaks("save")
  <2>1. /\ pc' = "sweepList" /\ run' = run /\ index' = mem /\ mem' = mem /\ journal' = journal /\ Plain
    BY <1>4 DEF SweepSave, Saves, Goes, Plain, service
  <2>2. Traced' /\ Secure' /\ SlotHolds' /\ JournalBacked'
    BY <2>1, QuietStep DEF RunKept, Writing
  <2>3. Answers'
    BY <2>1, NoAnswersNext DEF Asking
  <2>4. Staged'
    BY <1>0, <1>1, <2>1 DEF Staged, StagedSettling, StagedNames, StagedChange, Unjournaled, Swept,
                            Asking, Changing, Writing, Knowing
  <2>5. SlotSafe' /\ SlotTwins'
    BY <2>1 DEF SlotSafe, SlotTwins, TwinFree, Changing, Asking
  <2> QED BY <2>2, <2>3, <2>4, <2>5 DEF Slot, Guarded
<1> QED BY <1>3, <1>4

\* Every name on the list that anything is stored under is recorded by now.
LEMMA SweepListKeeps ==
  ASSUME Guarded, Basis', Reliable, SweepList
  PROVE  Guarded'
<1>0. Inv /\ Found /\ Traced /\ StagedSettling /\ Secure /\ SlotHolds /\ JournalBacked
      /\ IndexTrue(mem, vault, clock)
  BY DEF Guarded, Basis, Staged, Slot, Inv, RunTrue
<1>1. pc = "sweepList" /\ mem = index /\ run.keep = {} /\ journal = NoJournal
  BY <1>0 DEF SweepList, StagedSettling, Unjournaled
<1>2. \A a \in Accounts : run.fresh[a] = NoLogin
  BY <1>0, <1>1, NoAnswers DEF Asking
<1>3. CASE Breaks("list")
  BY <1>2, <1>3, RefusesKeeps DEF Operations
<1>4. CASE ~Breaks("list")
  <2>1. /\ pc' = "twins" /\ run' = run /\ index' = index /\ mem' = mem /\ journal' = journal
        /\ listed' = {} /\ UNCHANGED <<live, vault, clock, usable, issued, sess, taken>>
    BY <1>1, <1>4 DEF SweepList, Goes, service
  <2>2. Makes(mem)
    BY <1>0, <2>1, MakesMem
  <2>3. Traced'
    <3>1. clock \in Nat /\ JournalTraced(journal, clock) /\ Known(live, issued)
      BY <1>0, SwitchBounds DEF Inv, DiskTrue, ListTrue, Traced
    <3> QED BY <1>0, <2>1, <2>2, <3>1, TracedOver DEF RunKept
  <2>4. \A a : Safe(a) => Safe(a)'
    BY <2>1, SafeStays
  <2>5. \A a \in Accounts : Offers(mem, a, {}, vault) = Offers(mem, a, listed, vault)
    <3> SUFFICES ASSUME NEW a \in Accounts, NEW p \in Offers(mem, a, listed, vault),
                        p.name \in listed \ mem.discarded, vault[p.name] = p.login
                 PROVE  mem.parked[a] = p
      BY DEF Offers
    <3>1. p \in Parks /\ p.name \in Names /\ p.login \in Logins /\ p.name[1] = a /\ p.login # NoLogin
      BY NobodyNamed DEF Offers, Parks
    <3>2. References(mem, p.name)
      BY <1>0, <1>1, <3>1 DEF Found, IndexNames
    <3>3. PICK b \in Accounts : mem.parked[b].name = p.name
      BY <3>2 DEF References
    <3>4. ParkOK(b, mem.parked[b], vault, clock)
      BY <1>0, <3>1, <3>3, NobodyNamed DEF IndexTrue, NoPark
    <3> QED BY <3>1, <3>3, <3>4 DEF ParkOK, Parks
  <2>6. Secure'
    <3> SUFFICES ASSUME NEW a \in Accounts, ~Safe(a)'
                 PROVE  Stored(mem, mem, a, NoLogin, {}, vault, usable)
      BY <1>1, <1>2, <2>1 DEF Secure
    <3>1. Stored(mem, mem, a, NoLogin, listed, vault, usable)
      BY <1>0, <1>1, <1>2, <2>4 DEF Secure
    <3> QED BY <2>5, <3>1 DEF Stored, Firm, Newest, Both
  <2>7. SlotHolds' /\ JournalBacked'
    BY <1>0, <1>1, <2>1 DEF SlotHolds, JournalBacked, Writing, Renewing, SavesOver
  <2>8. Answers'
    BY <2>1, NoAnswersNext DEF Asking
  <2>9. Staged'
    BY <1>0, <1>1, <2>1 DEF Staged, StagedSettling, StagedNames, StagedChange, Unjournaled, Swept,
                            Asking, Changing, Writing, Knowing
  <2>10. SlotSafe' /\ SlotTwins'
    BY <2>1 DEF SlotSafe, SlotTwins, TwinFree, Changing, Asking
  <2> QED BY <2>3, <2>6, <2>7, <2>8, <2>9, <2>10 DEF Slot, Guarded
<1> QED BY <1>3, <1>4

\* The slot is read for copies of its login in what is parked.
LEMMA FindTwinsKeeps ==
  ASSUME Guarded, Basis', Reliable, FindTwins
  PROVE  Guarded'
<1>0. Inv /\ StagedSettling /\ SlotHolds
  BY DEF Guarded, Basis, Staged, Slot
<1>1. /\ pc = "twins" /\ pc' = "dropTwins" /\ run' = [run EXCEPT !.seen = live, !.next = "entry"]
      /\ index' = index /\ mem' = mem /\ journal' = journal /\ Plain
  BY DEF FindTwins, Fault, Reliable, Goes, Plain, disk, service
<1>2. /\ run'.seen = live /\ run'.before = run.before /\ run'.fresh = run.fresh /\ run'.cmd = run.cmd
      /\ run'.next = "entry"
  BY <1>0, <1>1 DEF Inv, RunTrue, Runs
<1>3. Traced' /\ Secure' /\ SlotHolds' /\ JournalBacked' /\ \A a : Safe(a) => Safe(a)'
  BY <1>1, <1>2, QuietStep DEF RunKept, Writing
<1>4. Answers'
  BY <1>1, NoAnswersNext DEF Asking
<1>5. Staged'
  BY <1>0, <1>1, <1>2 DEF Staged, StagedSettling, StagedNames, StagedChange, Unjournaled, Swept,
                          Asking, Changing, Writing, Knowing, Plain
<1>6. SlotSafe' /\ SlotTwins'
  BY <1>0, <1>1, <1>2, <1>3, SlotIsSafe DEF SlotSafe, SlotTwins, TwinFree, Changing, Asking, Plain
<1> QED BY <1>3, <1>4, <1>5, <1>6 DEF Slot, Guarded

\* A renewal with nothing due goes on to the purge.
LEMMA NothingDueKeeps ==
  ASSUME Guarded, Basis', NothingDue
  PROVE  Guarded'
<1>0. Inv /\ StagedSettling
  BY DEF Guarded, Basis, Staged
<1>1. /\ pc = "twins" /\ pc' = "purge" /\ run.cmd = "renew" /\ run' = [run EXCEPT !.next = "idle"]
      /\ index' = index /\ mem' = mem /\ journal' = journal /\ Plain
  BY DEF NothingDue, Goes, Plain, disk, service
<1>2. /\ run'.seen = run.seen /\ run'.before = run.before /\ run'.fresh = run.fresh
      /\ run'.cmd = "renew" /\ run'.next = "idle"
  BY <1>0, <1>1 DEF Inv, RunTrue, Runs
<1>3. Traced' /\ Secure' /\ SlotHolds' /\ JournalBacked'
  BY <1>1, <1>2, QuietStep DEF RunKept, Writing
<1>4. Answers'
  BY <1>1, NoAnswersNext DEF Asking
<1>5. Staged'
  BY <1>0, <1>1, <1>2 DEF Staged, StagedSettling, StagedNames, StagedChange, Unjournaled, Swept,
                          Asking, Changing, Writing, Knowing, Plain
<1>6. SlotSafe' /\ SlotTwins'
  BY <1>1, <1>2 DEF SlotSafe, SlotTwins, TwinFree, Changing, Asking
<1> QED BY <1>3, <1>4, <1>5, <1>6 DEF Slot, Guarded

\* What is dropped are copies of the login the slot was read as holding.
LEMMA DropTwinsKeeps ==
  ASSUME Guarded, Basis', DropTwins
  PROVE  Guarded'
<1>0. Inv /\ Traced /\ StagedSettling /\ SlotSafe /\ SlotTwins
      /\ IndexTrue(mem, vault, clock) /\ Enrolls(mem)
  BY DEF Guarded, Basis, Staged, Slot, Inv, RunTrue, Traced, IndexKnown, Enrolls
<1>1. pc = "dropTwins" /\ journal = NoJournal
  BY <1>0 DEF DropTwins, StagedSettling, Unjournaled
<1>2. \A a \in Accounts : run.fresh[a] = NoLogin
  BY <1>0, <1>1, NoAnswers DEF Asking
<1>3. CASE Breaks("save")
  BY <1>2, <1>3, RefusesKeeps DEF Operations
<1>4. CASE ~Breaks("save")
  <2>1. PICK iy : iy = DiscardAll(mem, Twins(mem, run.seen))
    OBVIOUS
  <2>2. /\ index' \in {index, iy} /\ mem' = iy /\ journal' = journal /\ Plain
        /\ pc' = IF run.cmd = "renew" THEN "ask" ELSE "purge"
        /\ \E due \in SUBSET {a \in Accounts : iy.parked[a] # NoPark} :
              run' = [run EXCEPT !.due = due, !.seen = NoLogin]
    BY <1>4, <2>1 DEF DropTwins, Saves, SaveFails, Goes, Plain, service
  <2>3. /\ run'.seen = NoLogin /\ run'.before = run.before /\ run'.fresh = run.fresh
        /\ run'.cmd = run.cmd /\ run'.next = run.next /\ run'.refused = run.refused
    BY <1>0, <2>2 DEF Inv, RunTrue, Runs
  <2>4. /\ Follows(mem, iy, vault, clock) /\ iy.enrolled = mem.enrolled
        /\ \A a \in Accounts : iy.parked[a] \in {mem.parked[a], NoPark}
        /\ \A a \in Accounts : run.seen \in Logins => iy.parked[a].login # run.seen
        /\ \A a \in Accounts : Spares(mem, iy, a) \/ (run.seen \in Logins /\ a = Account(run.seen))
    BY <1>0, <2>1, DiscardAllFollows
  <2>5. Makes(iy)
    BY <2>2, <2>4 DEF Makes, Basis, Inv, RunTrue, Plain
  <2>6. \A a \in Accounts : Spares(mem, iy, a) \/ Safe(a)
    BY <1>0, <1>1, <2>4 DEF SlotSafe
  <2>7. Traced' /\ Secure' /\ SlotHolds' /\ JournalBacked' /\ \A a : Safe(a) => Safe(a)'
    BY <1>2, <2>2, <2>3, <2>4, <2>5, <2>6, PlainStep DEF RunKept, Writing
  <2>8. Answers'
    BY <1>2, <2>3 DEF Answers
  <2>9. Staged'
    <3>1. run'.refused = {}
      BY <1>0, <1>1, <2>3 DEF Inv, RunTrue, Asked, Asking
    <3> QED BY <1>0, <1>1, <2>2, <2>3, <3>1 DEF Staged, StagedSettling, StagedNames, StagedChange, Unjournaled, Swept,
                              Asking, Changing, Writing, Knowing, Plain
  <2>10. SlotSafe'
    BY <2>2 DEF SlotSafe, Changing
  <2>11. SlotTwins'
    <3> SUFFICES ASSUME NEW a \in Accounts, live \in Logins
                 PROVE  iy.parked[a].login # live /\ run.fresh[a] # live
      BY <2>2, <2>3 DEF SlotTwins, Plain
    <3>1. iy.parked[a].login = live => mem.parked[a].login = live
      BY <2>4, NobodyNamed DEF NoPark
    <3> QED BY <1>0, <1>1, <1>2, <2>4, <3>1, NobodyNamed DEF SlotTwins
  <2> QED BY <2>7, <2>8, <2>9, <2>10, <2>11 DEF Slot, Guarded
<1> QED BY <1>3, <1>4

\* Where a purge goes on to.
LEMMA AfterPurgeGoes ==
  ASSUME Guarded, Basis', pc \in {"purge", "purgeSave"}, NEW ix, ix.parked = mem.parked, AfterPurge(ix),
         UNCHANGED <<live, journal, listed>>
  PROVE  /\ Answers' /\ Staged' /\ SlotSafe' /\ SlotTwins'
         /\ RunKept /\ pc' \notin Writing /\ mem' \in {ix, index'}
         /\ \A a \in Accounts : run'.fresh[a] = run.fresh[a]
<1>0. Inv /\ StagedSettling /\ SlotTwins
  BY DEF Guarded, Basis, Staged, Slot
<1>1. \A a \in Accounts : run.fresh[a] = NoLogin
  BY <1>0, NoAnswers DEF Asking
<1>2. \/ pc' = "clear" /\ run' = run /\ mem' = ix
      \/ /\ pc' = "identify" /\ run.next = "entry" /\ run.cmd # "renew" /\ mem' = ix
         /\ run' = [run EXCEPT !.next = "idle"]
      \/ pc' = "idle" /\ run' = NoRun /\ mem' = index'
  BY DEF AfterPurge, Goes, Ends
<1>3. Answers' /\ \A a \in Accounts : run'.fresh[a] = NoLogin
  BY <1>2, NoAnswersNext DEF Asking
<1>4. /\ run'.seen \in {run.seen, NoLogin} /\ run'.before \in {run.before, NoLogin}
      /\ pc' = "identify" => run'.next = "idle"
  BY <1>0, <1>2 DEF Inv, RunTrue, Runs, NoRun
<1>5. Staged'
  BY <1>0, <1>2, <1>4 DEF Staged, StagedSettling, StagedNames, StagedChange, Unjournaled, Swept,
                          Asking, Changing, Writing, Knowing
<1>6. SlotSafe'
  BY <1>2 DEF SlotSafe, Changing
<1>7. SlotTwins'
  BY <1>0, <1>2, <1>3, NobodyNamed DEF SlotTwins, TwinFree, Asking
<1> QED BY <1>1, <1>2, <1>3, <1>4, <1>5, <1>6, <1>7 DEF RunKept, Writing

\* What was deleted is recorded as deleted.
LEMMA PurgeSaveKeeps ==
  ASSUME Guarded, Basis', PurgeSave
  PROVE  Guarded'
<1>1. /\ pc = "purgeSave" /\ index' \in {mem, index} /\ AfterPurge(mem)
      /\ journal' = journal /\ listed' = listed /\ Plain
  BY DEF PurgeSave, SaveFails, Plain, service
<1>2. live' = live
  BY <1>1 DEF Plain
<1>3. /\ Answers' /\ Staged' /\ SlotSafe' /\ SlotTwins'
      /\ RunKept /\ pc' \notin Writing /\ mem' \in {mem, index'}
      /\ \A a \in Accounts : run'.fresh[a] = run.fresh[a]
  BY <1>1, <1>2, AfterPurgeGoes
<1>4. Traced' /\ Secure' /\ SlotHolds' /\ JournalBacked'
  BY <1>1, <1>3, QuietStep
<1> QED BY <1>3, <1>4 DEF Slot, Guarded

\* Deleting what is listed for it leaves an account's login offered.
LEMMA PurgedStored ==
  ASSUME Inv, NEW a \in Accounts, IndexTrue(index, vault, clock), IndexTrue(mem, vault, clock),
         NEW kept \in SUBSET mem.discarded, NEW left, left.parked = mem.parked, left.discarded = kept,
         NEW w, \A n \in Names : w[n] = IF n \in mem.discarded \ kept THEN NoLogin ELSE vault[n],
         NEW f, Stored(index, mem, a, f, listed, vault, usable)
  PROVE  Stored(index, left, a, f, listed, w, usable)
<1>1. \A n \in Names : w[n] = IF n \in mem.discarded \ kept THEN NoLogin ELSE vault[n]
  OBVIOUS
<1>2. \A p \in Parks : p.name \in Names /\ p.login # NoLogin
  BY NobodyNamed DEF Parks
<1>3. /\ Offers(index, a, listed, w) \subseteq Offers(index, a, listed, vault)
      /\ Offers(left, a, listed, w) \subseteq Offers(mem, a, listed, vault)
  BY <1>1, <1>2 DEF Offers
<1>4. ASSUME NEW x, Firm(index, mem, a, x, listed, vault, usable)
      PROVE  Firm(index, left, a, x, listed, w, usable)
  <2>1. \A p \in Offers(mem, a, listed, vault) : p.login = x =>
           w[p.name] = x /\ p.name \notin left.discarded
    BY <1>1, <1>2, <1>4 DEF Firm, Newest, Offers
  <2>2. \A p \in Offers(index, a, listed, w) : p.login = x =>
           w[p.name] = x /\ p.name \notin index.discarded
    <3> SUFFICES ASSUME NEW p \in Offers(index, a, listed, w), p.login = x
                 PROVE  w[p.name] = x /\ p.name \notin index.discarded
      OBVIOUS
    <3>1. p.name \notin index.discarded
      BY <1>3, <1>4 DEF Firm, Newest
    <3>2. CASE w[p.name] = p.login
      BY <3>1, <3>2
    <3>3. CASE index.parked[a] = p
      <4>1. p \in Offers(mem, a, listed, vault)
        BY <1>4, <3>3 DEF Firm, Offers
      <4> QED BY <2>1, <3>1, <4>1
    <3> QED BY <3>2, <3>3 DEF Offers
  <2>3. Newest(index, a, x, listed, w, usable) /\ Newest(left, a, x, listed, w, usable)
    BY <1>3, <1>4, <2>1, <2>2, NewestTrims DEF Firm
  <2> QED BY <1>4, <2>3 DEF Firm
<1>5. ASSUME NEW x, Firm(index, mem, a, x, listed, vault, usable), Both(index, mem, a, x, listed, vault)
      PROVE  Both(index, left, a, x, listed, w)
  <2>1. PICK n \in Names : [name |-> n, login |-> x] \in Offers(index, a, listed, vault)
                                                          \cap Offers(mem, a, listed, vault)
    BY <1>5 DEF Both
  <2>2. n \notin mem.discarded /\ vault[n] = x
    BY <1>5, <2>1 DEF Firm, Newest
  <2>3. w[n] = x
    BY <1>1, <2>2
  <2>4. [name |-> n, login |-> x] \in Offers(index, a, listed, w) \cap Offers(left, a, listed, w)
    BY <2>1, <2>2, <2>3 DEF Offers
  <2> QED BY <2>4 DEF Both
<1> QED BY <1>4, <1>5 DEF Stored

\* What is listed to be deleted goes.
LEMMA PurgeKeeps ==
  ASSUME Guarded, Basis', Purge
  PROVE  Guarded'
<1>0. /\ Inv /\ Traced /\ StagedSettling /\ Secure /\ SlotHolds /\ JournalBacked /\ SlotTwins
      /\ IndexTrue(index, vault, clock) /\ IndexTrue(mem, vault, clock)
  BY DEF Guarded, Basis, Staged, Slot, Inv, DiskTrue, RunTrue
<1>1. PICK kept \in SUBSET mem.discarded :
        LET left == [mem EXCEPT !.discarded = kept]
        IN  /\ vault' = [n \in Names |-> IF n \in mem.discarded \ kept THEN NoLogin ELSE vault[n]]
            /\ IF left = mem THEN AfterPurge(mem)
               ELSE mem' = left /\ Goes("purgeSave") /\ UNCHANGED run
  BY DEF Purge
<1>2. PICK left : left = [mem EXCEPT !.discarded = kept]
  OBVIOUS
<1>3. /\ left.parked = mem.parked /\ left.discarded = kept /\ left.enrolled = mem.enrolled
      /\ \A n \in Names : vault'[n] = IF n \in mem.discarded \ kept THEN NoLogin ELSE vault[n]
  BY <1>0, <1>1, <1>2 DEF IndexTrue, Indexes
<1>4. /\ pc = "purge" /\ UNCHANGED <<live, index, journal, listed, clock, usable, issued, sess, taken>>
  BY DEF Purge, service
<1>5. /\ Answers' /\ Staged' /\ SlotSafe' /\ SlotTwins'
      /\ RunKept /\ pc' \notin Writing /\ mem' \in {left, index'}
      /\ \A a \in Accounts : run'.fresh[a] = run.fresh[a]
  <2>1. CASE left = mem
    <3>1. AfterPurge(left)
      BY <1>1, <1>2, <2>1
    <3> QED BY <1>3, <1>4, <3>1, AfterPurgeGoes
  <2>2. CASE left # mem
    <3>1. mem' = left /\ pc' = "purgeSave" /\ run' = run
      BY <1>1, <1>2, <2>2 DEF Goes
    <3>2. Answers' /\ \A a \in Accounts : run.fresh[a] = NoLogin
      BY <1>0, <1>4, <3>1, NoAnswers, NoAnswersNext DEF Asking
    <3>3. Staged'
      BY <1>0, <1>4, <3>1 DEF Staged, StagedSettling, StagedNames, StagedChange, Unjournaled, Swept,
                              Asking, Changing, Writing, Knowing
    <3>4. SlotSafe'
      BY <3>1 DEF SlotSafe, Changing
    <3>5. SlotTwins'
      BY <1>0, <1>3, <1>4, <3>1 DEF SlotTwins, TwinFree, Asking
    <3> QED BY <3>1, <3>2, <3>3, <3>4, <3>5 DEF RunKept, Writing
  <2> QED BY <2>1, <2>2
<1>6. \A a : Safe(a) => Safe(a)'
  BY <1>4, SafeStays
<1>7. Traced'
  <2>1. IndexKnown(index', issued', clock') /\ IndexKnown(mem', issued', clock')
    BY <1>0, <1>3, <1>4, <1>5 DEF Traced, IndexKnown
  <2>2. mem'.enrolled = index'.enrolled
    BY <1>0, <1>3, <1>4, <1>5 DEF Traced
  <2>3. \A n \in Names : vault'[n] # NoLogin => n[2] <= clock' /\ Known(vault'[n], issued')
    BY <1>0, <1>3, <1>4 DEF Traced
  <2>4. /\ Known(live', issued') /\ Known(run'.seen, issued') /\ Known(run'.before, issued')
        /\ \A a \in Accounts : Known(run'.fresh[a], issued')
    BY <1>0, <1>4, <1>5, NobodyNamed DEF Traced, RunKept, Known
  <2>5. SessionTraced'
    <3> SUFFICES ASSUME sess' # NoRenewal PROVE Unsaved(sess.fresh)'
      BY <1>0, <1>4 DEF Traced, SessionTraced
    <3>1. Unsaved(sess.fresh) /\ sess.fresh \in Logins
      BY <1>0, <1>4 DEF Traced, SessionTraced
    <3> QED BY <1>3, <1>4, <1>5, <3>1, NobodyNamed DEF Unsaved
  <2>6. JournalTraced(journal', clock')
    BY <1>0, <1>4 DEF Traced
  <2>7. \A n \in index'.discarded : vault'[n] # NoLogin => n \in mem'.discarded
    <3>1. \A n \in index.discarded : n \in Names
      BY <1>0 DEF IndexTrue, Indexes
    <3> QED BY <1>0, <1>3, <1>4, <1>5, <3>1 DEF Traced
  <2> QED BY <2>1, <2>2, <2>3, <2>4, <2>5, <2>6, <2>7 DEF Traced
<1>8. Secure'
  <2> SUFFICES ASSUME NEW a \in Accounts, ~Safe(a)'
               PROVE  Stored(index, mem', a, run.fresh[a], listed, vault', usable)
    BY <1>4, <1>5 DEF Secure
  <2>1. Stored(index, mem, a, run.fresh[a], listed, vault, usable)
    BY <1>0, <1>6 DEF Secure
  <2>2. Stored(index, left, a, run.fresh[a], listed, vault', usable)
    BY <1>0, <1>1, <1>3, <2>1, PurgedStored
  <2>3. Stored(index, index, a, run.fresh[a], listed, vault', usable)
    BY <2>2, StoredEither
  <2> QED BY <1>4, <1>5, <2>2, <2>3
<1>9. SlotHolds'
  <2>1. journal # NoJournal => journal.incoming \in Names
    BY <1>0 DEF Inv, DiskTrue, JournalTrue
  <2> QED BY <1>0, <1>3, <1>4, <1>5, <2>1 DEF SlotHolds, Renewing, SavesOver
<1>10. JournalBacked'
  BY <1>0, <1>3, <1>4, <1>5, <1>6 DEF JournalBacked
<1> QED BY <1>5, <1>7, <1>8, <1>9, <1>10 DEF Slot, Guarded

\* Settling, step by step.
LEMMA SettleKeeps ==
  ASSUME Guarded, Basis', Reliable, Settle
  PROVE  Guarded'
BY ReconcileNothingKeeps, ReconcileTornKeeps, ReconcileReadKeeps, UndeterminedKeeps, RepairKeeps,
   SweepKeeps, SweepSaveKeeps, SweepListKeeps, FindTwinsKeeps, NothingDueKeeps, DropTwinsKeeps,
   PurgeKeeps, PurgeSaveKeeps DEF Settle

-----------------------------------------------------------------------------
(* Whose the login signed in is, forgetting an account, and the login going in. *)

\* What the slot holds is recorded: nobody's park is touched.
LEMMA IdentifyKeeps ==
  ASSUME Guarded, Basis', Identify
  PROVE  Guarded'
<1>0. /\ Inv /\ Traced /\ StagedSettling /\ SlotTwins /\ Enrolls(mem)
      /\ IndexTrue(index, vault, clock) /\ IndexTrue(mem, vault, clock)
  BY DEF Guarded, Basis, Staged, Slot, Inv, DiskTrue, RunTrue, Traced, IndexKnown, Enrolls
<1>1. /\ pc = "identify" /\ journal = NoJournal /\ listed = {} /\ run.next = "idle"
      /\ live \in Logins \cup {NoLogin}
  BY <1>0 DEF Identify, StagedSettling, Unjournaled, Swept, Told
<1>2. PICK found : found = Identified(mem, live)
  OBVIOUS
<1>3. /\ index' \in {index, found} /\ journal' = journal /\ Plain
      /\ \/ Ends
         \/ /\ mem' = found /\ pc' \in {"forget", "prove"}
            /\ run' = [run EXCEPT !.seen = live, !.out = Account(live),
                                    !.going = IF live = NoLogin THEN "nothing" ELSE "out"]
         \/ mem' = found /\ pc' = "forget" /\ run' = run
  BY <1>2 DEF Identify, SaveFails, Goes, Plain, service
<1>4. /\ IndexTrue(found, vault, clock) /\ found.parked = mem.parked /\ found.enrolled = mem.enrolled
      /\ found.discarded = mem.discarded
  BY <1>0, <1>1, <1>2, IdentifiedFits DEF IndexTrue, Indexes, Identified
<1>5. Follows(mem, found, vault, clock) /\ \A a \in Accounts : Spares(mem, found, a)
  BY <1>0, <1>4 DEF Follows, Spares, Enrolls
<1>6. Makes(found)
  BY <1>3, <1>4, <1>5 DEF Makes, Ends
<1>7. CASE Ends
  <2>1. \A a \in Accounts : run.fresh[a] = NoLogin
    BY <1>0, <1>1, NoAnswers DEF Asking
  <2> QED BY <1>3, <1>4, <1>5, <1>6, <1>7, <2>1, EndsKeeps
<1>8. CASE ~Ends
  <2>1. mem' = found /\ pc' \in {"forget", "prove"}
    BY <1>3, <1>8
  <2>2. /\ run'.seen \in {run.seen, live} /\ run'.before = run.before /\ run'.fresh = run.fresh
        /\ run'.next = "idle"
        /\ pc' = "prove" => /\ run'.seen = live
                            /\ run'.going = IF live = NoLogin THEN "nothing" ELSE "out"
    BY <1>0, <1>1, <1>3, <1>8 DEF Inv, RunTrue, Runs
  <2>3. Traced' /\ Secure' /\ SlotHolds' /\ JournalBacked'
    BY <1>3, <1>4, <1>5, <1>6, <2>1, <2>2, PlainStep DEF RunKept, Writing
  <2>4. Answers' /\ \A a \in Accounts : run'.fresh[a] = NoLogin
    BY <2>1, NoAnswersNext DEF Asking
  <2>5. Staged'
    BY <1>0, <1>1, <1>3, <2>1, <2>2 DEF Staged, StagedSettling, StagedNames, StagedChange, Unjournaled,
                                        Swept, Asking, Changing, Writing, Knowing, Plain
  <2>6. SlotSafe'
    BY <2>1 DEF SlotSafe, Changing
  <2>7. SlotTwins'
    BY <1>0, <1>1, <1>3, <1>4, <2>1, <2>4, NobodyNamed DEF SlotTwins, TwinFree, Plain, Asking
  <2> QED BY <2>3, <2>4, <2>5, <2>6, <2>7 DEF Slot, Guarded
<1> QED BY <1>7, <1>8

\* A slot nobody can tell the owner of changes nothing, and a login refused for good is
\* nobody's loss.
LEMMA IdentifyOtherwiseKeeps ==
  ASSUME Guarded, Basis', Reliable, IdentifyFails \/ IdentifyRefused
  PROVE  Guarded'
<1>0. Inv /\ StagedSettling /\ SlotTwins
  BY DEF Guarded, Basis, Staged, Slot
<1>1. /\ pc = "identify" /\ journal = NoJournal /\ listed = {} /\ run.next = "idle"
      /\ \A a \in Accounts : run.fresh[a] = NoLogin
  BY <1>0, NoAnswers DEF IdentifyFails, IdentifyRefused, StagedSettling, Unjournaled, Swept, Asking
<1>2. CASE Refuses
  BY <1>1, <1>2, RefusesKeeps
<1>3. CASE ~Refuses
  <2>1. /\ index' = index /\ mem' = mem /\ journal' = journal /\ Plain
        /\ \/ pc' = "forget" /\ run' = run
           \/ /\ pc' = "prove" /\ run' = [run EXCEPT !.seen = live, !.going = "refused"]
              /\ live \in Logins \ usable
    BY <1>3 DEF IdentifyFails, IdentifyRefused, Goes, Told, Plain, disk, service
  <2>2. /\ run'.seen \in {run.seen, live} /\ run'.before = run.before /\ run'.fresh = run.fresh
        /\ run'.next = "idle"
        /\ pc' = "prove" => run'.seen = live /\ run'.going = "refused" /\ live \in Logins \ usable
    BY <1>0, <1>1, <2>1 DEF Inv, RunTrue, Runs
  <2>3. Traced' /\ Secure' /\ SlotHolds' /\ JournalBacked'
    BY <2>1, <2>2, QuietStep DEF RunKept, Writing
  <2>4. Answers'
    BY <2>1, NoAnswersNext DEF Asking
  <2>5. Staged'
    BY <1>0, <1>1, <2>1, <2>2 DEF Staged, StagedSettling, StagedNames, StagedChange, Unjournaled,
                                  Swept, Asking, Changing, Writing, Knowing, Plain
  <2>6. SlotSafe' /\ SlotTwins'
    BY <1>0, <1>1, <2>1, <2>2 DEF SlotSafe, SlotTwins, TwinFree, Plain, Changing, Asking
  <2> QED BY <2>3, <2>4, <2>5, <2>6 DEF Slot, Guarded
<1> QED BY <1>2, <1>3

\* Only the account forgotten loses its park, and nobody answers for it any more.
LEMMA ForgetKeeps ==
  ASSUME Guarded, Basis', Forget
  PROVE  Guarded'
<1>0. Inv /\ Traced /\ StagedSettling /\ IndexTrue(mem, vault, clock) /\ Enrolls(mem)
  BY DEF Guarded, Basis, Staged, Inv, RunTrue, Traced, IndexKnown, Enrolls
<1>1. /\ pc = "forget" /\ journal = NoJournal /\ run.next = "idle" /\ run.to \in Accounts
      /\ \A a \in Accounts : run.fresh[a] = NoLogin
  BY <1>0, NoAnswers DEF Forget, StagedSettling, Unjournaled, Asking, Inv, RunTrue, Bound
<1>2. CASE Breaks("save")
  BY <1>1, <1>2, RefusesKeeps DEF Operations
<1>3. CASE ~Breaks("save")
  <2>1. PICK iy : iy = Removed(mem, run.to)
    OBVIOUS
  <2>2. /\ index' = iy /\ mem' = iy /\ pc' = "purge" /\ run' = run /\ journal' = journal /\ Plain
    BY <1>3, <2>1 DEF Forget, Saves, Goes, Plain, service
  <2>3. /\ Follows(mem, iy, vault, clock) /\ iy.enrolled = mem.enrolled \ {run.to}
        /\ \A b \in Accounts : b # run.to => Spares(mem, iy, b)
    BY <1>0, <1>1, <2>1, RemovedFollows
  <2>4. Makes(iy)
    BY <2>2, <2>3 DEF Makes, Basis, Inv, RunTrue, Plain
  <2>5. Traced' /\ Secure' /\ SlotHolds' /\ JournalBacked'
    BY <1>1, <2>2, <2>3, <2>4, PlainStep DEF RunKept, Writing
  <2>6. Answers'
    BY <2>2, NoAnswersNext DEF Asking
  <2>7. Staged'
    BY <1>1, <2>2 DEF Staged, StagedSettling, StagedNames, StagedChange, Unjournaled,
                      Swept, Asking, Changing, Writing, Knowing
  <2>8. SlotSafe' /\ SlotTwins'
    BY <1>1, <2>2 DEF SlotSafe, SlotTwins, TwinFree, Changing, Asking
  <2> QED BY <2>5, <2>6, <2>7, <2>8 DEF Slot, Guarded
<1> QED BY <1>2, <1>3

\* With nothing on the list, the park recorded is the login the account has.
LEMMA ProveKeeps ==
  ASSUME Guarded, Basis', Prove
  PROVE  Guarded'
<1>0. /\ Inv /\ StagedSettling /\ StagedChange /\ Secure /\ SlotTwins /\ IndexTrue(mem, vault, clock)
  BY DEF Guarded, Basis, Staged, Slot, Inv, RunTrue
<1>1. /\ pc = "prove" /\ journal = NoJournal /\ listed = {} /\ run.to \in Accounts /\ run.refused = {}
      /\ \A a \in Accounts : run.fresh[a] = NoLogin
  BY <1>0, NoAnswers DEF Prove, StagedSettling, Unjournaled, Swept, Asking, Inv, RunTrue, Bound, Changing, Asked
<1>2. /\ index' = index /\ mem' = mem /\ journal' = journal /\ Plain
      /\ mem.parked[run.to] # NoPark /\ OutgoingEnrolled
      /\ \/ pc' = "lock" /\ run' = [run EXCEPT !.inc = mem.parked[run.to]]
         \/ pc' = "ask" /\ run' = [run EXCEPT !.due = {run.to}]
  BY DEF Prove, Loads, Goes, Plain, disk, service
<1>3. /\ run'.seen = run.seen /\ run'.before = run.before /\ run'.fresh = run.fresh
      /\ run'.next = run.next /\ run'.cmd = run.cmd /\ run'.to = run.to /\ run'.going = run.going
      /\ run'.refused = run.refused /\ run'.out = run.out
      /\ pc' = "lock" => run'.inc = mem.parked[run.to]
  BY <1>0, <1>1, <1>2 DEF Inv, RunTrue, Runs
<1>4. Traced' /\ Secure' /\ SlotHolds' /\ JournalBacked' /\ \A a : Safe(a) => Safe(a)'
  BY <1>2, <1>3, QuietStep DEF RunKept, Writing
<1>5. Answers'
  BY <1>1, <1>3 DEF Answers
<1>6. Staged'
  BY <1>0, <1>1, <1>2, <1>3 DEF Staged, StagedSettling, StagedNames, StagedChange, Unjournaled, OutgoingEnrolled,
                                Swept, Asking, Changing, Writing, Knowing, Plain
<1>7. mem.parked[run.to].login \in usable \/ Safe(run.to)
  <2> SUFFICES ASSUME ~Safe(run.to) PROVE mem.parked[run.to].login \in usable
    OBVIOUS
  <2>1. PICK x \in Logins : /\ Firm(index, mem, run.to, x, {}, vault, usable)
                            /\ Both(index, mem, run.to, x, {}, vault)
    BY <1>0, <1>1 DEF Secure, Stored
  <2>2. PICK n \in Names : [name |-> n, login |-> x] \in Offers(mem, run.to, {}, vault)
    BY <2>1 DEF Both
  <2>3. mem.parked[run.to] = [name |-> n, login |-> x]
    BY <2>2 DEF Offers
  <2> QED BY <2>1, <2>3 DEF Firm
<1>8. SlotSafe'
  BY <1>1, <1>2, <1>3, <1>4, <1>7 DEF SlotSafe, Changing, Plain
<1>9. SlotTwins'
  BY <1>0, <1>1, <1>2, <1>3 DEF SlotTwins, TwinFree, Asking, Plain
<1> QED BY <1>4, <1>5, <1>6, <1>8, <1>9 DEF Slot, Guarded

\* A change whose incoming login cannot be proved stops.
LEMMA NotProvedKeeps ==
  ASSUME Guarded, Basis', NotProved
  PROVE  Guarded'
<1>1. Refuses /\ \A a \in Accounts : run.fresh[a] = NoLogin
  BY NoAnswers DEF NotProved, Guarded, Basis, Asking
<1> QED BY <1>1, RefusesKeeps

-----------------------------------------------------------------------------
(* Renewing parked logins. *)

\* The login exchanged was the account's, and the answer is now.
LEMMA ExchangedStored ==
  ASSUME Inv, NEW ix, NEW a \in Accounts, NEW f, NEW us, f # NoLogin, f \in us, us \subseteq usable \cup {f},
         IndexTrue(ix, vault, clock), IndexTrue(mem, vault, clock),
         ix.parked[a].login # f, \A n \in Names : vault[n] # f, mem.parked[a].login # f,
         mem.parked[a] # NoPark, mem.parked[a].login \in usable \ us,
         Stored(ix, mem, a, NoLogin, listed, vault, usable)
  PROVE  Stored(ix, mem, a, f, listed, vault, us)
<1>1. PICK x \in Logins : Firm(ix, mem, a, x, listed, vault, usable)
  BY DEF Stored
<1>2. mem.parked[a] \in Offers(mem, a, listed, vault)
  BY DEF Offers, IndexTrue, ParkOK
<1>3. mem.parked[a].login = x
  BY <1>1, <1>2 DEF Firm, Newest
<1>4. \A p \in Offers(ix, a, listed, vault) \cup Offers(mem, a, listed, vault) : p.login # f
  BY DEF Offers, Parks
<1>5. Newest(ix, a, f, listed, vault, us) /\ Newest(mem, a, f, listed, vault, us)
  BY <1>1, <1>3, <1>4 DEF Firm, Newest
<1> QED BY <1>5 DEF Stored, Firm

\* Each round trip exchanges a login the tool does not hold.
LEMMA AskKeeps ==
  ASSUME Guarded, Basis', Reliable, NEW a \in Accounts, Ask(a)
  PROVE  Guarded'
<1>0. /\ Inv /\ Traced /\ StagedSettling /\ StagedNames /\ StagedChange /\ Secure /\ SlotTwins /\ SlotHolds
      /\ Answers /\ IndexTrue(mem, vault, clock) /\ IndexTrue(index, vault, clock)
  BY DEF Guarded, Basis, Staged, Slot, Inv, RunTrue, DiskTrue
<1>1. /\ pc = "ask" /\ pc' = "ask" /\ a \in run.due /\ journal = NoJournal
      /\ UNCHANGED <<live, vault, index, journal, listed, clock, sess, mem, taken>>
  BY <1>0 DEF Ask, StagedSettling, Unjournaled, Asking, disk
<1>2. CASE UNCHANGED <<usable, issued>> /\
           \/ run' = [run EXCEPT !.due = @ \ {a}]
           \/ /\ mem.parked[a].login \notin usable
              /\ run' = [run EXCEPT !.due = @ \ {a}, !.refused = @ \cup {a}]
  <2>1. /\ run'.seen = run.seen /\ run'.before = run.before /\ run'.fresh = run.fresh
        /\ run'.next = run.next /\ run'.cmd = run.cmd /\ run'.to = run.to /\ run'.going = run.going
        /\ run'.out = run.out
        /\ \A b \in run'.refused : b \in run.refused \/ (b = a /\ mem.parked[a].login \notin usable)
    <3>1. run \in Runs
      BY <1>0 DEF Inv, RunTrue
    <3>2. CASE run' = [run EXCEPT !.due = @ \ {a}]
      BY <3>1, <3>2 DEF Runs
    <3>3. CASE /\ mem.parked[a].login \notin usable
               /\ run' = [run EXCEPT !.due = @ \ {a}, !.refused = @ \cup {a}]
      BY <3>1, <3>3 DEF Runs
    <3> QED BY <1>2, <3>2, <3>3
  <2>2. Traced' /\ Secure' /\ SlotHolds' /\ JournalBacked'
    BY <1>1, <1>2, <2>1, QuietStep DEF RunKept, Writing, Plain
  <2>3. Answers'
    BY <1>0, <1>1, <2>1 DEF Answers
  <2>4. Staged'
    BY <1>0, <1>1, <1>2, <2>1 DEF Staged, StagedSettling, StagedNames, StagedChange, Unjournaled,
                                  Swept, Asking, Changing, Writing, Knowing
  <2>5. SlotSafe' /\ SlotTwins'
    BY <1>0, <1>1, <2>1 DEF SlotSafe, SlotTwins, TwinFree, Changing, Asking
  <2> QED BY <2>2, <2>3, <2>4, <2>5 DEF Slot, Guarded
<1>3. CASE /\ Loads(a) /\ mem.parked[a].login \in usable /\ Issues(a)
           /\ usable' = (usable \ {mem.parked[a].login}) \cup {Fresh(a)}
           /\ run' = [run EXCEPT !.due = @ \ {a}, !.fresh[a] = Fresh(a)]
  <2>1. /\ Fresh(a) \in Logins /\ Account(Fresh(a)) = a /\ ~Known(Fresh(a), issued)
        /\ Known(Fresh(a), issued') /\ \A b \in Accounts : issued[b] <= issued'[b]
        /\ \A l \in Logins : Known(l, issued) => l # Fresh(a) /\ Known(l, issued')
    BY <1>0, <1>3, FreshUnknown
  <2>2. /\ Unsaved(Fresh(a)) /\ live # Fresh(a) /\ run.seen # Fresh(a) /\ run.before # Fresh(a)
        /\ \A b \in Accounts : mem.parked[b].login # Fresh(a) /\ run.fresh[b] # Fresh(a)
    BY <1>0, <1>3, FreshUnheld
  <2>3. PICK f \in Logins : f = Fresh(a)
    BY <2>1
  <2>4. PICK old \in Logins : old = mem.parked[a].login
    BY <1>0, <1>3 DEF Inv, DiskTrue, WorldOK
  <2>5. /\ usable' = (usable \ {old}) \cup {f} /\ old \in usable /\ Account(old) = a /\ Account(f) = a
        /\ mem.parked[a] # NoPark /\ f # NoLogin /\ f # old
    BY <1>0, <1>3, <2>1, <2>2, <2>3, <2>4, NobodyNamed DEF Loads, IndexTrue, ParkOK
  <2>6. /\ run'.seen = run.seen /\ run'.before = run.before /\ run'.fresh = [run.fresh EXCEPT ![a] = f]
        /\ run'.next = run.next /\ run'.cmd = run.cmd /\ run'.to = run.to /\ run'.going = run.going
        /\ run'.out = run.out /\ run'.refused = run.refused /\ run'.fresh[a] = f
        /\ \A b \in Accounts : b # a => run'.fresh[b] = run.fresh[b]
    BY <1>0, <1>1, <1>3, <2>3 DEF Inv, RunTrue, Runs
  <2>7. run.fresh[a] = NoLogin
    BY <1>0, <1>1 DEF Inv, RunTrue, Asked, Asking
  <2>8. \A h : Known(h, issued) => Known(h, issued') /\ h # f
    BY <2>1, <2>3 DEF Known
  <2>9. /\ \A n \in Names : vault[n] # f
        /\ \A b \in Accounts : index.parked[b].login # f /\ mem.parked[b].login # f /\ run.fresh[b] # f
    BY <2>2, <2>3 DEF Unsaved
  <2>10. live # old /\ (live \in usable => live \in usable')
    <3>1. live \in Logins => live # old
      BY <1>0, <1>1, <2>4 DEF SlotTwins, TwinFree, Asking
    <3> QED BY <2>4, <2>5, <3>1 DEF Inv
  <2>11. sess # NoRenewal => /\ sess.fresh # old /\ sess.fresh # f /\ sess.sent # f
                             /\ sess.sent \in Logins \ usable /\ sess.fresh \in Logins
                             /\ Account(sess.sent) = Account(sess.fresh)
                             /\ Known(sess.sent, issued') /\ Known(sess.fresh, issued')
                             /\ Unsaved(sess.fresh)
    BY <1>0, <2>4, <2>8 DEF Traced, SessionTraced, Unsaved
  <2>12. \A b : Renewing(b) => Renewing(b)'
    BY <1>1, <2>5, <2>11, NoneRenewing, <1>0 DEF Renewing, SavesOver
  <2>13. \A b : Safe(b) => Safe(b)'
    BY <1>1, <2>10, <2>12 DEF Safe, Signed
  <2>14. Traced'
    <3>1. SessionTraced'
      <4> SUFFICES ASSUME sess # NoRenewal PROVE Unsaved(sess.fresh)'
        BY <1>1, <2>5, <2>11 DEF SessionTraced
      <4> QED BY <1>1, <2>6, <2>11 DEF Unsaved
    <3>2. /\ \A b \in Accounts : Known(run'.fresh[b], issued')
          /\ Known(live', issued') /\ Known(run'.seen, issued') /\ Known(run'.before, issued')
      BY <1>0, <1>1, <2>1, <2>3, <2>6, <2>8 DEF Traced
    <3>3. IndexKnown(index', issued', clock') /\ IndexKnown(mem', issued', clock')
      BY <1>0, <1>1, <2>8 DEF Traced, IndexKnown
    <3> QED BY <1>0, <1>1, <2>8, <3>1, <3>2, <3>3 DEF Traced
  <2>15. Secure'
    <3> SUFFICES ASSUME NEW b \in Accounts, ~Safe(b)'
                 PROVE  Safe(b)' \/ Stored(index', mem', b, run'.fresh[b], listed', vault', usable')
                          \/ (Alike(b) /\ ~Safe(b) /\ Spares(mem, mem, b))
      BY <1>0, <1>1, SecureStep
    <3>1. CASE b = a
      <4>1. Stored(index, mem, a, NoLogin, listed, vault, usable)
        BY <1>0, <2>7, <2>13, <3>1 DEF Secure
      <4>2. f \in usable' /\ usable' \subseteq usable \cup {f} /\ mem.parked[a].login \in usable \ usable'
        BY <2>4, <2>5
      <4>3. Stored(index, mem, a, f, listed, vault, usable')
        BY <1>0, <2>5, <2>9, <4>1, <4>2, ExchangedStored
      <4> QED BY <1>1, <2>6, <3>1, <4>3
    <3>2. CASE b # a
      <4>1. Alike(b)
        BY <1>1, <2>5, <2>6, <3>2 DEF Alike
      <4> QED BY <2>13, <4>1 DEF Spares
    <3> QED BY <3>1, <3>2
  <2>16. Answers'
    BY <1>0, <1>1, <2>6, <2>9 DEF Answers
  <2>17. Staged'
    <3>1. \A b \in run.refused : mem.parked[b].login \notin usable'
      <4> SUFFICES ASSUME NEW b \in run.refused PROVE mem.parked[b].login \notin usable'
        OBVIOUS
      <4>1. b \in Accounts /\ mem.parked[b].login \notin usable
        BY <1>0, <1>1 DEF StagedChange, Asking, Inv, RunTrue, Runs
      <4> QED BY <2>5, <2>9, <4>1
    <3>2. Knowing /\ run.going = "refused" => run.seen \in Logins \ usable'
      BY <1>0, <2>2, <2>3, <2>5 DEF StagedChange
    <3> QED BY <1>0, <1>1, <2>6, <3>1, <3>2 DEF Staged, StagedSettling, StagedNames, StagedChange, Unjournaled,
                                  Swept, Asking, Changing, Writing, Knowing
  <2>18. SlotHolds'
    BY <1>0, <1>1, <2>10, <2>12 DEF SlotHolds, Writing
  <2>19. JournalBacked' /\ SlotSafe'
    BY <1>1 DEF JournalBacked, SlotSafe, Changing
  <2>20. SlotTwins'
    BY <1>0, <1>1, <2>2, <2>3, <2>6 DEF SlotTwins, TwinFree, Asking
  <2> QED BY <2>14, <2>15, <2>16, <2>17, <2>18, <2>19, <2>20 DEF Slot, Guarded
<1> QED BY <1>1, <1>2, <1>3 DEF Ask

\* Discarding a park of another login takes nothing from what is stored of login x.
LEMMA DiscardedFirm ==
  ASSUME Inv, NEW ix, NEW iy, NEW a \in Accounts, NEW x, IndexTrue(mem, vault, clock),
         mem.parked[a] # NoPark, mem.parked[a].login # x, x # NoLogin,
         iy.discarded = mem.discarded \cup {mem.parked[a].name}, iy.parked[a] = NoPark,
         Firm(ix, mem, a, x, listed, vault, usable)
  PROVE  /\ Firm(ix, iy, a, x, listed, vault, usable)
         /\ Both(ix, mem, a, x, listed, vault) => Both(ix, iy, a, x, listed, vault)
<1> DEFINE old == mem.parked[a].name
<1>1. vault[old] \in {mem.parked[a].login, NoLogin} /\ old \in Names
  BY DEF IndexTrue, ParkOK, Parks
<1>2. Offers(iy, a, listed, vault) \subseteq Offers(mem, a, listed, vault)
  BY NobodyNamed DEF Offers, Parks, NoPark
<1>3. \A p \in Offers(mem, a, listed, vault) : p.login = x =>
         vault[p.name] = x /\ p.name \notin mem.discarded /\ p.name # old
  BY <1>1 DEF Firm, Newest
<1>4. Newest(iy, a, x, listed, vault, usable)
  BY <1>2, <1>3, NewestTrims DEF Firm
<1>5. ix.parked[a].login # x
  BY DEF Firm
<1>6. \A m \in Names : [name |-> m, login |-> x] \in Offers(mem, a, listed, vault)
                         => [name |-> m, login |-> x] \in Offers(iy, a, listed, vault)
  <2> SUFFICES ASSUME NEW m \in Names, [name |-> m, login |-> x] \in Offers(mem, a, listed, vault)
               PROVE  [name |-> m, login |-> x] \in Offers(iy, a, listed, vault)
    OBVIOUS
  <2>1. m # old /\ m \notin mem.discarded /\ vault[m] = x
    BY <1>3
  <2>2. m \in listed
    BY DEF Offers
  <2> QED BY <2>1, <2>2 DEF Offers
<1> QED BY <1>4, <1>5, <1>6 DEF Firm, Both

\* A park the service refused is dropped: what its account has, it has elsewhere.
LEMMA DropRefusedKeeps ==
  ASSUME Guarded, Basis', NEW a \in Accounts, DropRefused(a)
  PROVE  Guarded'
<1>0. /\ Inv /\ Traced /\ StagedSettling /\ StagedNames /\ StagedChange /\ Secure /\ SlotTwins
      /\ Answers /\ IndexTrue(mem, vault, clock) /\ Enrolls(mem)
  BY DEF Guarded, Basis, Staged, Slot, Inv, RunTrue, Traced, IndexKnown, Enrolls
<1>1. /\ pc = "ask" /\ a \in run.refused /\ journal = NoJournal
  BY <1>0 DEF DropRefused, Answered, StagedSettling, Unjournaled, Asking
<1>2. /\ run.fresh[a] = NoLogin /\ mem.parked[a] # NoPark /\ mem.parked[a].login \notin usable
      /\ \A b \in Accounts : run.fresh[b] # NoLogin => b # a
      /\ run.cmd # "renew" => \A b \in Accounts : run.fresh[b] = NoLogin
  BY <1>0, <1>1 DEF Inv, RunTrue, Asked, Asking, StagedChange
<1>3. PICK old : old = mem.parked[a].name
  OBVIOUS
<1>4. PICK iy : iy = Discard(mem, old)
  OBVIOUS
<1>5. old \in Names /\ old[2] <= clock /\ old[1] = a
  BY <1>0, <1>2, <1>3 DEF IndexTrue, ParkOK, Parks
<1>6. /\ Follows(mem, iy, vault, clock) /\ iy.enrolled = mem.enrolled
      /\ iy.discarded = mem.discarded \cup {old}
      /\ \A b \in Accounts : mem.parked[b].name = old => iy.parked[b] = NoPark
      /\ \A b \in Accounts : mem.parked[b].name # old => iy.parked[b] = mem.parked[b]
      /\ \A b \in Accounts : b # old[1] => Spares(mem, iy, b)
  BY <1>0, <1>4, <1>5, DiscardFollows
<1>7. iy.parked[a] = NoPark /\ \A b \in Accounts : iy.parked[b] \in {mem.parked[b], NoPark}
  BY <1>3, <1>6
<1>8. /\ index' \in {index, iy} /\ mem' \in {index', iy} /\ journal' = journal /\ Plain
      /\ \/ Ends /\ run.cmd # "renew"
         \/ /\ mem' = iy /\ pc' = "ask" /\ run' = [run EXCEPT !.refused = @ \ {a}]
            /\ run.cmd = "renew"
  BY <1>3, <1>4 DEF DropRefused, Saves, SaveFails, Goes, Ends, Plain, service
<1>9. Makes(iy)
  <2>1. IndexTrue(iy, vault, clock)
    BY <1>0, <1>4, <1>5, DiscardFits
  <2> QED BY <1>6, <1>8, <2>1 DEF Makes
<1>10. Safe(a) \/ Stored(index, iy, a, NoLogin, listed, vault, usable)
  <2> SUFFICES ASSUME ~Safe(a) PROVE Stored(index, iy, a, NoLogin, listed, vault, usable)
    OBVIOUS
  <2>1. PICK x \in Logins : /\ Firm(index, mem, a, x, listed, vault, usable)
                            /\ Both(index, mem, a, x, listed, vault)
    BY <1>0, <1>2 DEF Secure, Stored
  <2>2. mem.parked[a].login # x /\ x # NoLogin
    BY <1>2, <2>1, NobodyNamed DEF Firm
  <2>3. Firm(index, iy, a, x, listed, vault, usable) /\ Both(index, iy, a, x, listed, vault)
    BY <1>0, <1>2, <1>3, <1>6, <1>7, <2>1, <2>2, DiscardedFirm
  <2> QED BY <2>3 DEF Stored
<1>11. \A b \in Accounts : Spares(mem, iy, b) \/ Safe(b)
         \/ (journal = NoJournal /\ Stored(index, iy, b, run.fresh[b], listed, vault, usable))
  BY <1>1, <1>2, <1>5, <1>6, <1>10
<1>12. CASE Ends /\ run.cmd # "renew"
  BY <1>2, <1>6, <1>8, <1>9, <1>11, <1>12, EndsKeeps
<1>13. CASE ~(Ends /\ run.cmd # "renew")
  <2>1. mem' = iy /\ pc' = "ask" /\ run' = [run EXCEPT !.refused = @ \ {a}] /\ run.cmd = "renew"
    BY <1>8, <1>13
  <2>2. /\ run'.seen = run.seen /\ run'.before = run.before /\ run'.fresh = run.fresh
        /\ run'.next = run.next /\ run'.cmd = "renew" /\ run'.refused = run.refused \ {a}
    BY <1>0, <2>1 DEF Inv, RunTrue, Runs
  <2>3. Traced' /\ Secure' /\ SlotHolds' /\ JournalBacked'
    BY <1>6, <1>8, <1>9, <1>11, <2>1, <2>2, PlainStep DEF RunKept, Writing
  <2>4. Answers'
    <3> SUFFICES ASSUME NEW b \in Accounts, run.fresh[b] # NoLogin
                 PROVE  /\ index'.parked[b].login # run.fresh[b] /\ iy.parked[b].login # run.fresh[b]
                        /\ \A n \in Names : vault[n] = run.fresh[b] =>
                             n \in listed /\ n \notin index'.discarded /\ n \notin iy.discarded
      BY <1>8, <2>1, <2>2 DEF Answers, Plain
    <3>1. /\ index.parked[b].login # run.fresh[b] /\ mem.parked[b].login # run.fresh[b]
          /\ \A n \in Names : vault[n] = run.fresh[b] =>
               n \in listed /\ n \notin index.discarded /\ n \notin mem.discarded
      BY <1>0 DEF Answers
    <3>2. b # a /\ Account(run.fresh[b]) = b
      BY <1>0, <1>1, <1>2 DEF Inv, RunTrue, Asked, Asking
    <3>3. vault[old] # run.fresh[b]
      BY <1>0, <1>5, <3>2 DEF Inv, DiskTrue, VaultTrue
    <3>4. iy.parked[b].login # run.fresh[b]
      BY <1>5, <1>6, <3>1, <3>2 DEF Spares
    <3> QED BY <1>6, <1>8, <3>1, <3>3, <3>4
  <2>5. Staged'
    <3>1. \A b \in run'.refused : mem'.parked[b].login \notin usable'
      <4> SUFFICES ASSUME NEW b \in run.refused \ {a} PROVE iy.parked[b].login \notin usable
        BY <1>8, <2>1, <2>2 DEF Plain
      <4>1. b \in Accounts /\ mem.parked[b].login \notin usable
        BY <1>0, <1>1 DEF StagedChange, Asking, Inv, RunTrue, Runs
      <4> QED BY <1>5, <1>6, <4>1 DEF Spares
    <3> QED BY <1>1, <1>8, <2>1, <2>2, <3>1 DEF Staged, StagedSettling, StagedNames, StagedChange, Unjournaled,
                                      Swept, Asking, Changing, Writing, Knowing
  <2>6. SlotSafe'
    BY <2>1 DEF SlotSafe, Changing
  <2>7. SlotTwins'
    BY <1>0, <1>1, <1>7, <1>8, <2>1, <2>2, NobodyNamed DEF SlotTwins, TwinFree, Asking, Plain, NoPark
  <2> QED BY <2>3, <2>4, <2>5, <2>6, <2>7 DEF Slot, Guarded
<1> QED BY <1>12, <1>13

\* Which answer is written next, or that there is none.
LEMMA AnsweredKeeps ==
  ASSUME Guarded, Basis', (\E a \in Accounts : WriteFresh(a)) \/ NoMoreAnswers
  PROVE  Guarded'
<1>0. /\ Inv /\ StagedSettling /\ StagedNames /\ StagedChange /\ SlotTwins /\ Answers
  BY DEF Guarded, Basis, Staged, Slot
<1>1. pc = "ask" /\ journal = NoJournal
  BY <1>0 DEF WriteFresh, NoMoreAnswers, Answered, StagedSettling, Unjournaled, Asking
<1>2. CASE Refuses /\ \A a \in Accounts : run.fresh[a] = NoLogin
  BY <1>2, RefusesKeeps
<1>3. CASE ~(Refuses /\ \A a \in Accounts : run.fresh[a] = NoLogin)
  <2>1. /\ index' = index /\ mem' = mem /\ journal' = journal /\ Plain
        /\ \/ pc' = "renewReserve" /\ \E a \in Accounts : run' = [run EXCEPT !.who = a, !.second = FALSE]
           \/ pc' = "purge" /\ run' = [run EXCEPT !.next = "idle"] /\ run.cmd = "renew"
    BY <1>3 DEF WriteFresh, NoMoreAnswers, Goes, Plain, disk, service
  <2>2. /\ run'.seen = run.seen /\ run'.before = run.before /\ run'.fresh = run.fresh
        /\ run'.cmd = run.cmd /\ run'.refused = run.refused /\ run'.to = run.to
        /\ run'.going = run.going /\ run'.out = run.out
        /\ pc' = "purge" => run'.next = "idle"
    BY <1>0, <2>1 DEF Inv, RunTrue, Runs
  <2>3. Traced' /\ Secure' /\ SlotHolds' /\ JournalBacked'
    BY <2>1, <2>2, QuietStep DEF RunKept, Writing
  <2>4. Answers'
    BY <1>0, <2>1, <2>2 DEF Answers, Plain
  <2>5. Staged'
    BY <1>0, <1>1, <2>1, <2>2 DEF Staged, StagedSettling, StagedNames, StagedChange, Unjournaled,
                                  Swept, Asking, Changing, Writing, Knowing, Plain
  <2>6. SlotSafe' /\ SlotTwins'
    BY <1>0, <1>1, <2>1, <2>2 DEF SlotSafe, SlotTwins, TwinFree, Changing, Asking, Plain
  <2> QED BY <2>3, <2>4, <2>5, <2>6 DEF Slot, Guarded
<1> QED BY <1>2, <1>3 DEF NoMoreAnswers, WriteFresh

\* A name reserved is one nothing is stored under, and nothing else names.
LEMMA ReservesKeeps ==
  ASSUME Guarded, NEW a \in Accounts, Reserves(a), run' = [run EXCEPT !.park = <<a, clock + 1>>],
         UNCHANGED <<usable, issued, sess>>, pc' \in Writing => pc \in Writing,
         NEW n, n = <<a, clock + 1>>
  PROVE  /\ Traced' /\ Secure' /\ SlotHolds' /\ JournalBacked' /\ \A b : Safe(b) => Safe(b)'
         /\ n \in Names /\ n[1] = a /\ n[2] = clock' /\ listed' = listed \cup {n}
         /\ n \notin index.discarded /\ n \notin mem.discarded
         /\ run'.park = n
         /\ run'.seen = run.seen /\ run'.before = run.before /\ run'.fresh = run.fresh
         /\ run'.next = run.next /\ run'.cmd = run.cmd /\ run'.to = run.to /\ run'.going = run.going
         /\ run'.refused = run.refused /\ run'.out = run.out /\ run'.inc = run.inc /\ run'.who = run.who
         /\ UNCHANGED <<live, vault, index, journal, usable, issued, sess, mem, taken>>
<1>0. Inv /\ Traced /\ Secure /\ SlotHolds /\ JournalBacked /\ clock \in Nat
  BY SwitchBounds DEF Guarded, Basis, Slot, Inv, DiskTrue, ListTrue
<1>1. /\ clock < MaxNames /\ clock' = clock + 1 /\ listed' = listed \cup {n}
      /\ UNCHANGED <<live, vault, index, journal, usable, issued, sess, mem, taken>>
  BY DEF Reserves
<1>2. n \in Names /\ n[1] = a /\ n[2] = clock + 1 /\ ~(n[2] <= clock)
  BY <1>0, <1>1, SwitchBounds DEF Names
<1>3. /\ run'.park = n
      /\ run'.seen = run.seen /\ run'.before = run.before /\ run'.fresh = run.fresh
      /\ run'.next = run.next /\ run'.cmd = run.cmd /\ run'.to = run.to /\ run'.going = run.going
      /\ run'.refused = run.refused /\ run'.out = run.out /\ run'.inc = run.inc /\ run'.who = run.who
  BY <1>0 DEF Inv, RunTrue, Runs
<1>4. n \notin index.discarded /\ n \notin mem.discarded /\ vault[n] = NoLogin
  BY <1>0, <1>2 DEF Traced, IndexKnown
<1>5. Makes(mem) /\ \A b \in Accounts : Spares(mem, mem, b)
  BY <1>0, <1>1, MakesMem
<1>6. Traced'
  <2>1. clock' \in Nat /\ clock <= clock' /\ JournalTraced(journal', clock') /\ Known(live', issued)
    <3>1. journal # NoJournal => journal.incoming \in Names
      BY <1>0 DEF Inv, DiskTrue, JournalTrue
    <3>2. \A m \in Names : m[2] \in Nat
      BY SwitchBounds DEF Names
    <3> QED BY <1>0, <1>1, <3>1, <3>2 DEF Traced, JournalTraced
  <2> QED BY <1>0, <1>1, <1>3, <1>5, <2>1, TracedOver DEF RunKept
<1>7. \A b : Safe(b) => Safe(b)'
  BY <1>1, SafeStays
<1>8. Secure'
  <2>1. \A b \in Accounts : Alike(b)
    BY <1>1, <1>3, <1>4 DEF Alike
  <2> QED BY <1>0, <1>5, <1>7, <2>1, SecureSaves DEF Makes
<1>9. SlotHolds'
  BY <1>0, <1>1, <1>3 DEF SlotHolds, Renewing, SavesOver
<1>10. JournalBacked'
  BY <1>0, <1>1, <1>7 DEF JournalBacked
<1> QED BY <1>1, <1>2, <1>3, <1>4, <1>6, <1>7, <1>8, <1>9, <1>10

\* An answer that could not be stored is tried once more, or given up.
LEMMA TriesAgainKeeps ==
  ASSUME Guarded, Basis', pc \in {"renewReserve", "renewStore"}, TriesAgain,
         UNCHANGED <<disk, service, mem, taken>>
  PROVE  Guarded'
<1>0. /\ Inv /\ StagedSettling /\ StagedNames /\ StagedChange /\ SlotTwins /\ Answers
  BY DEF Guarded, Basis, Staged, Slot
<1>1. /\ index' = index /\ mem' = mem /\ journal' = journal /\ Plain
      /\ pc' \in {"renewReserve", "renewLost"} /\ run' \in {run, [run EXCEPT !.second = TRUE]}
  BY DEF TriesAgain, Goes, Plain, disk, service
<1>2. /\ run'.seen = run.seen /\ run'.before = run.before /\ run'.fresh = run.fresh
      /\ run'.cmd = run.cmd /\ run'.refused = run.refused /\ run'.to = run.to
      /\ run'.going = run.going /\ run'.out = run.out
  BY <1>0, <1>1 DEF Inv, RunTrue, Runs
<1>3. Traced' /\ Secure' /\ SlotHolds' /\ JournalBacked'
  BY <1>1, <1>2, QuietStep DEF RunKept, Writing
<1>4. Answers'
  BY <1>0, <1>1, <1>2 DEF Answers, Plain
<1>5. Staged'
  BY <1>0, <1>1, <1>2 DEF Staged, StagedSettling, StagedNames, StagedChange, Unjournaled,
                          Swept, Asking, Changing, Writing, Knowing, Plain
<1>6. SlotSafe' /\ SlotTwins'
  BY <1>0, <1>1, <1>2 DEF SlotSafe, SlotTwins, TwinFree, Changing, Asking, Plain
<1> QED BY <1>3, <1>4, <1>5, <1>6 DEF Slot, Guarded

\* A name is reserved for the answer, or none is to be had.
LEMMA RenewReserveKeeps ==
  ASSUME Guarded, Basis', RenewReserve
  PROVE  Guarded'
<1>0. /\ Inv /\ StagedSettling /\ StagedNames /\ StagedChange /\ SlotTwins /\ Answers
  BY DEF Guarded, Basis, Staged, Slot
<1>1. pc = "renewReserve" /\ run.who \in Accounts /\ journal = NoJournal
  BY <1>0 DEF RenewReserve, Inv, RunTrue, Asked, Asking, StagedSettling, Unjournaled
<1>2. CASE Reserves(run.who) /\ Goes("renewStore")
  <2>1. PICK a \in Accounts : a = run.who
    BY <1>1
  <2>2. PICK n : n = <<a, clock + 1>>
    OBVIOUS
  <2>3. /\ Reserves(a) /\ run' = [run EXCEPT !.park = <<a, clock + 1>>] /\ pc' = "renewStore"
        /\ UNCHANGED <<usable, issued, sess>>
    BY <1>2, <2>1 DEF Reserves, Goes, service, RenewReserve
  <2>4. pc' \in Writing => pc \in Writing
    BY <2>3 DEF Writing
  <2>5. /\ Traced' /\ Secure' /\ SlotHolds' /\ JournalBacked' /\ \A b : Safe(b) => Safe(b)'
        /\ n \in Names /\ n[1] = a /\ n[2] = clock' /\ listed' = listed \cup {n}
        /\ n \notin index.discarded /\ n \notin mem.discarded
        /\ run'.park = n
        /\ run'.seen = run.seen /\ run'.before = run.before /\ run'.fresh = run.fresh
        /\ run'.next = run.next /\ run'.cmd = run.cmd /\ run'.to = run.to /\ run'.going = run.going
        /\ run'.refused = run.refused /\ run'.out = run.out /\ run'.inc = run.inc /\ run'.who = run.who
        /\ UNCHANGED <<live, vault, index, journal, usable, issued, sess, mem, taken>>
    BY <2>2, <2>3, <2>4, ReservesKeeps
  <2>6. Answers'
    BY <1>0, <2>5 DEF Answers
  <2>7. run.cmd # "renew" => a = run.to
    BY <1>0, <1>1, <2>1 DEF Inv, RunTrue, Asked, Asking
  <2>8. Staged'
    BY <1>0, <1>1, <2>3, <2>5, <2>7 DEF Staged, StagedSettling, StagedNames, StagedChange, Unjournaled,
                                  Swept, Asking, Changing, Writing, Knowing
  <2>9. SlotSafe' /\ SlotTwins'
    BY <1>0, <1>1, <2>3, <2>5 DEF SlotSafe, SlotTwins, TwinFree, Changing, Asking
  <2> QED BY <2>5, <2>6, <2>8, <2>9 DEF Slot, Guarded
<1>3. CASE TriesAgain /\ UNCHANGED <<disk, service, mem, taken>>
  BY <1>1, <1>3, TriesAgainKeeps
<1> QED BY <1>2, <1>3 DEF RenewReserve

\* An answer stored under the newest name of its account is its login's newest item.
LEMMA AnswerStored ==
  ASSUME Inv, NEW ix, NEW a \in Accounts, NEW f \in Logins, NEW n \in Names, n[1] = a, n[2] = clock,
         IndexTrue(ix, vault, clock), n \in listed, n \notin ix.discarded, ix.parked[a].name # n,
         \A m \in Names : vault[m] # NoLogin => m[2] <= clock,
         NEW w, w[n] = f, \A m \in Names : m # n => w[m] = vault[m],
         Newest(ix, a, f, listed, vault, usable)
  PROVE  Newest(ix, a, f, listed, w, usable)
<1>1. \A m \in Names : m[1] = a /\ m # n /\ m[2] <= clock => m[2] < n[2]
  <2> SUFFICES ASSUME NEW m \in Names, m[1] = a, m # n, m[2] <= clock PROVE m[2] < n[2]
    OBVIOUS
  <2>1. m[2] \in Nat /\ n[2] \in Nat /\ m = <<m[1], m[2]>> /\ n = <<n[1], n[2]>>
    BY SwitchBounds DEF Names
  <2> QED BY <2>1
<1>2. \A p \in Offers(ix, a, listed, w) :
        \/ p.name = n /\ p.login = f
        \/ /\ p \in Offers(ix, a, listed, vault) /\ p.name # n /\ p.name \in Names /\ p.name[1] = a
           /\ p.name[2] < n[2]
  <2> SUFFICES ASSUME NEW p \in Offers(ix, a, listed, w)
               PROVE  \/ p.name = n /\ p.login = f
                      \/ /\ p \in Offers(ix, a, listed, vault) /\ p.name # n
                         /\ p.name \in Names /\ p.name[1] = a /\ p.name[2] < n[2]
    OBVIOUS
  <2>1. p.name \in Names /\ p.name[1] = a /\ p.login # NoLogin /\ p \in Parks /\ p # NoPark
    BY NobodyNamed DEF Offers, Parks, NoPark
  <2>2. CASE ix.parked[a] = p
    <3>1. p.name # n /\ p.name[2] <= clock
      BY <2>1, <2>2 DEF IndexTrue, ParkOK
    <3> QED BY <1>1, <2>1, <2>2, <3>1 DEF Offers
  <2>3. CASE p.name \in listed \ ix.discarded /\ w[p.name] = p.login
    BY <1>1, <2>1, <2>3 DEF Offers
  <2> QED BY <2>2, <2>3 DEF Offers
<1> QED BY <1>2 DEF Newest

\* What an answer stored leaves, recorded or not.
LEMMA StoresKeeps ==
  ASSUME Guarded, pc = "renewStore",
         vault' = [vault EXCEPT ![run.park] = run.fresh[run.who]],
         UNCHANGED <<live, index, journal, listed, clock, usable, issued, sess, mem, taken>>,
         run'.fresh = run.fresh, run'.seen = run.seen, run'.before = run.before, pc' \notin Writing
  PROVE  Traced' /\ Secure' /\ SlotHolds' /\ JournalBacked' /\ Answers'
<1>0. /\ Inv /\ Traced /\ StagedSettling /\ StagedNames /\ Secure /\ SlotHolds /\ JournalBacked /\ Answers
      /\ IndexTrue(index, vault, clock) /\ IndexTrue(mem, vault, clock)
  BY DEF Guarded, Basis, Staged, Slot, Inv, DiskTrue, RunTrue
<1>1. PICK a \in Accounts : a = run.who
  BY <1>0 DEF Inv, RunTrue, Asked, Asking
<1>2. PICK n \in Names : n = run.park
  BY <1>0 DEF Inv, RunTrue, Reserved
<1>3. PICK f \in Logins : f = run.fresh[a]
  BY <1>0, <1>1 DEF Inv, RunTrue, Asked, Asking, Runs
<1>4. /\ n[1] = a /\ n[2] = clock /\ n \in listed /\ n \notin index.discarded /\ n \notin mem.discarded
      /\ index.parked[a].name # n /\ mem.parked[a].name # n /\ journal = NoJournal
      /\ Account(f) = a
  BY <1>0, <1>1, <1>2, <1>3, NobodyNamed DEF Inv, RunTrue, Reserved, Asked, Unused, References, StagedNames, StagedSettling,
                   Unjournaled, Asking
<1>5. vault'[n] = f /\ \A m \in Names : m # n => vault'[m] = vault[m]
  BY <1>0, <1>1, <1>2, <1>3 DEF Inv, DiskTrue, VaultTrue
<1>6. \A b : Safe(b) => Safe(b)'
  BY SafeStays
<1>7. Traced'
  <2>1. \A m \in Names : vault'[m] # NoLogin => m[2] <= clock' /\ Known(vault'[m], issued')
    <3>1. n[2] <= clock
      BY <1>4, SwitchBounds DEF Names
    <3> QED BY <1>0, <1>3, <1>5, <3>1 DEF Traced
  <2>2. SessionTraced'
    <3> SUFFICES ASSUME sess' # NoRenewal PROVE Unsaved(sess.fresh)'
      BY <1>0 DEF Traced, SessionTraced
    <3> QED BY <1>0, <1>3, <1>5 DEF Traced, SessionTraced, Unsaved
  <2>3. \A m \in index'.discarded : vault'[m] # NoLogin => m \in mem'.discarded
    <3>1. index.discarded \subseteq Names
      BY <1>0 DEF IndexTrue, Indexes
    <3> QED BY <1>0, <1>4, <1>5, <3>1 DEF Traced
  <2> QED BY <1>0, <2>1, <2>2, <2>3 DEF Traced
<1>8. Secure'
  <2> SUFFICES ASSUME NEW b \in Accounts, ~Safe(b), ~Safe(b)'
               PROVE  Stored(index', mem', b, run'.fresh[b], listed', vault', usable')
                        \/ (Alike(b) /\ Spares(mem, mem, b))
    BY <1>0, <1>6, SecureStep
  <2>1. CASE b = a
    <3>1. Firm(index, mem, a, f, listed, vault, usable)
      BY <1>0, <1>3, <2>1, NobodyNamed DEF Secure, Stored
    <3>2. \A m \in Names : vault[m] # NoLogin => m[2] <= clock
      BY <1>0 DEF Traced
    <3>3. Newest(index, a, f, listed, vault', usable)
      BY <1>0, <1>4, <1>5, <3>1, <3>2, AnswerStored DEF Firm
    <3>4. Newest(mem, a, f, listed, vault', usable)
      BY <1>0, <1>4, <1>5, <3>1, <3>2, AnswerStored DEF Firm
    <3> QED BY <1>3, <2>1, <3>1, <3>3, <3>4, NobodyNamed DEF Stored, Firm
  <2>2. CASE b # a
    BY <1>4, <1>5, <2>2 DEF Alike, Spares
  <2> QED BY <2>1, <2>2
<1>9. SlotHolds' /\ JournalBacked'
  BY <1>0, <1>4 DEF SlotHolds, JournalBacked, Renewing, SavesOver
<1>10. Answers'
  <2> SUFFICES ASSUME NEW b \in Accounts, run.fresh[b] # NoLogin, NEW m \in Names, vault'[m] = run.fresh[b]
               PROVE  m \in listed /\ m \notin index.discarded /\ m \notin mem.discarded
    BY <1>0 DEF Answers
  <2> QED BY <1>0, <1>4, <1>5 DEF Answers
<1> QED BY <1>7, <1>8, <1>9, <1>10

\* The answer is stored, or the write fails and may have stored it.
LEMMA RenewStoreKeeps ==
  ASSUME Guarded, Basis', RenewStore
  PROVE  Guarded'
<1>0. /\ Inv /\ StagedSettling /\ StagedNames /\ StagedChange /\ SlotTwins
  BY DEF Guarded, Basis, Staged, Slot
<1>1. /\ pc = "renewStore" /\ journal = NoJournal
      /\ UNCHANGED <<live, index, journal, listed, clock, usable, issued, sess, mem, taken>>
      /\ vault' \in {vault, [vault EXCEPT ![run.park] = run.fresh[run.who]]}
  BY <1>0 DEF RenewStore, StagedSettling, Unjournaled, Asking, service
<1>2. CASE TriesAgain /\ vault' = vault
  BY <1>1, <1>2, TriesAgainKeeps DEF disk, service
<1>3. CASE vault' = [vault EXCEPT ![run.park] = run.fresh[run.who]]
  <2>1. /\ pc' \in {"renewReserve", "renewLost", "renewRecord"}
        /\ run' \in {run, [run EXCEPT !.second = TRUE]} /\ (pc' = "renewRecord" => run' = run)
    BY DEF RenewStore, TriesAgain, Goes
  <2>2. /\ run'.seen = run.seen /\ run'.before = run.before /\ run'.fresh = run.fresh
        /\ run'.cmd = run.cmd /\ run'.refused = run.refused /\ run'.to = run.to
        /\ run'.going = run.going /\ run'.out = run.out /\ run'.park = run.park
    BY <1>0, <2>1 DEF Inv, RunTrue, Runs
  <2>3. pc' \notin Writing
    BY <2>1 DEF Writing
  <2>4. Traced' /\ Secure' /\ SlotHolds' /\ JournalBacked' /\ Answers'
    BY <1>1, <1>3, <2>2, <2>3, StoresKeeps
  <2>5. Staged'
    BY <1>0, <1>1, <2>1, <2>2 DEF Staged, StagedSettling, StagedNames, StagedChange, Unjournaled,
                          Swept, Asking, Changing, Writing, Knowing
  <2>6. SlotSafe' /\ SlotTwins'
    BY <1>0, <1>1, <2>1, <2>2 DEF SlotSafe, SlotTwins, TwinFree, Changing, Asking
  <2> QED BY <2>4, <2>5, <2>6 DEF Slot, Guarded
<1>4. \/ TriesAgain /\ vault' = vault
      \/ vault' = [vault EXCEPT ![run.park] = run.fresh[run.who]]
  BY DEF RenewStore
<1> QED BY <1>2, <1>3, <1>4

\* The answers still to be written are those of the accounts nothing is changed of.
LEMMA AnswersSpared ==
  ASSUME Inv, Answers, pc \in Asking, NEW a \in Accounts, NEW old \in Names, old[1] = a, NEW iy,
         \A b \in Accounts : b # a => Spares(mem, iy, b),
         iy.discarded = mem.discarded \cup {old},
         index' \in {index, iy}, mem' \in {index', iy}, UNCHANGED <<vault, listed>>,
         \A b \in Accounts : run'.fresh[b] = IF b = a THEN NoLogin ELSE run.fresh[b]
  PROVE  Answers'
<1> SUFFICES ASSUME NEW b \in Accounts, b # a, run.fresh[b] # NoLogin
             PROVE  /\ index'.parked[b].login # run.fresh[b] /\ mem'.parked[b].login # run.fresh[b]
                    /\ \A n \in Names : vault[n] = run.fresh[b] =>
                         n \in listed /\ n \notin index'.discarded /\ n \notin mem'.discarded
  BY DEF Answers
<1>1. /\ index.parked[b].login # run.fresh[b] /\ mem.parked[b].login # run.fresh[b]
      /\ \A n \in Names : vault[n] = run.fresh[b] =>
           n \in listed /\ n \notin index.discarded /\ n \notin mem.discarded
  BY DEF Answers
<1>2. Account(run.fresh[b]) = b
  BY DEF Inv, RunTrue, Asked, Asking
<1>3. vault[old] # run.fresh[b]
  BY <1>2 DEF Inv, DiskTrue, VaultTrue
<1>4. iy.parked[b].login # run.fresh[b]
  BY <1>1 DEF Spares
<1> QED BY <1>1, <1>3, <1>4

\* An answer recorded under the name it was stored under is its account's login.
LEMMA RecordedStored ==
  ASSUME Inv, NEW a \in Accounts, NEW f \in Logins, NEW n \in Names, n[1] = a,
         vault[n] = f, n \in listed, n \notin index.discarded, n \notin mem.discarded,
         IndexTrue(mem, vault, clock), mem.parked[a] # NoPark, mem.parked[a].login # f,
         index.parked[a].login # f,
         NEW iy, iy.parked[a] = [name |-> n, login |-> f],
         iy.discarded = mem.discarded \cup {mem.parked[a].name},
         Firm(index, mem, a, f, listed, vault, usable)
  PROVE  Stored(index, iy, a, NoLogin, listed, vault, usable)
<1> DEFINE p == [name |-> n, login |-> f]
<1>1. p \in Parks /\ p.name = n /\ p.login = f /\ p \in Offers(index, a, listed, vault)
      /\ p \in Offers(mem, a, listed, vault) /\ p \in Offers(iy, a, listed, vault)
  BY DEF Offers, Parks
<1>2. vault[mem.parked[a].name] # f
  BY NobodyNamed DEF IndexTrue, ParkOK
<1>3. Offers(iy, a, listed, vault) \subseteq Offers(mem, a, listed, vault)
  BY <1>1 DEF Offers
<1>4. Newest(iy, a, f, listed, vault, usable)
  BY <1>2, <1>3 DEF Newest, Firm
<1>5. Firm(index, iy, a, f, listed, vault, usable) /\ Both(index, iy, a, f, listed, vault)
  BY <1>1, <1>4 DEF Firm, Both
<1> QED BY <1>5 DEF Stored

\* An answer is recorded in place of the login it was exchanged for.
LEMMA RenewRecordKeeps ==
  ASSUME Guarded, Basis', RenewRecord
  PROVE  Guarded'
<1>0. /\ Inv /\ Traced /\ StagedSettling /\ StagedNames /\ StagedChange /\ Secure /\ SlotTwins
      /\ SlotHolds /\ JournalBacked /\ Answers /\ IndexTrue(mem, vault, clock) /\ Enrolls(mem)
      /\ clock \in Nat
  BY SwitchBounds DEF Guarded, Basis, Staged, Slot, Inv, DiskTrue, ListTrue, RunTrue, Traced, IndexKnown, Enrolls
<1>1. pc = "renewRecord" /\ run.who \in Accounts /\ journal = NoJournal
  BY <1>0 DEF RenewRecord, Inv, RunTrue, Asked, Asking, StagedSettling, Unjournaled
<1>2. PICK a \in Accounts : a = run.who
  BY <1>1
<1>3. PICK n \in Names : n = run.park
  BY <1>0, <1>1 DEF Inv, RunTrue, Reserved
<1>4. PICK f \in Logins : f = run.fresh[a]
  BY <1>0, <1>1, <1>2 DEF Inv, RunTrue, Asked, Asking, Runs
<1>5. /\ n[1] = a /\ n[2] <= clock /\ vault[n] = f /\ Account(f) = a /\ mem.parked[a] # NoPark
      /\ n \in listed /\ n \notin index.discarded /\ n \notin mem.discarded
      /\ f # NoLogin /\ a \notin run.refused
      /\ (run.cmd # "renew" => a = run.to /\ \A b \in Accounts : b # a => run.fresh[b] = NoLogin)
  BY <1>0, <1>1, <1>2, <1>3, <1>4, NobodyNamed DEF Inv, RunTrue, Reserved, Asked, Asking, StagedNames
<1>6. /\ index.parked[a].login # f /\ mem.parked[a].login # f /\ f # live
  BY <1>0, <1>1, <1>4, <1>5 DEF Answers, SlotTwins, TwinFree, Asking
<1>7. PICK p : p = [name |-> n, login |-> f]
  OBVIOUS
<1>8. p \in Parks /\ p.name = n /\ p.login = f /\ ParkOK(a, p, vault, clock) /\ vault[p.name] = p.login
  BY <1>5, <1>7 DEF Parks, ParkOK
<1>9. PICK old \in Names : old = mem.parked[a].name /\ old[1] = a
  BY <1>0, <1>5 DEF IndexTrue, ParkOK, Parks
<1>10. PICK iy : iy = ParkFor(Discard(mem, mem.parked[a].name), a, p)
  OBVIOUS
<1>11. /\ Follows(mem, iy, vault, clock) /\ iy.enrolled = mem.enrolled
       /\ iy.parked[a] = p /\ iy.discarded = mem.discarded \cup {mem.parked[a].name}
       /\ \A b \in Accounts : b # a => Spares(mem, iy, b)
  <2>1. /\ IndexTrue(mem, vault, clock) /\ Enrolls(mem) /\ clock \in Nat
        /\ ParkOK(a, p, vault, clock) /\ vault[p.name] = p.login /\ mem.parked[a] # NoPark
    BY <1>0, <1>5, <1>8
  <2> QED BY <1>10, <2>1, RenewedFollows
<1>12. PICK done : done = [run EXCEPT !.fresh[run.who] = NoLogin, !.park = NoName]
  OBVIOUS
<1>13. /\ done.seen = run.seen /\ done.before = run.before /\ done.next = run.next
       /\ done.cmd = run.cmd /\ done.refused = run.refused /\ done.to = run.to
       /\ done.going = run.going /\ done.out = run.out
       /\ \A b \in Accounts : done.fresh[b] = IF b = a THEN NoLogin ELSE run.fresh[b]
  BY <1>0, <1>2, <1>12 DEF Inv, RunTrue, Runs
<1>14. /\ index' \in {index, iy} /\ mem' \in {index', iy} /\ journal' = journal /\ Plain
       /\ \/ Ends /\ run.cmd # "renew"
          \/ mem' = iy /\ pc' = "ask" /\ run' = done /\ run.cmd = "renew"
          \/ /\ mem' = iy /\ index' = iy /\ pc' = "lock" /\ run' = [done EXCEPT !.inc = p]
             /\ run.cmd # "renew"
  <2>1. /\ Plain /\ journal' = journal
        /\ \/ /\ Saves(iy)
              /\ IF run.cmd = "renew" THEN run' = done /\ Goes("ask")
                 ELSE run' = [done EXCEPT !.inc = p] /\ Goes("lock")
           \/ /\ SaveFails
              /\ IF run.cmd = "renew" THEN mem' = iy /\ run' = done /\ Goes("ask") ELSE Ends
    BY <1>2, <1>3, <1>4, <1>7, <1>10, <1>12 DEF RenewRecord, Plain, service
  <2> QED BY <2>1 DEF Saves, SaveFails, Goes, Ends
<1>15. /\ \A b \in Accounts : run'.fresh[b] = IF b = a THEN NoLogin ELSE run.fresh[b]
       /\ run'.seen \in {run.seen, NoLogin} /\ run'.before \in {run.before, NoLogin}
       /\ pc' \in {"ask", "lock", "idle"}
  <2>1. CASE Ends /\ run.cmd # "renew"
    BY <1>5, <2>1 DEF Ends, NoRun
  <2>2. CASE run' = done /\ pc' = "ask"
    BY <1>13, <2>2
  <2>3. CASE run' = [done EXCEPT !.inc = p] /\ pc' = "lock"
    <3>1. done \in Runs
      BY <1>0, <1>2, <1>12 DEF Inv, RunTrue, Runs
    <3>2. run'.fresh = done.fresh /\ run'.seen = done.seen /\ run'.before = done.before
      BY <2>3, <3>1 DEF Runs
    <3> QED BY <1>13, <2>3, <3>2
  <2> QED BY <1>14, <2>1, <2>2, <2>3
<1>16. Makes(iy) /\ RunKept
  <2>1. IndexTrue(Discard(mem, old), vault, clock)
    BY <1>0, <1>9, DiscardFits
  <2>2. IndexTrue(iy, vault, clock)
    BY <1>8, <1>9, <1>10, <2>1, ParkForFits
  <2> QED BY <1>11, <1>14, <1>15, <2>2 DEF Makes, RunKept
<1>17. Traced'
  <2>1. clock' \in Nat /\ clock <= clock' /\ JournalTraced(journal', clock') /\ Known(live', issued)
    BY <1>0, <1>1, <1>14 DEF Traced, JournalTraced, Plain
  <2> QED BY <1>0, <1>14, <1>16, <2>1, TracedOver DEF Plain
<1>18. \A b : Safe(b) => Safe(b)'
  BY <1>0, <1>14, <1>16, SafeStays, MakesEnrolled DEF Plain
<1>19. Safe(a) \/ Stored(index, iy, a, NoLogin, listed, vault, usable)
  <2> SUFFICES ASSUME ~Safe(a) PROVE Stored(index, iy, a, NoLogin, listed, vault, usable)
    OBVIOUS
  <2>1. Firm(index, mem, a, f, listed, vault, usable)
    BY <1>0, <1>4, <1>5 DEF Secure, Stored
  <2> QED BY <1>0, <1>5, <1>6, <1>7, <1>11, <2>1, RecordedStored
<1>20. Secure'
  <2>1. Safe(a)' \/ Stored(index', mem', a, run'.fresh[a], listed', vault', usable')
    BY <1>14, <1>15, <1>18, <1>19, StoredEither DEF Plain
  <2>2. \A b \in Accounts : b # a => Alike(b) /\ Spares(mem, iy, b)
    BY <1>11, <1>14, <1>15 DEF Alike, Plain
  <2> QED BY <1>0, <1>14, <1>16, <1>18, <2>1, <2>2, SecureStep DEF Makes
<1>21. Answers'
  BY <1>0, <1>1, <1>9, <1>11, <1>14, <1>15, AnswersSpared DEF Plain, Asking
<1>22. SlotHolds' /\ JournalBacked'
  BY <1>0, <1>1, <1>14, <1>15, <1>16, PlainHolds DEF Writing, JournalBacked
<1>23. f \in usable \/ Safe(a)
  BY <1>0, <1>4, <1>5 DEF Secure, Stored, Firm
<1>24. CASE pc' = "idle"
  <2>1. run' = NoRun /\ mem' = index'
    BY <1>14, <1>24 DEF Ends
  <2>2. Staged'
    BY <1>24, <2>1 DEF Staged, StagedSettling, StagedNames, StagedChange, Unjournaled, Swept,
                       Asking, Changing, Writing, Knowing
  <2>3. SlotSafe' /\ SlotTwins'
    BY <1>24 DEF SlotSafe, SlotTwins, TwinFree, Changing, Asking
  <2> QED BY <1>17, <1>20, <1>21, <1>22, <2>2, <2>3 DEF Slot, Guarded
<1>25. CASE pc' = "ask"
  <2>1. mem' = iy /\ run' = done /\ run.cmd = "renew"
    BY <1>14, <1>25 DEF Ends
  <2>2. \A b \in run'.refused : mem'.parked[b].login \notin usable'
    <3> SUFFICES ASSUME NEW b \in run.refused PROVE iy.parked[b].login \notin usable
      BY <1>13, <1>14, <2>1 DEF Plain
    <3>1. b \in Accounts /\ mem.parked[b].login \notin usable /\ b # a
      BY <1>0, <1>1, <1>5 DEF StagedChange, Asking, Inv, RunTrue, Runs
    <3> QED BY <1>11, <3>1 DEF Spares
  <2>3. Staged'
    BY <1>1, <1>13, <1>14, <1>25, <2>1, <2>2 DEF Staged, StagedSettling, StagedNames, StagedChange,
                       Unjournaled, Swept, Asking, Changing, Writing, Knowing
  <2>4. SlotSafe'
    BY <1>25 DEF SlotSafe, Changing
  <2>5. SlotTwins'
    <3> SUFFICES ASSUME NEW b \in Accounts, live \in Logins
                 PROVE  iy.parked[b].login # live /\ done.fresh[b] # live
      BY <1>14, <1>25, <2>1 DEF SlotTwins, Plain
    <3>1. mem.parked[b].login # live /\ run.fresh[b] # live
      BY <1>0, <1>1 DEF SlotTwins, TwinFree, Asking
    <3> QED BY <1>6, <1>8, <1>11, <1>13, <3>1, NobodyNamed DEF Spares
  <2> QED BY <1>17, <1>20, <1>21, <1>22, <2>3, <2>4, <2>5 DEF Slot, Guarded
<1>26. CASE pc' = "lock"
  <2>1. mem' = iy /\ index' = iy /\ run' = [done EXCEPT !.inc = p] /\ run.cmd # "renew" /\ a = run.to
    BY <1>5, <1>14, <1>26 DEF Ends
  <2>2. /\ run'.seen = run.seen /\ run'.before = run.before /\ run'.next = run.next
        /\ run'.cmd = run.cmd /\ run'.to = run.to /\ run'.going = run.going /\ run'.out = run.out
        /\ run'.inc = p
    <3>1. done \in Runs
      BY <1>0, <1>2, <1>12 DEF Inv, RunTrue, Runs
    <3> QED BY <1>8, <1>13, <2>1, <3>1 DEF Runs
  <2>3. Staged'
    BY <1>0, <1>1, <1>11, <1>14, <1>26, <2>1, <2>2 DEF Staged, StagedSettling, StagedNames, StagedChange,
                       Unjournaled, Swept, Asking, Changing, Writing, Knowing, Plain
  <2>4. SlotSafe'
    BY <1>8, <1>14, <1>18, <1>23, <1>26, <2>1, <2>2 DEF SlotSafe, Plain
  <2>5. SlotTwins'
    BY <1>26 DEF SlotTwins, TwinFree, Asking
  <2> QED BY <1>17, <1>20, <1>21, <1>22, <2>3, <2>4, <2>5 DEF Slot, Guarded
<1> QED BY <1>15, <1>24, <1>25, <1>26

\* What an index offers of an account that is still taken is its newest login.
LEMMA KeptNewest ==
  ASSUME Inv, NEW ix, NEW a \in Accounts, NEW f, IndexTrue(ix, vault, clock),
         Newest(ix, a, f, listed, vault, usable),
         NEW n \in Names, vault[n] \in usable, Account(vault[n]) = a, n \notin ix.discarded,
         n = ix.parked[a].name \/ n \in listed
  PROVE  vault[n] = f
<1>1. vault[n] \in Logins /\ vault[n] # NoLogin /\ n[1] = a
  BY NobodyNamed DEF Inv, DiskTrue, WorldOK, VaultTrue
<1>2. CASE n \in listed
  <2>1. [name |-> n, login |-> vault[n]] \in Offers(ix, a, listed, vault)
    BY <1>1, <1>2 DEF Offers, Parks
  <2> QED BY <2>1 DEF Newest
<1>3. CASE n = ix.parked[a].name
  <2>1. ix.parked[a] # NoPark
    BY <1>3, NobodyNamed DEF NoPark
  <2>2. ParkOK(a, ix.parked[a], vault, clock)
    BY <2>1 DEF IndexTrue
  <2>3. ix.parked[a] \in Offers(ix, a, listed, vault) /\ ix.parked[a].login = vault[n]
    BY <1>1, <1>3, <2>2 DEF ParkOK, Offers
  <2> QED BY <2>3 DEF Newest
<1> QED BY <1>2, <1>3

\* An answer that is lost, but kept after all, is stored under a name on the list.
LEMMA AnswerLeft ==
  ASSUME Inv, Answers, NEW a \in Accounts, NEW f \in Logins, f = run.fresh[a], f # NoLogin,
         NEW iy, IndexTrue(iy, vault, clock), Firm(index, iy, a, f, listed, vault, usable),
         \A n \in Names : vault[n] = f => n \notin iy.discarded,
         index' \in {index, iy}, UNCHANGED <<vault, listed, usable>>, Kept(a)'
  PROVE  Stored(index, iy, a, NoLogin, listed, vault, usable)
<1>1. PICK n \in Names : /\ vault[n] \in usable /\ Account(vault[n]) = a
                         /\ n \notin index'.discarded
                         /\ n = index'.parked[a].name \/ n \in listed
  BY DEF Kept
<1>2. IndexTrue(index', vault, clock) /\ Newest(index', a, f, listed, vault, usable)
  BY DEF Inv, DiskTrue, Firm
<1>3. vault[n] = f
  BY <1>1, <1>2, KeptNewest
<1>4. n \in listed /\ n \notin index.discarded /\ n \notin iy.discarded /\ n[1] = a
  BY <1>1, <1>3, NobodyNamed DEF Answers, Inv, DiskTrue, VaultTrue
<1>5. [name |-> n, login |-> f] \in Offers(index, a, listed, vault) \cap Offers(iy, a, listed, vault)
  BY <1>3, <1>4 DEF Offers, Parks
<1> QED BY <1>5 DEF Stored, Both

\* An answer nobody could write down leaves its account what it has elsewhere.
LEMMA RenewLostKeeps ==
  ASSUME Guarded, Basis', RenewLost
  PROVE  Guarded'
<1>0. /\ Inv /\ Traced /\ StagedSettling /\ StagedNames /\ StagedChange /\ Secure /\ SlotTwins
      /\ SlotHolds /\ JournalBacked /\ Answers /\ IndexTrue(mem, vault, clock) /\ Enrolls(mem)
      /\ clock \in Nat
  BY SwitchBounds DEF Guarded, Basis, Staged, Slot, Inv, DiskTrue, ListTrue, RunTrue, Traced, IndexKnown, Enrolls
<1>1. /\ pc = "renewLost" /\ run.who \in Accounts /\ journal = NoJournal
      /\ UNCHANGED <<live, vault, journal, listed, clock, usable, issued, sess>>
  BY <1>0 DEF RenewLost, Inv, RunTrue, Asked, Asking, StagedSettling, Unjournaled, service
<1>2. PICK a \in Accounts : a = run.who
  BY <1>1
<1>3. PICK f \in Logins : f = run.fresh[a]
  BY <1>0, <1>1, <1>2 DEF Inv, RunTrue, Asked, Asking, Runs
<1>4. /\ Account(f) = a /\ mem.parked[a] # NoPark /\ f # NoLogin /\ a \notin run.refused
      /\ (run.cmd # "renew" => \A b \in Accounts : b # a => run.fresh[b] = NoLogin)
  BY <1>0, <1>1, <1>2, <1>3, NobodyNamed DEF Inv, RunTrue, Asked, Asking
<1>5. /\ index.parked[a].login # f /\ mem.parked[a].login # f
      /\ \A n \in Names : vault[n] = f => n \notin mem.discarded
  BY <1>0, <1>3, <1>4 DEF Answers
<1>6. PICK old \in Names : old = mem.parked[a].name /\ old[1] = a /\ old[2] <= clock
  BY <1>0, <1>4 DEF IndexTrue, ParkOK, Parks
<1>7. PICK iy : iy = Discard(mem, old)
  OBVIOUS
<1>8. /\ Follows(mem, iy, vault, clock) /\ iy.enrolled = mem.enrolled
      /\ iy.discarded = mem.discarded \cup {old}
      /\ \A b \in Accounts : mem.parked[b].name = old => iy.parked[b] = NoPark
      /\ \A b \in Accounts : b # old[1] => Spares(mem, iy, b)
  <2>1. IndexTrue(mem, vault, clock) /\ Enrolls(mem) /\ old[2] <= clock /\ iy = Discard(mem, old)
    BY <1>0, <1>6, <1>7
  <2> QED BY <2>1, DiscardFollows
<1>9. IndexTrue(iy, vault, clock)
  BY <1>0, <1>6, <1>7, DiscardFits
<1>10. /\ index' \in {index, iy} /\ mem' \in {index', iy} /\ taken' = taken \cup Lost(a)
       /\ \/ Ends /\ run.cmd # "renew"
          \/ /\ mem' = iy /\ pc' = "ask" /\ run' = [run EXCEPT !.fresh[run.who] = NoLogin]
             /\ run.cmd = "renew"
  <2>1. /\ (index' = iy /\ NoFault) \/ SaveFails
        /\ taken' = taken \cup Lost(a)
        /\ IF run.cmd = "renew"
           THEN /\ mem' = iy /\ Goes("ask")
                /\ run' = [run EXCEPT !.fresh[run.who] = NoLogin]
           ELSE Ends
    <3>1. iy = Discard(mem, mem.parked[run.who].name)
      BY <1>2, <1>6, <1>7
    <3> QED BY <1>2, <3>1 DEF RenewLost
  <2> QED BY <2>1 DEF SaveFails, Goes, Ends
<1>11. /\ \A b \in Accounts : run'.fresh[b] = IF b = a THEN NoLogin ELSE run.fresh[b]
       /\ run'.seen \in {run.seen, NoLogin} /\ run'.before \in {run.before, NoLogin}
       /\ pc' \in {"ask", "idle"}
       /\ (pc' = "ask" => /\ run'.cmd = "renew" /\ run'.next = run.next /\ run'.refused = run.refused
                          /\ mem' = iy)
  <2>1. CASE Ends /\ run.cmd # "renew"
    BY <1>4, <2>1 DEF Ends, NoRun
  <2>2. CASE ~(Ends /\ run.cmd # "renew")
    BY <1>0, <1>2, <1>10, <2>2 DEF Inv, RunTrue, Runs
  <2> QED BY <2>1, <2>2
<1>12. Makes(iy) /\ RunKept
  BY <1>8, <1>9, <1>10, <1>11 DEF Makes, RunKept
<1>13. Traced'
  <2>1. clock' \in Nat /\ clock <= clock' /\ JournalTraced(journal', clock') /\ Known(live', issued)
    BY <1>0, <1>1 DEF Traced, JournalTraced
  <2> QED BY <1>0, <1>1, <1>12, <2>1, TracedOver
<1>14. \A b : Safe(b) => Safe(b)'
  <2>1. index'.enrolled \subseteq index.enrolled
    BY <1>0, <1>12, MakesEnrolled
  <2> QED BY <1>1, <1>10, <2>1 DEF Safe, Signed, Renewing, SavesOver
<1>15. Safe(a)' \/ Stored(index, iy, a, NoLogin, listed, vault, usable)
  <2> SUFFICES ASSUME ~Safe(a)' PROVE Stored(index, iy, a, NoLogin, listed, vault, usable)
    OBVIOUS
  <2>1. Firm(index, mem, a, f, listed, vault, usable)
    BY <1>0, <1>3, <1>4, <1>14 DEF Secure, Stored
  <2>2. iy.parked[a] = NoPark /\ iy.discarded = mem.discarded \cup {mem.parked[a].name}
    BY <1>6, <1>8
  <2>3. Firm(index, iy, a, f, listed, vault, usable)
    BY <1>0, <1>4, <1>5, <2>1, <2>2, DiscardedFirm
  <2>4. \A n \in Names : vault[n] = f => n \notin iy.discarded
    BY <1>0, <1>4, <1>5, <1>6, <1>8, NobodyNamed DEF IndexTrue, ParkOK
  <2>5. Kept(a)'
    BY <1>10 DEF Safe, Lost, Held
  <2> QED BY <1>0, <1>1, <1>3, <1>4, <1>9, <1>10, <2>3, <2>4, <2>5, AnswerLeft
<1>16. Secure'
  <2>1. Safe(a)' \/ Stored(index', mem', a, run'.fresh[a], listed', vault', usable')
    BY <1>1, <1>10, <1>11, <1>15, StoredEither
  <2>2. \A b \in Accounts : b # a => Alike(b) /\ Spares(mem, iy, b)
    BY <1>1, <1>6, <1>8, <1>11 DEF Alike
  <2> QED BY <1>0, <1>9, <1>10, <1>14, <2>1, <2>2, SecureStep
<1>17. Answers'
  BY <1>0, <1>1, <1>6, <1>8, <1>10, <1>11, AnswersSpared DEF Asking
<1>18. SlotHolds' /\ JournalBacked'
  BY <1>0, <1>1, <1>10, <1>11 DEF SlotHolds, JournalBacked, Renewing, SavesOver, Writing
<1>19. Staged'
  <2>1. CASE pc' = "idle"
    <3>1. run' = NoRun /\ mem' = index'
      BY <1>10, <2>1 DEF Ends
    <3> QED BY <2>1, <3>1 DEF Staged, StagedSettling, StagedNames, StagedChange, Unjournaled, Swept,
                       Asking, Changing, Writing, Knowing
  <2>2. CASE pc' = "ask"
    <3>1. \A b \in run'.refused : mem'.parked[b].login \notin usable'
      <4> SUFFICES ASSUME NEW b \in run.refused PROVE iy.parked[b].login \notin usable
        BY <1>1, <1>11, <2>2
      <4>1. b \in Accounts /\ mem.parked[b].login \notin usable /\ b # a
        BY <1>0, <1>1, <1>4 DEF StagedChange, Asking, Inv, RunTrue, Runs
      <4> QED BY <1>6, <1>8, <4>1 DEF Spares
    <3> QED BY <1>1, <1>11, <2>2, <3>1 DEF Staged, StagedSettling, StagedNames, StagedChange,
                       Unjournaled, Swept, Asking, Changing, Writing, Knowing
  <2> QED BY <1>11, <2>1, <2>2
<1>20. SlotSafe'
  BY <1>11 DEF SlotSafe, Changing
<1>21. SlotTwins'
  <2> SUFFICES ASSUME pc' = "ask", NEW b \in Accounts, live \in Logins
               PROVE  mem'.parked[b].login # live /\ run'.fresh[b] # live
    BY <1>1, <1>11 DEF SlotTwins, TwinFree, Asking
  <2>1. mem.parked[b].login # live /\ run.fresh[b] # live
    BY <1>0, <1>1 DEF SlotTwins, TwinFree, Asking
  <2>2. iy.parked[b].login # live
    BY <1>6, <1>8, <2>1, NobodyNamed DEF Spares, NoPark
  <2> QED BY <1>11, <2>1, <2>2, NobodyNamed
<1> QED BY <1>13, <1>16, <1>17, <1>18, <1>19, <1>20, <1>21 DEF Slot, Guarded

\* A renewal's steps, one by one.
LEMMA RenewKeeps ==
  ASSUME Guarded, Basis', Reliable, Renew
  PROVE  Guarded'
<1>1. ASSUME NEW a \in Accounts, Ask(a) PROVE Guarded'
  BY <1>1, AskKeeps
<1>2. ASSUME NEW a \in Accounts, DropRefused(a) PROVE Guarded'
  BY <1>2, DropRefusedKeeps
<1>3. ASSUME (\E a \in Accounts : WriteFresh(a)) \/ NoMoreAnswers PROVE Guarded'
  BY <1>3, AnsweredKeeps
<1> QED BY <1>1, <1>2, <1>3, RenewReserveKeeps, RenewStoreKeeps, RenewRecordKeeps, RenewLostKeeps DEF Renew

-----------------------------------------------------------------------------
(* Dying. *)

\* A run that dies with answers in hand leaves each account what it has elsewhere, or
\* has lost it to nobody's knowledge.
LEMMA CrashAskingKeeps ==
  ASSUME Guarded, Basis', Crash, pc \in Asking
  PROVE  Guarded'
<1>0. /\ Inv /\ Traced /\ StagedSettling /\ Secure /\ SlotHolds /\ Answers
      /\ IndexTrue(mem, vault, clock) /\ IndexTrue(index, vault, clock) /\ clock \in Nat
  BY SwitchBounds DEF Guarded, Basis, Staged, Slot, Inv, DiskTrue, ListTrue, RunTrue
<1>1. /\ UNCHANGED <<live, vault, index, journal, listed, clock, usable, issued, sess>>
      /\ taken' = taken \cup {a \in Accounts : run.fresh[a] # NoLogin /\ ~Held(a)'}
      /\ pc' = "idle" /\ run' = NoRun /\ mem' = index' /\ journal = NoJournal
  BY <1>0 DEF Crash, Ends, service, Asking, StagedSettling, Unjournaled
<1>2. /\ run'.seen = NoLogin /\ run'.before = NoLogin /\ \A a \in Accounts : run'.fresh[a] = NoLogin
  BY <1>1 DEF NoRun
<1>3. Makes(mem) /\ RunKept /\ \A a \in Accounts : Spares(mem, mem, a)
  BY <1>0, <1>1, <1>2, MakesMem DEF RunKept
<1>4. Traced'
  <2>1. clock' \in Nat /\ clock <= clock' /\ JournalTraced(journal', clock') /\ Known(live', issued)
    BY <1>0, <1>1 DEF Traced, JournalTraced
  <2> QED BY <1>0, <1>1, <1>3, <2>1, TracedOver
<1>5. \A b : Safe(b) => Safe(b)'
  BY <1>1 DEF Safe, Signed, Renewing, SavesOver
<1>6. Secure'
  <2> SUFFICES ASSUME NEW a \in Accounts, ~Safe(a)'
               PROVE  \/ Stored(index', mem', a, run'.fresh[a], listed', vault', usable')
                      \/ Alike(a) /\ Spares(mem, mem, a)
    BY <1>0, <1>1, <1>5, SecureStep
  <2>1. CASE run.fresh[a] = NoLogin
    BY <1>1, <1>2, <1>3, <2>1 DEF Alike
  <2>2. CASE run.fresh[a] # NoLogin
    <3>1. PICK f \in Logins : f = run.fresh[a] /\ f # NoLogin
      BY <1>0, <2>2 DEF Inv, RunTrue, Runs
    <3>2. Firm(index, index, a, f, listed, vault, usable)
      BY <1>0, <1>5, <3>1, FirmEither DEF Secure, Stored
    <3>3. Kept(a)'
      BY <1>1, <2>2 DEF Safe, Held
    <3>4. \A n \in Names : vault[n] = f => n \notin index.discarded
      BY <1>0, <3>1 DEF Answers
    <3>5. Stored(index, index, a, NoLogin, listed, vault, usable)
      BY <1>0, <1>1, <3>1, <3>2, <3>3, <3>4, AnswerLeft
    <3> QED BY <1>1, <1>2, <3>5
  <2> QED BY <2>1, <2>2
<1>7. Answers'
  BY <1>2 DEF Answers
<1>8. SlotHolds' /\ JournalBacked'
  BY <1>0, <1>1 DEF SlotHolds, JournalBacked, Renewing, SavesOver, Writing
<1>9. Staged'
  BY <1>1 DEF Staged, StagedSettling, StagedNames, StagedChange, Unjournaled, Swept, Asking,
              Changing, Writing, Knowing
<1>10. SlotSafe' /\ SlotTwins'
  BY <1>1 DEF SlotSafe, SlotTwins, TwinFree, Changing, Asking
<1> QED BY <1>4, <1>6, <1>7, <1>8, <1>9, <1>10 DEF Slot, Guarded

\* Any other run leaves what it saved, where the slot is not cut short.
LEMMA CrashPlainKeeps ==
  ASSUME Guarded, Basis', Crash, pc \notin Asking, live' = live
  PROVE  Guarded'
<1>1. \A a \in Accounts : run.fresh[a] = NoLogin
  BY NoAnswers DEF Guarded, Basis
<1>2. Plain /\ Ends /\ index' = index /\ journal' = journal
  BY <1>1 DEF Crash, Plain, service
<1>3. Makes(mem) /\ \A a \in Accounts : Spares(mem, mem, a)
  BY <1>2, MakesMem DEF Guarded, Basis, Ends
<1> QED BY <1>1, <1>2, <1>3, EndsKeeps
-----------------------------------------------------------------------------
(* The change itself. *)

\* What a change knows at each of its steps.
LEMMA ChangeKnows ==
  ASSUME Guarded, Reliable, pc \in Changing \ {"prove"}
  PROVE  /\ Inv /\ Traced /\ Secure /\ Locked /\ StagedSettling /\ StagedNames /\ StagedChange
         /\ SlotHolds /\ JournalBacked /\ SlotSafe /\ Locking
         /\ IndexTrue(mem, vault, clock) /\ IndexTrue(index, vault, clock) /\ clock \in Nat
         /\ \A a \in Accounts : run.fresh[a] = NoLogin
         /\ run.to \in Accounts /\ mem.parked[run.to] = run.inc /\ run.inc \in Parks
         /\ run.inc.name \in Names /\ run.inc.login \in Logins /\ Account(run.inc.login) = run.to
         /\ run.inc.name[1] = run.to /\ run.inc.name[2] <= clock /\ run.inc # NoPark
         /\ run.to \in mem.enrolled /\ mem.enrolled = index.enrolled
         /\ run.going = "out" => run.out \in Accounts /\ run.out # run.to
<1> USE DEF Guarded, Basis
<1>1. /\ Inv /\ Traced /\ Secure /\ Locked /\ StagedSettling /\ StagedNames /\ StagedChange
      /\ SlotHolds /\ JournalBacked /\ SlotSafe /\ Locking
      /\ IndexTrue(mem, vault, clock) /\ IndexTrue(index, vault, clock) /\ clock \in Nat
  BY SwitchBounds DEF Reliable, Staged, Slot, Inv, DiskTrue, RunTrue, ListTrue
<1>2. \A a \in Accounts : run.fresh[a] = NoLogin
  BY <1>1, NoAnswers DEF Changing, Asking
<1>3. /\ run.to \in Accounts /\ mem.parked[run.to] = run.inc /\ run.inc \in Parks
      /\ Account(run.inc.login) = run.to
      /\ run.going = "out" => run.out \in Accounts /\ run.out # run.to
  BY <1>1 DEF Inv, RunTrue, Bound, Reserved, StagedChange, Changing
<1>4. run.inc.name \in Names /\ run.inc.login \in Logins /\ run.inc # NoPark
  BY <1>3, NobodyNamed DEF Parks, NoPark
<1>5. run.inc.name[1] = run.to /\ run.inc.name[2] <= clock
  BY <1>1, <1>3, <1>4 DEF IndexTrue, ParkOK
<1>6. run.to \in mem.enrolled /\ mem.enrolled = index.enrolled
  BY <1>1, <1>3, <1>4 DEF Traced, IndexKnown
<1> QED BY <1>1, <1>2, <1>3, <1>4, <1>5, <1>6

\* The login going out is the slot's until it is written over, or somebody took it.
LEMMA OutIsSafe ==
  ASSUME Guarded, pc \in {"journal", "parkStore", "parkRecord", "reread", "install"}, run.going = "out"
  PROVE  Safe(run.out) /\ run.before \in Logins /\ Account(run.before) = run.out
<1>1. run.before \in Logins /\ Account(run.before) = run.out
  BY DEF Guarded, Basis, Inv, RunTrue, Reserved
<1>2. run.out \in taken \/ (live = run.before /\ live \in usable)
  BY <1>1 DEF Guarded, Slot, SlotHolds, Writing
<1> QED BY <1>1, <1>2 DEF Safe, Signed

\* The tool's lock taken, and the slot read again.
LEMMA LockKeeps ==
  ASSUME Guarded, Basis', Reliable, Lock \/ Ready \/ NotReady
  PROVE  Guarded'
<1>0. pc \in Changing \ {"prove"} /\ pc \in {"lock", "ready"}
  BY DEF Lock, Ready, NotReady, Changing
<1>1. /\ Inv /\ Locked /\ StagedSettling /\ StagedNames /\ StagedChange /\ SlotSafe /\ Locking
      /\ \A a \in Accounts : run.fresh[a] = NoLogin
      /\ run.going = "out" => run.out \in Accounts /\ run.out # run.to
  BY <1>0, ChangeKnows
<1>2. CASE Refuses \/ Breaks("read")
  BY <1>1, <1>2, RefusesKeeps DEF Operations
<1>3. CASE ~(Refuses \/ Breaks("read"))
  <2>1. /\ UNCHANGED <<index, mem, journal>> /\ Plain
        /\ \/ pc = "lock" /\ pc' = "ready" /\ run' = run
           \/ /\ pc = "ready" /\ run' = [run EXCEPT !.before = live]
              /\ live = run.seen \/ run.going = "out"
              /\ pc' = IF run.going = "out" THEN "reserve" ELSE "journal"
    BY <1>1, <1>3 DEF Lock, Ready, NotReady, Goes, Plain, disk, service
  <2>2. /\ run'.seen = run.seen /\ run'.fresh = run.fresh /\ run'.next = run.next
        /\ run'.cmd = run.cmd /\ run'.to = run.to /\ run'.going = run.going /\ run'.out = run.out
        /\ run'.inc = run.inc /\ run'.before \in {run.before, live}
        /\ pc = "ready" => run'.before = live
    BY <1>1, <2>1 DEF Inv, RunTrue, Runs
  <2>3. pc = "ready" => sess = NoRenewal
    BY <1>1 DEF Locked
  <2>4. /\ Traced' /\ Secure' /\ SlotHolds' /\ JournalBacked' /\ \A a : Safe(a) => Safe(a)'
    BY <2>1, <2>2, <2>3, QuietStep DEF RunKept, Writing
  <2>5. Answers'
    BY <2>1, NoAnswersNext DEF Asking
  <2>6. Staged'
    BY <1>1, <2>1, <2>2 DEF Staged, StagedSettling, StagedNames, StagedChange, Unjournaled, Swept,
                       Asking, Changing, Writing, Knowing, Plain
  <2>7. SlotSafe' /\ SlotTwins'
    BY <1>1, <2>1, <2>2, <2>4 DEF SlotSafe, SlotTwins, TwinFree, Changing, Asking, Plain
  <2> QED BY <2>4, <2>5, <2>6, <2>7 DEF Slot, Guarded
<1> QED BY <1>2, <1>3

\* The name of the park going out.
LEMMA ReserveKeeps ==
  ASSUME Guarded, Basis', Reliable, Reserve
  PROVE  Guarded'
<1>0. pc = "reserve" /\ pc \in Changing \ {"prove"}
  BY DEF Reserve, Changing
<1>1. /\ Inv /\ StagedSettling /\ StagedNames /\ StagedChange /\ SlotSafe
      /\ \A a \in Accounts : run.fresh[a] = NoLogin
      /\ run.going = "out" => run.out \in Accounts /\ run.out # run.to
  BY <1>0, ChangeKnows
<1>2. CASE Reserves(run.out) /\ Goes("journal")
  <2>1. PICK a \in Accounts : a = run.out /\ a # run.to
    BY <1>0, <1>1 DEF Inv, RunTrue, Reserved
  <2>2. PICK n : n = <<a, clock + 1>>
    OBVIOUS
  <2>3. /\ Reserves(a) /\ run' = [run EXCEPT !.park = <<a, clock + 1>>] /\ pc' = "journal"
        /\ UNCHANGED <<usable, issued, sess>>
    BY <1>2, <2>1 DEF Reserves, Goes, service, Reserve
  <2>4. pc' \in Writing => pc \in Writing
    BY <1>0 DEF Writing
  <2>5. /\ Traced' /\ Secure' /\ SlotHolds' /\ JournalBacked' /\ \A b : Safe(b) => Safe(b)'
        /\ n \in Names /\ n[1] = a /\ n[2] = clock' /\ listed' = listed \cup {n}
        /\ n \notin index.discarded /\ n \notin mem.discarded
        /\ run'.park = n
        /\ run'.seen = run.seen /\ run'.before = run.before /\ run'.fresh = run.fresh
        /\ run'.next = run.next /\ run'.cmd = run.cmd /\ run'.to = run.to /\ run'.going = run.going
        /\ run'.refused = run.refused /\ run'.out = run.out /\ run'.inc = run.inc /\ run'.who = run.who
        /\ UNCHANGED <<live, vault, index, journal, usable, issued, sess, mem, taken>>
    BY <2>2, <2>3, <2>4, ReservesKeeps
  <2>6. Answers'
    BY <2>3, NoAnswersNext DEF Asking
  <2>7. Staged'
    BY <1>0, <1>1, <2>1, <2>3, <2>5 DEF Staged, StagedSettling, StagedNames, StagedChange, Unjournaled,
                                  Swept, Asking, Changing, Writing, Knowing
  <2>8. SlotSafe' /\ SlotTwins'
    BY <1>0, <1>1, <2>3, <2>5 DEF SlotSafe, SlotTwins, TwinFree, Changing, Asking
  <2> QED BY <2>5, <2>6, <2>7, <2>8 DEF Slot, Guarded
<1>3. CASE CannotReserve /\ UNCHANGED <<disk, service, taken, crashes, outside>> /\ Ends
  <2>1. Refuses \/ Breaks("list")
    BY <1>3 DEF CannotReserve, Refuses, Breaks, NoFault, budgets
  <2> QED BY <1>1, <2>1, RefusesKeeps DEF Operations
<1> QED BY <1>2, <1>3 DEF Reserve

\* The journal, before anything it tells of.
LEMMA WriteJournalKeeps ==
  ASSUME Guarded, Basis', Reliable, WriteJournal
  PROVE  Guarded'
<1>0. pc = "journal" /\ pc \in Changing \ {"prove"} /\ pc \in Writing
  BY DEF WriteJournal, Changing, Writing
<1>1. /\ Inv /\ Traced /\ Secure /\ Locked /\ StagedSettling /\ StagedNames /\ StagedChange
      /\ SlotHolds /\ SlotSafe /\ Locking /\ clock \in Nat
      /\ \A a \in Accounts : run.fresh[a] = NoLogin
      /\ run.to \in Accounts /\ mem.parked[run.to] = run.inc
      /\ run.inc.name[1] = run.to /\ run.inc.name[2] <= clock
      /\ run.going = "out" => run.out \in Accounts /\ run.out # run.to
  BY <1>0, ChangeKnows
<1>2. CASE Breaks("journal")
  BY <1>1, <1>2, RefusesKeeps DEF Operations
<1>3. CASE ~Breaks("journal")
  <2>1. /\ UNCHANGED <<index, mem, run>> /\ Plain
        /\ pc' = IF run.going = "out" THEN "parkStore" ELSE "install"
        /\ journal' = [from |-> IF run.going = "out" THEN run.out ELSE Nobody, to |-> run.to,
                       park |-> run.park, incoming |-> run.inc.name,
                       fromLogin |-> run.before, toLogin |-> run.inc.login]
    BY <1>3 DEF WriteJournal, Goes, Plain, service
  <2>2. /\ journal'.to = run.to /\ journal'.incoming = run.inc.name /\ journal'.fromLogin = run.before
        /\ journal'.park = run.park
        /\ IF run.going = "out" THEN journal'.from = run.out ELSE run.park = NoName
    BY <1>0, <1>1, <2>1 DEF Inv, RunTrue, Reserved
  <2>3. journal' # NoJournal
    BY <1>1, <2>2, NobodyAssumption DEF NoJournal
  <2>4. run.going = "out" => Safe(run.out) /\ run.before \in Logins /\ Account(run.before) = run.out
    BY <1>0, OutIsSafe
  <2>5. Makes(mem) /\ RunKept /\ \A a \in Accounts : Spares(mem, mem, a)
    BY <1>1, <2>1, MakesMem DEF RunKept
  <2>6. Traced'
    <3>1. JournalTraced(journal', clock')
      BY <1>1, <2>1, <2>2, <2>4 DEF JournalTraced, Plain
    <3> QED BY <1>1, <2>1, <2>5, <3>1, TracedOver DEF Plain, Traced
  <2>7. \A a : Safe(a) => Safe(a)'
    BY <2>1, SafeStays DEF Plain
  <2>8. Secure'
    <3>1. \A a \in Accounts : Alike(a)
      BY <2>1 DEF Alike, Plain
    <3> QED BY <1>1, <2>5, <2>7, <3>1, SecureSaves DEF Makes
  <2>9. SlotHolds'
    <3>1. live' # Torn
      BY <1>0, <1>1, <2>1, NobodyNamed DEF Locked, Inv, RunTrue, Runs, Plain, NoLogin, Torn
    <3> QED BY <1>0, <1>1, <2>1, <3>1 DEF SlotHolds, Renewing, SavesOver, Plain
  <2>10. JournalBacked'
    BY <2>2, <2>4, <2>7 DEF JournalBacked
  <2>11. Answers'
    BY <2>1, NoAnswersNext DEF Asking
  <2>12. Staged'
    BY <1>0, <1>1, <2>1, <2>2, <2>3 DEF Staged, StagedSettling, StagedNames, StagedChange, Unjournaled,
                                  Swept, Asking, Changing, Writing, Knowing, Plain
  <2>13. SlotSafe' /\ SlotTwins'
    BY <1>0, <1>1, <2>1, <2>7 DEF SlotSafe, SlotTwins, TwinFree, Changing, Asking, Plain
  <2> QED BY <2>6, <2>8, <2>9, <2>10, <2>11, <2>12, <2>13 DEF Slot, Guarded
<1> QED BY <1>2, <1>3

\* An item of the account going out, written or deleted while the slot has its login.
LEMMA OutgoingItem ==
  ASSUME Guarded, Reliable, pc \in {"parkStore", "parkRecord"},
         vault' = [vault EXCEPT ![run.park] = run.before] \/ vault' = [vault EXCEPT ![run.park] = NoLogin],
         UNCHANGED <<live, index, journal, listed, clock, service, mem, run, taken>>,
         pc' \in {"parkRecord", "clear"}
  PROVE  Traced' /\ Secure' /\ SlotHolds' /\ JournalBacked' /\ \A a : Safe(a) => Safe(a)'
<1>0. pc \in Changing \ {"prove"} /\ pc \in Writing
  BY DEF Changing, Writing
<1>1. /\ Inv /\ Traced /\ Secure /\ Locked /\ StagedNames /\ SlotHolds /\ JournalBacked /\ Locking
      /\ IndexTrue(index, vault, clock) /\ IndexTrue(mem, vault, clock) /\ clock \in Nat
      /\ \A a \in Accounts : run.fresh[a] = NoLogin
      /\ run.going = "out" => run.out \in Accounts /\ run.out # run.to
  BY <1>0, ChangeKnows
<1>2. /\ run.going = "out" /\ run.out \in Accounts /\ run.park \in Names /\ run.park[1] = run.out
      /\ run.park[2] <= clock /\ run.park \notin index.discarded
  BY <1>1 DEF Inv, RunTrue, Reserved, StagedNames
<1>3. Safe(run.out) /\ run.before \in Logins
  BY <1>2, OutIsSafe
<1>4. \A m \in Names : m # run.park => vault'[m] = vault[m]
  BY <1>1, <1>2 DEF Inv, DiskTrue, VaultTrue
<1>5. vault'[run.park] \in {run.before, NoLogin}
  BY <1>1, <1>2 DEF Inv, DiskTrue, VaultTrue
<1>6. sess = NoRenewal /\ live # Torn
  BY <1>0, <1>1, NobodyNamed DEF Locked, Inv, RunTrue, Runs, NoLogin, Torn
<1>7. \A a : Safe(a) => Safe(a)'
  BY SafeStays DEF service
<1>8. Traced'
  <2>1. \A m \in Names : vault'[m] # NoLogin => m[2] <= clock' /\ Known(vault'[m], issued')
    BY <1>1, <1>2, <1>4, <1>5 DEF Traced, service
  <2>2. \A m \in index'.discarded : vault'[m] # NoLogin => m \in mem'.discarded
    <3>1. index.discarded \subseteq Names
      BY <1>1 DEF IndexTrue, Indexes
    <3> QED BY <1>1, <1>2, <1>4, <3>1 DEF Traced
  <2>3. SessionTraced'
    BY <1>6 DEF SessionTraced, service
  <2> QED BY <1>1, <2>1, <2>2, <2>3 DEF Traced, service
<1>9. Secure'
  <2> SUFFICES ASSUME NEW b \in Accounts, ~Safe(b), ~Safe(b)' PROVE Alike(b) /\ Spares(mem, mem, b)
    BY <1>1, <1>7, SecureStep
  <2>1. b # run.out
    BY <1>3
  <2> QED BY <1>2, <1>4, <2>1 DEF Alike, Spares, service
<1>10. SlotHolds'
  BY <1>0, <1>1, <1>6 DEF SlotHolds, Renewing, SavesOver, service
<1>11. JournalBacked'
  BY <1>1, <1>7 DEF JournalBacked
<1> QED BY <1>7, <1>8, <1>9, <1>10, <1>11

\* What goes out is stored.
LEMMA ParkStoreKeeps ==
  ASSUME Guarded, Basis', Reliable, ParkStore
  PROVE  Guarded'
<1>0. pc = "parkStore" /\ pc \in Changing \ {"prove"} /\ pc \in Writing
  BY DEF ParkStore, Changing, Writing
<1>1. /\ Inv /\ StagedSettling /\ StagedNames /\ StagedChange /\ SlotSafe
  BY <1>0, ChangeKnows
<1>2. /\ UNCHANGED <<live, index, journal, listed, clock, service, mem, run, taken>>
      /\ vault' = vault \/ vault' = [vault EXCEPT ![run.park] = run.before]
      /\ pc' \in {"parkRecord", "clear"}
  BY DEF ParkStore, Goes
<1>3. Traced' /\ Secure' /\ SlotHolds' /\ JournalBacked' /\ \A a : Safe(a) => Safe(a)'
  <2>1. CASE vault' = vault
    BY <1>0, <1>2, <2>1, QuietStep DEF Plain, RunKept, service, Writing
  <2>2. CASE vault' = [vault EXCEPT ![run.park] = run.before]
    BY <1>0, <1>2, <2>2, OutgoingItem
  <2> QED BY <1>2, <2>1, <2>2
<1>4. Answers'
  BY <1>2, NoAnswersNext DEF Asking
<1>5. Staged'
  BY <1>0, <1>1, <1>2 DEF Staged, StagedSettling, StagedNames, StagedChange, Unjournaled, Swept,
                     Asking, Changing, Writing, Knowing, service
<1>6. SlotSafe' /\ SlotTwins'
  BY <1>0, <1>1, <1>2, <1>3 DEF SlotSafe, SlotTwins, TwinFree, Changing, Asking, service
<1> QED BY <1>3, <1>4, <1>5, <1>6 DEF Slot, Guarded

\* And recorded.
LEMMA ParkRecordKeeps ==
  ASSUME Guarded, Basis', Reliable, ParkRecord
  PROVE  Guarded'
<1>0. pc = "parkRecord" /\ pc \in Changing \ {"prove"} /\ pc \in Writing
  BY DEF ParkRecord, Changing, Writing
<1>1. /\ Inv /\ Traced /\ StagedSettling /\ StagedNames /\ StagedChange /\ SlotSafe
      /\ IndexTrue(mem, vault, clock) /\ clock \in Nat /\ run.to \in Accounts
      /\ run.going = "out" => run.out \in Accounts /\ run.out # run.to
  BY <1>0, ChangeKnows
<1>2. /\ run.going = "out" /\ run.out \in Accounts /\ run.out # run.to
      /\ run.park \in Names /\ run.park[1] = run.out
      /\ run.park[2] <= clock /\ vault[run.park] = run.before /\ run.before \in Logins
      /\ Account(run.before) = run.out /\ run.out \in mem.enrolled
      /\ run.park \notin index.discarded /\ run.park \notin mem.discarded
  BY <1>0, <1>1 DEF Inv, RunTrue, Reserved, StagedNames, StagedChange, Changing
<1>3. Safe(run.out)
  BY <1>0, <1>2, OutIsSafe
<1>4. PICK p : p = [name |-> run.park, login |-> run.before]
  OBVIOUS
<1>5. PICK iy : iy = ParkFor(mem, run.out, p)
  OBVIOUS
<1>6. /\ UNCHANGED <<live, journal, listed, clock, service, run, taken>>
      /\ \/ vault' = vault /\ index' = iy /\ mem' = iy /\ pc' = "reread"
         \/ /\ vault' = vault \/ vault' = [vault EXCEPT ![run.park] = NoLogin]
            /\ index' = index /\ mem' = mem /\ pc' = "clear"
  BY <1>4, <1>5 DEF ParkRecord, Saves, SaveFails, Goes
<1>7. Answers'
  BY <1>6, NoAnswersNext DEF Asking
<1>8. CASE pc' = "clear"
  <2>1. UNCHANGED <<index, mem>> /\ (vault' = vault \/ vault' = [vault EXCEPT ![run.park] = NoLogin])
    BY <1>6, <1>8
  <2>2. Traced' /\ Secure' /\ SlotHolds' /\ JournalBacked'
    <3>1. CASE vault' = vault
      BY <1>0, <1>6, <1>8, <2>1, <3>1, QuietStep DEF Plain, RunKept, service, Writing
    <3>2. CASE vault' = [vault EXCEPT ![run.park] = NoLogin]
      BY <1>0, <1>6, <1>8, <2>1, <3>2, OutgoingItem
    <3> QED BY <2>1, <3>1, <3>2
  <2>3. Staged'
    BY <1>8 DEF Staged, StagedSettling, StagedNames, StagedChange, Unjournaled, Swept,
                Asking, Changing, Writing, Knowing
  <2>4. SlotSafe' /\ SlotTwins'
    BY <1>8 DEF SlotSafe, SlotTwins, TwinFree, Changing, Asking
  <2> QED BY <1>7, <2>2, <2>3, <2>4 DEF Slot, Guarded
<1>9. CASE pc' = "reread"
  <2>1. vault' = vault /\ index' = iy /\ mem' = iy
    BY <1>6, <1>9
  <2>2. p.name = run.park /\ p.login = run.before /\ ParkOK(run.out, p, vault, clock)
        /\ vault[p.name] = p.login
    BY <1>2, <1>4 DEF ParkOK, Parks
  <2>3. /\ Follows(mem, iy, vault, clock) /\ iy.enrolled = mem.enrolled
        /\ run.out \in mem.enrolled => iy.parked[run.out] = p
        /\ run.out \in mem.enrolled /\ mem.parked[run.out].name \in {NoName, p.name}
             => iy.discarded = mem.discarded
        /\ run.out \in mem.enrolled /\ mem.parked[run.out].name \notin {NoName, p.name}
             => iy.discarded = mem.discarded \cup {mem.parked[run.out].name}
        /\ \A b \in Accounts : b # run.out => Spares(mem, iy, b)
    <3>1. IndexTrue(mem, vault, clock) /\ Enrolls(mem) /\ clock \in Nat /\ run.out \in Accounts
          /\ ParkOK(run.out, p, vault, clock) /\ vault[p.name] = p.login
      BY <1>1, <1>2, <2>2 DEF Traced, IndexKnown, Enrolls
    <3>2. PICK a \in Accounts : a = run.out
      BY <1>2
    <3>3. iy = ParkFor(mem, a, p) /\ ParkOK(a, p, vault, clock)
      BY <1>5, <3>1, <3>2
    <3> QED BY <3>1, <3>2, <3>3, ParkForFollows
  <2>4. IndexTrue(iy, vault, clock)
    BY <1>1, <1>2, <1>5, <2>2, ParkForFits
  <2>5. /\ iy.parked[run.out] = p /\ iy.parked[run.to] = mem.parked[run.to]
        /\ run.park \notin iy.discarded
    BY <1>1, <1>2, <2>2, <2>3 DEF Spares
  <2>6. Traced' /\ Secure' /\ SlotHolds' /\ JournalBacked' /\ \A a : Safe(a) => Safe(a)'
    <3>1. Makes(iy) /\ Plain /\ RunKept
      BY <1>6, <2>1, <2>3, <2>4 DEF Makes, Plain, RunKept, service
    <3>2. \A a \in Accounts : Spares(mem, iy, a) \/ Safe(a)
      BY <1>3, <2>3
    <3> QED BY <1>0, <1>6, <2>3, <3>1, <3>2, PlainStep
  <2>7. Staged'
    BY <1>0, <1>1, <1>2, <1>4, <1>6, <1>9, <2>1, <2>2, <2>3, <2>5
       DEF Staged, StagedSettling, StagedNames, StagedChange, Unjournaled, Swept,
           Asking, Changing, Writing, Knowing, service
  <2>8. SlotSafe' /\ SlotTwins'
    BY <1>0, <1>1, <1>6, <1>9, <2>6 DEF SlotSafe, SlotTwins, TwinFree, Changing, Asking, service
  <2> QED BY <1>7, <2>6, <2>7, <2>8 DEF Slot, Guarded
<1> QED BY <1>6, <1>8, <1>9

\* The slot read a last time, and what was begun undone.
LEMMA RereadKeeps ==
  ASSUME Guarded, Basis', Reliable, Reread \/ ParkUnreadable
  PROVE  Guarded'
<1>0. pc = "reread" /\ pc \in Changing \ {"prove"} /\ pc \in Writing
  BY DEF Reread, ParkUnreadable, Changing, Writing
<1>1. /\ Inv /\ Locked /\ StagedSettling /\ StagedNames /\ StagedChange /\ SlotSafe /\ Locking
      /\ run.going = "out" => run.out \in Accounts
  BY <1>0, ChangeKnows
<1>2. /\ live \in {run.before, NoLogin} /\ run.out \in Accounts
  BY <1>0, <1>1 DEF Locked, Inv, RunTrue, Reserved
<1>3. live # run.before => Account(live) # run.out
  BY <1>2, NobodyAssumption DEF Account, NoLogin
<1>4. /\ UNCHANGED <<index, journal, mem, run>> /\ Plain /\ pc' \in {"install", "undoSave"}
  BY <1>1, <1>3 DEF Reread, ParkUnreadable, Goes, Plain, disk, service
<1>5. Traced' /\ Secure' /\ SlotHolds' /\ JournalBacked' /\ \A a : Safe(a) => Safe(a)'
  BY <1>0, <1>4, QuietStep DEF RunKept
<1>6. Answers'
  BY <1>4, NoAnswersNext DEF Asking
<1>7. Staged'
  BY <1>0, <1>1, <1>4 DEF Staged, StagedSettling, StagedNames, StagedChange, Unjournaled, Swept,
                     Asking, Changing, Writing, Knowing, Plain
<1>8. SlotSafe' /\ SlotTwins'
  BY <1>0, <1>1, <1>4, <1>5 DEF SlotSafe, SlotTwins, TwinFree, Changing, Asking, Plain
<1> QED BY <1>5, <1>6, <1>7, <1>8 DEF Slot, Guarded

\* The journal is removed where asked to.
LEMMA Unlinks ==
  ASSUME Reliable, ClearJournal
  PROVE  journal' = NoJournal
BY DEF Reliable, ClearJournal, Fault

\* What was begun is saved as it is, and its journal removed.
LEMMA UndoKeeps ==
  ASSUME Guarded, Basis', Reliable, UndoSave \/ UndoClear
  PROVE  Guarded'
<1>0. Inv /\ pc \in {"undoSave", "undoClear"} /\ \A a \in Accounts : run.fresh[a] = NoLogin
  BY NoAnswers DEF UndoSave, UndoClear, Guarded, Basis, Asking
<1>1. CASE Breaks("save")
  BY <1>0, <1>1, RefusesKeeps DEF Operations
<1>2. CASE ~Breaks("save")
  <2>1. /\ Plain /\ mem' = mem
        /\ \/ /\ index' = mem /\ pc' = "undoClear" /\ UNCHANGED <<journal, run>>
           \/ /\ index' = index /\ pc' = "purge" /\ journal' = NoJournal
              /\ run' = [run EXCEPT !.next = "idle"]
    BY <1>2, Unlinks DEF UndoSave, UndoClear, Saves, Goes, Plain, service
  <2>2. /\ run'.seen = run.seen /\ run'.before = run.before /\ run'.fresh = run.fresh
        /\ pc' = "purge" => run'.next = "idle"
    BY <1>0, <2>1 DEF Inv, RunTrue, Runs
  <2>3. Traced' /\ Secure' /\ SlotHolds' /\ JournalBacked'
    BY <2>1, <2>2, QuietStep DEF RunKept, Writing
  <2>4. Answers'
    BY <2>1, NoAnswersNext DEF Asking
  <2>5. Staged'
    BY <2>1, <2>2 DEF Staged, StagedSettling, StagedNames, StagedChange, Unjournaled, Swept,
                     Asking, Changing, Writing, Knowing
  <2>6. SlotSafe' /\ SlotTwins'
    BY <2>1, <2>2 DEF SlotSafe, SlotTwins, TwinFree, Changing, Asking
  <2> QED BY <2>3, <2>4, <2>5, <2>6 DEF Slot, Guarded
<1> QED BY <1>1, <1>2

\* The write read back.
LEMMA HoldsKeeps ==
  ASSUME Guarded, Basis', Reliable, Holds
  PROVE  Guarded'
<1>0. pc = "holds" /\ pc \in Changing \ {"prove"}
  BY DEF Holds, Changing
<1>1. /\ Inv /\ StagedSettling /\ StagedNames /\ StagedChange /\ SlotSafe
      /\ \A a \in Accounts : run.fresh[a] = NoLogin
  BY <1>0, ChangeKnows
<1>2. CASE Breaks("read")
  BY <1>1, <1>2, RefusesKeeps DEF Operations
<1>3. CASE ~Breaks("read")
  <2>1. UNCHANGED <<index, journal, mem, run>> /\ Plain /\ pc' \in {"record", "clear"}
    BY <1>3 DEF Holds, Goes, Plain, disk, service
  <2>2. Traced' /\ Secure' /\ SlotHolds' /\ JournalBacked' /\ \A a : Safe(a) => Safe(a)'
    BY <2>1, QuietStep DEF RunKept, Writing
  <2>3. Answers'
    BY <2>1, NoAnswersNext DEF Asking
  <2>4. Staged'
    BY <1>0, <1>1, <2>1 DEF Staged, StagedSettling, StagedNames, StagedChange, Unjournaled, Swept,
                     Asking, Changing, Writing, Knowing, Plain
  <2>5. SlotSafe' /\ SlotTwins'
    <3>1. pc' = "record" => live # NoLogin
      BY <1>3, NobodyNamed DEF Holds, Goes
    <3> QED BY <1>0, <1>1, <2>1, <2>2, <3>1 DEF SlotSafe, SlotTwins, TwinFree, Changing, Asking, Plain
  <2> QED BY <2>2, <2>3, <2>4, <2>5 DEF Slot, Guarded
<1> QED BY <1>2, <1>3

\* The park that went in is let go of: its account's login is the slot's.
LEMMA RecordKeeps ==
  ASSUME Guarded, Basis', Reliable, Record
  PROVE  Guarded'
<1>0. pc = "record" /\ pc \in Changing \ {"prove"}
  BY DEF Record, Changing
<1>1. /\ Inv /\ Traced /\ StagedSettling /\ StagedNames /\ StagedChange /\ SlotSafe
      /\ IndexTrue(mem, vault, clock) /\ \A a \in Accounts : run.fresh[a] = NoLogin
      /\ run.to \in Accounts /\ run.inc.name \in Names /\ run.inc.login \in Logins
      /\ run.inc.name[1] = run.to /\ run.inc.name[2] <= clock
  BY <1>0, ChangeKnows
<1>2. CASE Breaks("save")
  BY <1>1, <1>2, RefusesKeeps DEF Operations
<1>3. CASE ~Breaks("save")
  <2>1. PICK ix : ix = Discard(mem, run.inc.name)
    OBVIOUS
  <2>2. PICK iy : iy = Identified(ix, run.inc.login)
    OBVIOUS
  <2>3. /\ index' = iy /\ mem' = iy /\ Plain /\ journal' = journal /\ pc' = "purge"
        /\ run' = [run EXCEPT !.next = "clear"]
    BY <1>3, <2>1, <2>2 DEF Record, Saves, Plain, service
  <2>4. /\ Follows(mem, ix, vault, clock) /\ ix.enrolled = mem.enrolled
        /\ \A b \in Accounts : b # run.inc.name[1] => Spares(mem, ix, b)
    <3>1. PICK n \in Names : n = run.inc.name
      BY <1>1
    <3>2. IndexTrue(mem, vault, clock) /\ Enrolls(mem) /\ n[2] <= clock /\ ix = Discard(mem, n)
      BY <1>1, <2>1, <3>1 DEF Traced, IndexKnown, Enrolls
    <3>3. /\ Follows(mem, ix, vault, clock) /\ ix.enrolled = mem.enrolled
          /\ \A b \in Accounts : b # n[1] => Spares(mem, ix, b)
      BY <3>2, DiscardFollows
    <3> QED BY <3>1, <3>3
  <2>5. IndexTrue(ix, vault, clock)
    BY <1>1, <2>1, DiscardFits
  <2>6. IndexTrue(iy, vault, clock)
    BY <1>1, <2>2, <2>5, IdentifiedFits
  <2>7. iy.enrolled = ix.enrolled /\ iy.parked = ix.parked /\ iy.discarded = ix.discarded
    BY <2>2, <2>5 DEF Identified, IndexTrue, Indexes
  <2>8. Follows(mem, iy, vault, clock) /\ \A b \in Accounts : b # run.to => Spares(mem, iy, b)
    BY <1>1, <2>4, <2>7 DEF Follows, Spares
  <2>9. run'.seen = run.seen /\ run'.before = run.before /\ run'.fresh = run.fresh /\ run'.next = "clear"
    BY <1>1, <2>3 DEF Inv, RunTrue, Runs
  <2>10. Makes(iy) /\ RunKept
    BY <2>3, <2>4, <2>6, <2>7, <2>8, <2>9 DEF Makes, RunKept
  <2>11. Traced' /\ Secure' /\ SlotHolds' /\ JournalBacked'
    <3>1. \A a \in Accounts : Spares(mem, iy, a) \/ Safe(a)
      BY <1>0, <1>1, <2>8 DEF SlotSafe
    <3> QED BY <2>3, <2>4, <2>7, <2>9, <2>10, <3>1, PlainStep DEF Writing
  <2>12. Answers'
    BY <2>3, NoAnswersNext DEF Asking
  <2>13. Staged'
    BY <2>3, <2>9 DEF Staged, StagedSettling, StagedNames, StagedChange, Unjournaled, Swept,
                     Asking, Changing, Writing, Knowing
  <2>14. SlotSafe' /\ SlotTwins'
    BY <2>3, <2>9 DEF SlotSafe, SlotTwins, TwinFree, Changing, Asking
  <2> QED BY <2>11, <2>12, <2>13, <2>14 DEF Slot, Guarded
<1> QED BY <1>2, <1>3

\* The journal is removed, and the run is over.
LEMMA ClearKeeps ==
  ASSUME Guarded, Basis', Reliable, Clear
  PROVE  Guarded'
<1>1. \A a \in Accounts : run.fresh[a] = NoLogin
  BY NoAnswers DEF Clear, Guarded, Basis, Asking
<1>2. Plain /\ Ends /\ index' = index /\ journal' = NoJournal
  BY Unlinks DEF Clear, Plain, service
<1>3. Makes(mem) /\ \A a \in Accounts : Spares(mem, mem, a)
  BY <1>2, MakesMem DEF Guarded, Basis, Ends
<1> QED BY <1>1, <1>2, <1>3, EndsKeeps

\* At the write: what is written over is parked, and what goes in is still taken.
LEMMA BeforeInstall ==
  ASSUME Guarded, Reliable, pc = "install"
  PROVE  /\ live \in {run.before, NoLogin} /\ sess = NoRenewal
         /\ run.inc.login \in usable \/ run.to \in taken
         /\ StillParked(run.to)
         /\ \A a \in Accounts : Signed(a) => run.going = "out" /\ a = run.out
         /\ run.before \in Logins => Account(run.before) \in taken \/ (live = run.before /\ live \in usable)
         /\ run.going = "out" =>
              /\ run.park \in Names /\ run.park[1] = run.out /\ run.park[2] <= clock
              /\ run.out \in taken \/ Stored(index, mem, run.out, NoLogin, listed, vault, usable)
              /\ run.out \in taken \/ (run.before \in usable /\ Account(run.before) = run.out)
              /\ index.parked[run.out].name = run.park /\ mem.parked[run.out].name = run.park
<1>0. pc \in Changing \ {"prove"} /\ pc \in Writing
  BY DEF Changing, Writing
<1>1. /\ Inv /\ Traced /\ Locked /\ StagedNames /\ StagedChange /\ SlotHolds /\ SlotSafe /\ Locking
      /\ IndexTrue(mem, vault, clock) /\ IndexTrue(index, vault, clock)
      /\ run.to \in mem.enrolled /\ mem.enrolled = index.enrolled
      /\ run.going = "out" => run.out \in Accounts /\ run.out # run.to
  BY <1>0, ChangeKnows
<1>2. live \in {run.before, NoLogin} /\ sess = NoRenewal
  BY <1>0, <1>1 DEF Locked
<1>3. run.before \in Logins => Account(run.before) \in taken \/ (live = run.before /\ live \in usable)
  BY <1>0, <1>1 DEF SlotHolds
<1>4. live \in usable => run.going = "out" /\ Account(live) = run.out
  <2>1. NoLogin \notin usable
    BY <1>1, NobodyNamed DEF Inv, DiskTrue, WorldOK
  <2>2. run.going = "out" => Account(run.before) = run.out
    BY <1>1 DEF Inv, RunTrue, Reserved
  <2>3. run.going # "out" => run.before = run.seen /\ run.seen \notin usable
    <3>1. run.going \in {"out", "nothing", "refused"}
      BY <1>1 DEF Inv, RunTrue, Runs
    <3> QED BY <1>0, <1>1, <2>1, <3>1 DEF StagedChange, Knowing
  <2> QED BY <1>2, <2>1, <2>2, <2>3
<1>5. \A a \in Accounts : Signed(a) => run.going = "out" /\ a = run.out
  BY <1>4 DEF Signed
<1>6. run.inc.login \in usable \/ run.to \in taken
  <2>1. ~Renewing(run.to)
    BY <1>1, <1>2, NoneRenewing
  <2>2. ~Signed(run.to)
    BY <1>1, <1>4 DEF Signed
  <2> QED BY <1>0, <1>1, <2>1, <2>2 DEF SlotSafe, Safe
<1>7. ASSUME run.going = "out"
      PROVE  /\ run.park \in Names /\ run.park[1] = run.out /\ run.park[2] <= clock
             /\ run.out \in taken \/ Stored(index, mem, run.out, NoLogin, listed, vault, usable)
             /\ run.out \in taken \/ (run.before \in usable /\ Account(run.before) = run.out)
             /\ index.parked[run.out].name = run.park /\ mem.parked[run.out].name = run.park
  <2>1. /\ run.park \in Names /\ run.park[1] = run.out /\ run.park[2] <= clock
        /\ run.before \in Logins /\ Account(run.before) = run.out
    BY <1>1, <1>7 DEF Inv, RunTrue, Reserved
  <2>2. /\ \A n \in listed : n[1] = run.out => n = run.park
        /\ run.park \notin index.discarded /\ run.park \notin mem.discarded
        /\ mem.parked[run.out] = [name |-> run.park, login |-> run.before]
        /\ index.parked[run.out] = mem.parked[run.out] /\ vault[run.park] = run.before
    BY <1>1, <1>7 DEF StagedNames
  <2>3. run.before \in usable => Stored(index, mem, run.out, NoLogin, listed, vault, usable)
    <3>1. PICK p : p = [name |-> run.park, login |-> run.before]
      OBVIOUS
    <3>2. p \in Parks /\ p.name = run.park /\ p.login = run.before
      BY <2>1, <3>1 DEF Parks
    <3>3. Offers(index, run.out, listed, vault) = {p} /\ Offers(mem, run.out, listed, vault) = {p}
      BY <2>1, <2>2, <3>1, <3>2 DEF Offers, Parks
    <3>4. run.before \in usable => Firm(index, mem, run.out, run.before, listed, vault, usable)
      BY <2>2, <3>2, <3>3 DEF Firm, Newest
    <3>5. Both(index, mem, run.out, run.before, listed, vault)
      BY <2>1, <3>1, <3>3 DEF Both
    <3> QED BY <2>1, <3>4, <3>5 DEF Stored
  <2> QED BY <1>3, <2>1, <2>2, <2>3
<1>8. StillParked(run.to)
  <2>1. ~Renewing(run.to)
    BY <1>1, <1>2, NoneRenewing
  <2>2. ~Signed(run.to)
    BY <1>1, <1>4 DEF Signed
  <2>3. run.to \in Accounts /\ run.fresh[run.to] = NoLogin /\ run.to \in index.enrolled /\ Secure
    BY <1>0, <1>1, ChangeKnows
  <2> QED BY <2>1, <2>2, <2>3 DEF Secure, Safe, StillParked
<1> QED BY <1>2, <1>3, <1>5, <1>6, <1>7, <1>8

\* Whatever the write leaves in the slot.
LEMMA InstallStep ==
  ASSUME Guarded, Reliable, pc = "install",
         live' \in {live, run.inc.login, run.before, NoLogin, Torn},
         UNCHANGED <<vault, index, journal, listed, clock, service, taken>>,
         NEW iy, iy = mem \/ (run.going = "out" /\ iy = Discard(mem, run.park) /\ live' = run.before),
         mem' \in {index', iy}, run' \in {run, NoRun}, pc' \notin Writing,
         NEW to, to = run.to
  PROVE  Traced' /\ Secure' /\ SlotHolds' /\ JournalBacked' /\ (live' = run.inc.login => Safe(to)')
<1>0. pc \in Changing \ {"prove"} /\ pc \in Writing
  BY DEF Changing, Writing
<1>1. /\ Inv /\ Traced /\ Secure /\ StagedChange /\ SlotHolds /\ JournalBacked
      /\ IndexTrue(mem, vault, clock) /\ IndexTrue(index, vault, clock) /\ clock \in Nat
      /\ \A a \in Accounts : run.fresh[a] = NoLogin
      /\ run.to \in Accounts /\ mem.parked[run.to] = run.inc
      /\ run.inc.name \in Names /\ run.inc.login \in Logins /\ Account(run.inc.login) = run.to
      /\ run.inc # NoPark
      /\ run.to \in mem.enrolled /\ mem.enrolled = index.enrolled
      /\ run.going = "out" => run.out \in Accounts /\ run.out # run.to
  BY <1>0, ChangeKnows
<1>2. /\ live \in {run.before, NoLogin} /\ sess = NoRenewal
      /\ run.inc.login \in usable \/ run.to \in taken
      /\ \A a \in Accounts : Signed(a) => run.going = "out" /\ a = run.out
      /\ run.before \in Logins => Account(run.before) \in taken \/ (live = run.before /\ live \in usable)
      /\ run.going = "out" =>
           /\ run.park \in Names /\ run.park[1] = run.out /\ run.park[2] <= clock
           /\ run.out \in taken \/ Stored(index, mem, run.out, NoLogin, listed, vault, usable)
           /\ run.out \in taken \/ (run.before \in usable /\ Account(run.before) = run.out)
           /\ index.parked[run.out].name = run.park /\ mem.parked[run.out].name = run.park
  BY BeforeInstall
<1>3. /\ IndexTrue(iy, vault, clock) /\ Follows(mem, iy, vault, clock) /\ iy.enrolled = mem.enrolled
      /\ \A a \in Accounts : Spares(mem, iy, a) \/ (iy # mem /\ run.going = "out" /\ a = run.out)
  <2>1. Enrolls(mem)
    BY <1>1 DEF Traced, IndexKnown, Enrolls
  <2>2. CASE iy = mem
    BY <1>1, <2>1, <2>2, FollowsItself
  <2>3. CASE iy # mem
    <3>1. PICK n \in Names : n = run.park /\ n[1] = run.out /\ n[2] <= clock
      BY <1>2, <2>3
    <3>2. iy = Discard(mem, n) /\ run.going = "out"
      BY <2>3, <3>1
    <3>3. IndexTrue(iy, vault, clock)
      BY <1>1, <3>2, DiscardFits
    <3>4. IndexTrue(mem, vault, clock) /\ Enrolls(mem) /\ n[2] <= clock /\ iy = Discard(mem, n)
      BY <1>1, <2>1, <3>1, <3>2
    <3>5. /\ Follows(mem, iy, vault, clock) /\ iy.enrolled = mem.enrolled
          /\ \A a \in Accounts : a # n[1] => Spares(mem, iy, a)
      BY <3>4, DiscardFollows
    <3> QED BY <2>3, <3>1, <3>2, <3>3, <3>5
  <2> QED BY <2>2, <2>3
<1>4. /\ run'.seen \in {run.seen, NoLogin} /\ run'.before \in {run.before, NoLogin}
      /\ \A a \in Accounts : run'.fresh[a] = NoLogin
  BY <1>1 DEF NoRun
<1>5. Makes(iy) /\ RunKept /\ index' = index
  BY <1>3, <1>4 DEF Makes, RunKept
<1>6. Traced'
  <2>1. Known(live', issued)
    BY <1>1, NobodyNamed DEF Traced, IndexKnown, Known
  <2>2. clock' \in Nat /\ clock <= clock' /\ JournalTraced(journal', clock')
    BY <1>1 DEF Traced
  <2>3. UNCHANGED <<vault, usable, issued, sess>>
    BY DEF service
  <2> QED BY <1>1, <1>5, <2>1, <2>2, <2>3, TracedOver
<1>7. \A a : ~Renewing(a) /\ ~Renewing(a)'
  <2>1. sess' = NoRenewal /\ NoRenewal.fresh \notin usable /\ usable' = usable
    BY <1>1, <1>2, NobodyNamed DEF service, NoRenewal, Inv, DiskTrue, WorldOK
  <2> QED BY <1>2, <2>1 DEF Renewing
<1>9. ASSUME NEW a \in Accounts, ~(run.going = "out" /\ a = run.out), Safe(a) PROVE Safe(a)'
  BY <1>2, <1>7, <1>9 DEF Safe
<1>10. ASSUME NEW a \in Accounts, run.going = "out", a = run.out, iy # mem PROVE Safe(a)'
  <2>1. a \in taken \/ (live' \in usable /\ Account(live') = a)
    BY <1>2, <1>10
  <2> QED BY <2>1 DEF Safe, Signed, service
<1>11. Secure'
  <2> SUFFICES ASSUME NEW a \in Accounts, ~Safe(a)'
               PROVE  Alike(a) /\ \/ ~Safe(a) /\ Spares(mem, iy, a)
                                  \/ Stored(index, iy, a, run.fresh[a], listed, vault, usable)
    BY <1>1, <1>5, SecureStep DEF Makes
  <2>1. Alike(a)
    BY <1>1, <1>4 DEF Alike, service
  <2>2. CASE run.going = "out" /\ a = run.out
    <3>1. a \notin taken
      BY DEF Safe
    <3> QED BY <1>1, <1>2, <1>10, <2>1, <2>2, <3>1
  <2>3. CASE ~(run.going = "out" /\ a = run.out)
    BY <1>3, <1>9, <2>1, <2>3
  <2> QED BY <2>2, <2>3
<1>12. SlotHolds'
  <2>1. live' \in Logins => live' \in usable' \/ Account(live') \in taken'
    <3>1. CASE live' = live
      BY <1>1, <1>7, <3>1 DEF SlotHolds, service
    <3>2. CASE live' = run.inc.login
      BY <1>1, <1>2, <3>2 DEF service
    <3>3. CASE live' = run.before
      BY <1>2, <3>3 DEF service
    <3>4. CASE live' \in {NoLogin, Torn}
      BY <3>4, NobodyNamed
    <3> QED BY <3>1, <3>2, <3>3, <3>4
  <2>2. journal' # NoJournal =>
          /\ journal'.to \in index'.enrolled
          /\ vault'[journal'.incoming] \in usable' \cup {NoLogin} \/ journal'.to \in taken'
    <3>1. journal'.to = run.to /\ journal'.incoming = run.inc.name
      BY <1>1 DEF StagedChange
    <3>2. vault[run.inc.name] \in {run.inc.login, NoLogin}
      BY <1>1 DEF IndexTrue, ParkOK
    <3> QED BY <1>1, <1>2, <3>1, <3>2 DEF service
  <2> QED BY <2>1, <2>2 DEF SlotHolds
<1>13. JournalBacked'
  <2> SUFFICES ASSUME journal # NoJournal, journal.park # NoName, NEW a, a = journal.from
               PROVE  \/ Safe(a)'
                      \/ index'.parked[a].name = journal.park /\ mem'.parked[a].name = journal.park
    BY DEF JournalBacked, Safe, Signed, Renewing, SavesOver
  <2>1. run.going = "out" /\ a = run.out /\ journal.park = run.park /\ a \in Accounts
    BY <1>1 DEF StagedChange
  <2> QED BY <1>2, <1>5, <1>10, <2>1
<1>14. live' = run.inc.login => Safe(to)'
  BY <1>1, <1>2 DEF Safe, Signed, service
<1> QED BY <1>6, <1>11, <1>12, <1>13, <1>14

\* Under Claude Code's locks nobody's login is written over but the one read.
LEMMA InstallTakes ==
  ASSUME Guarded, Reliable, pc = "install", NEW after, Installs(after)
  PROVE  taken' = taken
<1>1. live \in {run.before, NoLogin} /\ Locking
  BY BeforeInstall DEF Reliable
<1>2. Accounts \cap WrittenOver = {}
  BY <1>1, NobodyAssumption DEF WrittenOver, Account, NoLogin
<1> QED BY <1>2 DEF Installs

\* The write, however it ends.
LEMMA InstallKeeps ==
  ASSUME Guarded, Basis', Reliable, Install \/ RolledBack \/ Unverified \/ Corrupted
  PROVE  Guarded'
<1>0. pc = "install" /\ pc \in Changing \ {"prove"}
  BY DEF Install, RolledBack, Unverified, Corrupted, Changing
<1>1. /\ Inv /\ StagedSettling /\ StagedNames /\ StagedChange /\ SlotSafe
  BY <1>0, ChangeKnows
<1>2. PICK iy : iy = IF RolledBack /\ run.going = "out" THEN Discard(mem, run.park) ELSE mem
  OBVIOUS
<1>3. \E after : Installs(after)
  BY DEF Install, RolledBack, Unverified, Corrupted
<1>4. taken' = taken
  BY <1>0, <1>3, InstallTakes
<1>5. /\ UNCHANGED <<vault, index, journal, listed, clock, service, taken>>
      /\ live' \in {live, run.inc.login, run.before, NoLogin, Torn}
  BY <1>3, <1>4 DEF Install, RolledBack, Unverified, Corrupted, Installs, CutShort
<1>6. /\ iy = mem \/ (run.going = "out" /\ iy = Discard(mem, run.park) /\ live' = run.before)
  BY <1>2 DEF RolledBack, Installs
<1>7. \/ pc' = "holds" /\ mem' = mem /\ run' = run /\ live' = run.inc.login
      \/ pc' \in {"undoSave", "clear"} /\ mem' = iy /\ run' = run
      \/ pc' = "idle" /\ mem' = index' /\ run' = NoRun
  <2>1. CASE Install
    BY <2>1 DEF Install, Installs, Goes
  <2>2. CASE RolledBack
    BY <1>2, <2>2 DEF RolledBack, Goes
  <2>3. CASE Unverified
    BY <2>3 DEF Unverified, Ends
  <2>4. CASE Corrupted /\ ~RolledBack
    BY <1>2, <2>4 DEF Corrupted, Goes
  <2> QED BY <2>1, <2>2, <2>3, <2>4
<1>8. PICK to : to = run.to
  OBVIOUS
<1>9. Traced' /\ Secure' /\ SlotHolds' /\ JournalBacked' /\ (live' = run.inc.login => Safe(to)')
  <2>1. pc' \notin Writing /\ run' \in {run, NoRun}
    BY <1>7 DEF Writing
  <2>2. mem' \in {index', iy} \/ (mem' = mem /\ pc' = "holds")
    BY <1>7
  <2>3. CASE mem' \in {index', iy}
    BY <1>0, <1>5, <1>6, <1>8, <2>1, <2>3, InstallStep
  <2>4. CASE mem' = mem
    <3>1. PICK ix : ix = mem
      OBVIOUS
    <3>2. mem' \in {index', ix}
      BY <2>4, <3>1
    <3> QED BY <1>0, <1>5, <1>8, <2>1, <3>1, <3>2, InstallStep
  <2> QED BY <2>2, <2>3, <2>4
<1>10. Answers'
  BY <1>7, NoAnswersNext DEF Asking
<1>11. Staged'
  BY <1>0, <1>1, <1>5, <1>7 DEF Staged, StagedSettling, StagedNames, StagedChange, Unjournaled, Swept,
                     Asking, Changing, Writing, Knowing, service
<1>12. SlotSafe' /\ SlotTwins'
  <2>1. pc' = "holds" => StillParked(to)'
    <3>1. StillParked(to)
      BY <1>0, <1>8, BeforeInstall
    <3> QED BY <1>5, <1>7, <3>1 DEF StillParked, service
  <2> QED BY <1>7, <1>8, <1>9, <2>1 DEF SlotSafe, SlotTwins, TwinFree, Changing, Asking
<1> QED BY <1>9, <1>10, <1>11, <1>12 DEF Slot, Guarded

\* A run that dies writing in pieces.
LEMMA CrashTornKeeps ==
  ASSUME Guarded, Basis', Reliable, Crash, pc = "install", live' = Torn
  PROVE  Guarded'
<1>1. \A a \in Accounts : run.fresh[a] = NoLogin
  BY NoAnswers DEF Guarded, Basis, Asking
<1>2. /\ UNCHANGED <<vault, index, journal, listed, clock, service, taken>>
      /\ pc' = "idle" /\ run' = NoRun /\ mem' = index'
  BY <1>1 DEF Crash, Ends
<1>3. PICK to : to = run.to
  OBVIOUS
<1>4. PICK iy : iy = mem
  OBVIOUS
<1>5. Traced' /\ Secure' /\ SlotHolds' /\ JournalBacked'
  <2>1. /\ live' \in {live, run.inc.login, run.before, NoLogin, Torn} /\ mem' \in {index', iy}
        /\ run' \in {run, NoRun} /\ pc' \notin Writing
    BY <1>2 DEF Writing
  <2> QED BY <1>2, <1>3, <1>4, <2>1, InstallStep
<1>6. Answers'
  BY <1>2, NoAnswersNext DEF Asking
<1>7. Staged'
  BY <1>2 DEF Staged, StagedSettling, StagedNames, StagedChange, Unjournaled, Swept,
              Asking, Changing, Writing, Knowing
<1>8. SlotSafe' /\ SlotTwins'
  BY <1>2 DEF SlotSafe, SlotTwins, TwinFree, Changing, Asking
<1> QED BY <1>5, <1>6, <1>7, <1>8 DEF Slot, Guarded

\* A run that dies anywhere.
LEMMA CrashKeeps ==
  ASSUME Guarded, Basis', Reliable, Crash
  PROVE  Guarded'
<1>1. live' = live \/ (pc = "install" /\ live' = Torn)
  BY DEF Crash
<1> QED BY <1>1, CrashAskingKeeps, CrashPlainKeeps, CrashTornKeeps

\* A change's steps, one by one.
LEMMA ChangeKeeps ==
  ASSUME Guarded, Basis', Reliable, Change
  PROVE  Guarded'
BY LockKeeps, ReserveKeeps, WriteJournalKeeps, ParkStoreKeeps, ParkRecordKeeps, RereadKeeps,
   UndoKeeps, InstallKeeps, HoldsKeeps, RecordKeeps, ClearKeeps DEF Change
-----------------------------------------------------------------------------
(* Giving up, and every step. *)

\* A journal given up lets go of nothing: the login it parked is recorded already, or
\* its account is safe.
LEMMA AbandonKeeps ==
  ASSUME Guarded, Basis', Reliable, Abandon
  PROVE  Guarded'
<1>0. /\ Inv /\ Traced /\ JournalBacked /\ pc = "abandon" /\ journal # NoJournal
      /\ IndexTrue(mem, vault, clock) /\ Enrolls(mem) /\ VaultTrue /\ clock \in Nat /\ Locking
      /\ JournalTrue(journal, clock) /\ \A a \in Accounts : run.fresh[a] = NoLogin
  BY SwitchBounds, NoAnswers DEF Guarded, Basis, Slot, Inv, RunTrue, DiskTrue, ListTrue, Settling, Abandon,
     Traced, IndexKnown, Enrolls, Reliable, Asking
<1>1. CASE Breaks("save")
  BY <1>0, <1>1, RefusesKeeps DEF Operations
<1>2. CASE ~Breaks("save")
  <2>1. /\ mem' = index' /\ pc' = "clear" /\ run' = run /\ journal' = journal /\ Plain
        /\ \E p \in {NoLogin, IF Replaces(journal) THEN NoLogin ELSE vault[journal.park]} :
             \E i, slot : index' = GivenUp(mem, journal, p, i, slot)
    BY <1>2 DEF Abandon, Saves, Goes, Plain, service
  <2>2. PICK p \in {NoLogin, IF Replaces(journal) THEN NoLogin ELSE vault[journal.park]} :
          \E i, slot : index' = GivenUp(mem, journal, p, i, slot)
    BY <2>1
  <2>12. PICK i, slot : index' = GivenUp(mem, journal, p, i, slot)
    BY <2>2
  <2>3. PICK iy : iy = GivenUp(mem, journal, p, i, slot)
    OBVIOUS
  <2>4. IndexTrue(iy, vault, clock)
    <3>1. Basis' /\ index' = iy /\ vault' = vault /\ clock' = clock
      BY <2>1, <2>12, <2>3 DEF Plain
    <3> QED BY <3>1 DEF Basis, Inv, DiskTrue
  <2>5. /\ Follows(mem, iy, vault, clock) /\ iy.enrolled = mem.enrolled
        /\ \A a \in Accounts :
             \/ Spares(mem, iy, a)
             \/ /\ journal.park # NoName /\ a = journal.from
                /\ mem.parked[a].name # journal.park
    BY <1>0, <2>3, GivenUpFollows
  <2>6. \A a \in Accounts : Spares(mem, iy, a) \/ Safe(a)
    BY <1>0, <2>5 DEF JournalBacked
  <2>7. Makes(iy) /\ RunKept
    BY <2>1, <2>12, <2>3, <2>4, <2>5 DEF Makes, RunKept
  <2>8. Traced' /\ Secure' /\ SlotHolds' /\ JournalBacked'
    BY <2>1, <2>5, <2>6, <2>7, PlainStep DEF Writing
  <2>9. Answers'
    BY <2>1, NoAnswersNext DEF Asking
  <2>10. Staged'
    BY <2>1 DEF Staged, StagedSettling, StagedNames, StagedChange, Unjournaled, Swept,
                     Asking, Changing, Writing, Knowing
  <2>11. SlotSafe' /\ SlotTwins'
    BY <2>1 DEF SlotSafe, SlotTwins, TwinFree, Changing, Asking
  <2> QED BY <2>8, <2>9, <2>10, <2>11 DEF Slot, Guarded
<1> QED BY <1>1, <1>2

\* Every step of a run keeps every account's login.
LEMMA ProcessKeeps ==
  ASSUME Guarded, Basis', Reliable, Process
  PROVE  Guarded'
<1>1. CASE Settle
  BY <1>1, SettleKeeps
<1>2. CASE Renew
  BY <1>2, RenewKeeps
<1>3. CASE Change
  BY <1>3, ChangeKeeps
<1>4. CASE Abandon \/ Identify \/ IdentifyFails \/ IdentifyRefused \/ Forget \/ Prove \/ NotProved
  BY <1>4, AbandonKeeps, IdentifyKeeps, IdentifyOtherwiseKeeps, ForgetKeeps, ProveKeeps, NotProvedKeeps
<1> QED BY <1>1, <1>2, <1>3, <1>4 DEF Process

\* So does every step of anybody's.
LEMMA NextKeeps ==
  ASSUME Guarded, Basis', Reliable, [Next]_vars
  PROVE  Guarded'
<1>1. CASE Process
  BY <1>1, ProcessKeeps
<1>2. CASE Crash
  BY <1>2, CrashKeeps
<1>3. CASE World
  BY <1>3, WorldKeeps
<1>4. CASE \E cmd \in Commands, a \in Accounts \cup {Nobody} : Start(cmd, a)
  BY <1>4, StartKeeps
<1>5. CASE UNCHANGED vars
  BY <1>5, StutterKeeps
<1> QED BY <1>1, <1>2, <1>3, <1>4, <1>5 DEF Next

\* To begin with each account's login is in the slot or parked.
LEMMA GuardedInit ==
  ASSUME Init, Basis
  PROVE  Guarded
<1>1. PICK signedIn \in Accounts, others \in SUBSET Accounts :
        /\ signedIn \notin others
        /\ index = [enrolled |-> others \cup {signedIn},
                    parked |-> [a \in Accounts |->
                       IF a \in others THEN [name |-> <<a, 1>>, login |-> <<a, 1>>] ELSE NoPark],
                    discarded |-> {},
                    inUse |-> [owner |-> signedIn, login |-> <<signedIn, 1>>]]
        /\ vault = [n \in Names |-> IF \E a \in others : n = <<a, 1>> THEN <<n[1], 1>> ELSE NoLogin]
        /\ live = <<signedIn, 1>>
  BY DEF Init
<1>2. /\ journal = NoJournal /\ listed = {} /\ clock = 1 /\ sess = NoRenewal
      /\ issued = [a \in Accounts |-> IF a \in index.enrolled THEN 1 ELSE 0]
      /\ usable = {<<a, 1>> : a \in index.enrolled}
      /\ pc = "idle" /\ mem = index /\ run = NoRun /\ taken = {}
  BY DEF Init
<1>3. /\ index.enrolled = others \cup {signedIn} /\ index.discarded = {}
      /\ \A a \in Accounts : index.parked[a] = IF a \in others THEN [name |-> <<a, 1>>, login |-> <<a, 1>>]
                                               ELSE NoPark
  BY <1>1
<1>4. \A a \in Accounts : <<a, 1>> \in Names /\ <<a, 1>> \in Logins /\ <<a, 1>> # NoLogin /\ <<a, 1>> # NoName
  BY SwitchBounds, NobodyAssumption DEF Names, Logins, NoLogin, NoName
<1>5. /\ run.seen = NoLogin /\ run.before = NoLogin /\ run.park = NoName
      /\ \A a \in Accounts : run.fresh[a] = NoLogin
  BY <1>2 DEF NoRun
<1>6. \A a \in Accounts : a \in others => vault[<<a, 1>>] = <<a, 1>>
  BY <1>1, <1>4
<1>7. Traced
  <2>1. IndexKnown(index, issued, clock)
    <3> SUFFICES ASSUME NEW a \in Accounts
                 PROVE  /\ index.parked[a] # NoPark => a \in index.enrolled
                        /\ Known(index.parked[a].login, issued)
      BY <1>3 DEF IndexKnown
    <3>1. CASE a \in others
      <4>3. index.parked[a] = [name |-> <<a, 1>>, login |-> <<a, 1>>]
        BY <1>3, <3>1
      <4>1. index.parked[a].login = <<a, 1>> /\ a \in index.enrolled
        BY <1>3, <3>1, <4>3
      <4>2. issued[a] = 1
        BY <1>2, <4>1
      <4> QED BY <4>1, <4>2 DEF Known
    <3>2. CASE a \notin others
      <4>1. index.parked[a] = NoPark /\ NoPark.login = NoLogin
        BY <1>3, <3>2 DEF NoPark
      <4> QED BY <4>1, NobodyNamed DEF Known
    <3> QED BY <3>1, <3>2
  <2>2. \A n \in Names : vault[n] # NoLogin => n[2] <= clock /\ Known(vault[n], issued)
    <3> SUFFICES ASSUME NEW n \in Names, vault[n] # NoLogin PROVE n[2] <= clock /\ Known(vault[n], issued)
      OBVIOUS
    <3>1. PICK a \in others : n = <<a, 1>>
      BY <1>1
    <3> QED BY <1>2, <1>3, <1>6, <3>1 DEF Known
  <2>3. Known(live, issued)
    BY <1>1, <1>2, <1>3 DEF Known
  <2> QED BY <1>2, <1>3, <1>5, <2>1, <2>2, <2>3, NobodyNamed DEF Traced, Known, SessionTraced, JournalTraced
<1>8. Answers
  BY <1>5 DEF Answers
<1>9. Staged
  BY <1>2 DEF Staged, StagedSettling, StagedNames, StagedChange, Unjournaled, Swept,
                     Asking, Changing, Writing, Knowing
<1>10. Secure
  <2> SUFFICES ASSUME NEW a \in Accounts, ~Safe(a)
               PROVE  Stored(index, index, a, NoLogin, listed, vault, usable)
    BY <1>2, <1>5 DEF Secure
  <2>1. a \in others
    <3>1. a # signedIn
      BY <1>1, <1>2, <1>3 DEF Safe, Signed, Account
    <3> QED BY <1>3, <3>1 DEF Safe
  <2>2. PICK x \in Logins : x = <<a, 1>>
    BY <1>4
  <2>3. PICK p : p = [name |-> <<a, 1>>, login |-> x]
    OBVIOUS
  <2>4. p \in Parks /\ p.name = <<a, 1>> /\ p.login = x /\ index.parked[a] = p /\ x \in usable
        /\ p.name[1] = a
    BY <1>2, <1>3, <1>4, <2>1, <2>2, <2>3 DEF Parks
  <2>5. Offers(index, a, listed, vault) = {p}
    BY <1>2, <2>4 DEF Offers
  <2>6. vault[p.name] = x
    BY <1>6, <2>1, <2>2, <2>4
  <2>7. Firm(index, index, a, x, listed, vault, usable)
    BY <1>3, <2>4, <2>5, <2>6 DEF Firm, Newest
  <2>8. Both(index, index, a, x, listed, vault)
    BY <1>4, <2>3, <2>5 DEF Both
  <2> QED BY <2>7, <2>8 DEF Stored
<1>11. Slot
  <2>1. live \in usable /\ live # Torn
    BY <1>1, <1>2, <1>3, <1>4, NobodyNamed
  <2> QED BY <1>2, <1>5, <2>1 DEF Slot, SlotHolds, JournalBacked, SlotSafe, SlotTwins, TwinFree, Writing,
                              Changing, Asking
<1> QED BY <1>7, <1>8, <1>9, <1>10, <1>11 DEF Guarded

\* What SwitchProofs keeps is kept.
LEMMA BasisNext ==
  ASSUME Basis, [Next]_vars
  PROVE  Basis'
<1>1. Inv'
  BY StartFits, ProcessFits, CrashFits, WorldFits, StutterFits DEF Next, Basis
<1>2. Found'
  BY FoundOutside, FoundSettle, FoundRenew, FoundChange, FoundRest DEF Next, Process, Basis
<1>3. Locked'
  BY LockedKept DEF Basis
<1> QED BY <1>1, <1>2, <1>3 DEF Basis

\* To begin with too.
LEMMA BasisInit == Init => Basis
BY InitFits, FoundInit, LockedInit DEF Basis

\* All of it holds at every step.
LEMMA GuardedHolds == Reliable => (Spec => []Guarded)
<1> SUFFICES ASSUME Reliable PROVE Spec => []Guarded
  OBVIOUS
<1>1. Init => Guarded
  BY BasisInit, GuardedInit
<1>2. Guarded /\ [Next]_vars => Guarded'
  <2> SUFFICES ASSUME Guarded, [Next]_vars PROVE Guarded'
    OBVIOUS
  <2>1. Basis'
    BY BasisNext DEF Guarded
  <2> QED BY <2>1, NextKeeps
<1> QED BY <1>1, <1>2, PTL DEF Spec

\* A login stored is one Pitboard still finds.
LEMMA StoredIsKept ==
  ASSUME Basis, NEW a \in Accounts, Stored(index, mem, a, NoLogin, listed, vault, usable)
  PROVE  Kept(a)
<1>1. PICK x \in Logins : /\ Firm(index, mem, a, x, listed, vault, usable)
                          /\ Both(index, mem, a, x, listed, vault)
  BY DEF Stored
<1>2. PICK n \in Names : [name |-> n, login |-> x] \in Offers(index, a, listed, vault)
  BY <1>1 DEF Both
<1>3. PICK p : p = [name |-> n, login |-> x]
  OBVIOUS
<1>4. p \in Offers(index, a, listed, vault) /\ p.login = x /\ p.name = n
  BY <1>2, <1>3
<1>5. vault[n] = x /\ n \notin index.discarded /\ x \in usable
  BY <1>1, <1>4 DEF Firm, Newest
<1>6. Account(x) = a
  <2>1. IndexTrue(index, vault, clock) /\ \A m \in Names : vault[m] # NoLogin => Account(vault[m]) = m[1]
    BY DEF Basis, Inv, DiskTrue, VaultTrue
  <2> QED BY <1>4, <2>1, OffersTrue
<1>7. n = index.parked[a].name \/ n \in listed
  BY <1>4 DEF Offers
<1> QED BY <1>5, <1>6, <1>7 DEF Kept

\* So nothing is lost where everything is guarded.
LEMMA GuardedKeeps ==
  ASSUME Guarded
  PROVE  NothingLost
<1> SUFFICES ASSUME NEW a \in index.enrolled, a \notin taken, run.fresh[a] = NoLogin, ~Held(a)
             PROVE  FALSE
  BY DEF NothingLost
<1>1. a \in Accounts
  BY DEF Guarded, Basis, Inv, DiskTrue, IndexTrue, Indexes
<1>2. ~Safe(a) /\ ~Kept(a)
  BY DEF Safe, Held
<1>3. Stored(index, mem, a, NoLogin, listed, vault, usable)
  BY <1>1, <1>2 DEF Guarded, Secure
<1> QED BY <1>1, <1>2, <1>3, StoredIsKept DEF Guarded

\* With Claude Code's locks, and where the journal can be removed and settling does not
\* take for empty what it cannot read, every account Pitboard answers for keeps a login
\* that it or the tool can use, killed wherever it is and whatever else fails, unless
\* somebody outside ended it or the run has its answer in hand (switch/mod.rs, renew.rs,
\* journal.rs, pending.rs).
THEOREM NothingIsLost == Reliable => (Spec => []NothingLost)
<1>1. Guarded => NothingLost
  BY GuardedKeeps
<1> QED BY <1>1, GuardedHolds, PTL

-----------------------------------------------------------------------------
(* What a run of Switch is, as Custody sees it. *)

\* Custody's invariant: an enrolled account has a login somewhere.
Within == \A a \in index.enrolled : Kept(a) \/ a = SignedIn \/ a \in Hand \/ a \in taken

\* It follows from what every step keeps.
LEMMA GuardedWithin == Guarded => Within
<1> SUFFICES ASSUME Guarded, NEW a \in index.enrolled, a \notin taken, a # SignedIn, a \notin Hand
             PROVE  Kept(a)
  BY DEF Within
<1>1. a \in Accounts /\ Inv
  BY DEF Guarded, Basis, Inv, DiskTrue, IndexTrue, Indexes
<1>2. ~Signed(a) /\ ~Renewing(a) /\ run.fresh[a] \notin usable
  BY <1>1 DEF Signed, SignedIn, Hand
<1>3. Stored(index, mem, a, run.fresh[a], listed, vault, usable)
  BY <1>1, <1>2 DEF Guarded, Secure, Safe
<1>4. run.fresh[a] = NoLogin
  BY <1>2, <1>3 DEF Stored, Firm
<1> QED BY <1>1, <1>3, <1>4, StoredIsKept DEF Guarded

\* After a step, too.
LEMMA WithinNext == Guarded' => Within'
BY GuardedWithin, PTL

\* Pitboard finds no login it did not find before, where the vault gets none, the
\* service gives none, and what was let go of and is still there stays let go of.
LEMMA FindsNoMore ==
  ASSUME Guarded, \A n \in Names : vault'[n] \in {vault[n], NoLogin} \/ vault'[n] \notin usable',
         usable' \cap {vault[n] : n \in Names} \subseteq usable,
         \A n \in Names : n \in index.discarded /\ vault'[n] # NoLogin => n \in index'.discarded,
         NEW a \in Accounts, Kept(a)'
  PROVE  Kept(a)
<1>0. Inv /\ AccountedIn(index) /\ NoLogin \notin Logins
  BY NobodyNamed DEF Guarded, Basis, Found
<1>1. PICK n \in Names : vault'[n] \in usable' /\ Account(vault'[n]) = a /\ n \notin index'.discarded
  BY DEF Kept
<1>2. Nobody # a
  BY NobodyAssumption
<1>3. vault'[n] # NoLogin
  BY <1>1, <1>2 DEF Account, NoLogin
<1>4. vault'[n] = vault[n] /\ vault[n] \in usable /\ n \notin index.discarded
  BY <1>1, <1>3
<1>5. n[1] = a
  BY <1>0, <1>1, <1>3, <1>4 DEF Inv, DiskTrue, VaultTrue
<1>6. ASSUME NEW b \in Accounts, index.parked[b].name = n PROVE b = a
  <2>1. index.parked[b] # NoPark
    BY <1>6, NobodyNamed DEF NoPark
  <2> QED BY <1>0, <1>5, <1>6, <2>1 DEF Inv, DiskTrue, IndexTrue, ParkOK
<1>7. n = index.parked[a].name \/ n \in listed
  BY <1>0, <1>3, <1>4, <1>6 DEF AccountedIn, IndexNames, References
<1> QED BY <1>1, <1>4, <1>7 DEF Kept

\* A step that leaves the slot, the service and the session alone, and lets go of
\* copies, or of answers, sets down what it lets go of.
LEMMA SetsDown ==
  ASSUME Guarded, Guarded', UNCHANGED <<live, usable, sess, outside>>,
         index'.enrolled = index.enrolled,
         \A n \in Names : vault'[n] \in {vault[n], NoLogin} \/ vault'[n] \notin usable,
         \A n \in Names : n \in index.discarded /\ vault'[n] # NoLogin => n \in index'.discarded,
         \A a \in Accounts : run'.fresh[a] \in {run.fresh[a], NoLogin},
         taken \subseteq taken',
         \A a \in taken' \ taken : /\ run.fresh[a] # NoLogin /\ run'.fresh[a] = NoLogin
                                  /\ ~Held(a)' /\ ~Kept(a)
  PROVE  Keeping!Next
<1>1. Inv /\ Traced /\ Secure /\ NoLogin \notin usable /\ taken' \subseteq Accounts
  <2>1. Inv /\ Inv' /\ Traced /\ Secure
    BY DEF Guarded, Basis
  <2> QED BY <2>1, NobodyNamed DEF Inv, DiskTrue, WorldOK
<1>2. \A a \in Accounts : Renewing(a)' <=> Renewing(a)
  BY DEF Renewing, SavesOver
<1>3. SignedIn' = SignedIn
  BY DEF SignedIn
<1>4. \A a \in Accounts : Kept(a)' => Kept(a)
  BY FindsNoMore
<1>5. Hand' \subseteq Hand
  BY <1>1, <1>2 DEF Hand
<1>6. \A a \in Accounts : run.fresh[a] # NoLogin => a \in index.enrolled
  <2>1. \A a \in Accounts : run.fresh[a] # NoLogin => mem.parked[a] # NoPark
    BY <1>1 DEF Inv, RunTrue, Asked
  <2> QED BY <1>1, <2>1 DEF Traced, IndexKnown
<1>7. \A a \in Hand \ Hand' : a \in index.enrolled /\ a \in Accounts
  BY <1>1, <1>2, <1>6 DEF Hand
<1>8. \A a \in Accounts : a \in index.enrolled =>
        Kept(a)' \/ a = SignedIn \/ a \in Hand' \/ a \in taken'
  BY <1>3, WithinNext DEF Within
<1>9. \A a \in taken' \ taken : a \in Hand \ Hand'
  <2> SUFFICES ASSUME NEW a \in taken' \ taken PROVE a \in Hand \ Hand'
    OBVIOUS
  <2>1. a \in Accounts /\ run.fresh[a] # NoLogin /\ run'.fresh[a] = NoLogin /\ ~Held(a)'
    BY <1>1
  <2>2. ~Signed(a)' /\ ~Renewing(a)'
    BY <2>1 DEF Held
  <2>3. ~Signed(a) /\ ~Renewing(a) /\ a \in index.enrolled
    BY <1>2, <1>6, <2>1, <2>2 DEF Signed
  <2>4. run.fresh[a] \in usable
    BY <1>1, <2>1, <2>3 DEF Secure, Safe, Stored, Firm
  <2> QED BY <1>1, <2>1, <2>2, <2>4 DEF Hand
<1>10. /\ Hand' \in SUBSET Hand
       /\ {a \in Accounts : Kept(a)'} \in SUBSET {a \in Accounts : Kept(a)}
       /\ \A a \in {b \in Accounts : Kept(b)} \ {b \in Accounts : Kept(b)'} :
            a = SignedIn \/ a \in Hand' \/ a \in taken \/ a \notin index.enrolled
       /\ taken' \ taken \subseteq Hand \ Hand' /\ taken \subseteq taken'
       /\ \A a \in Hand \ Hand' : a = SignedIn \/ a \in {b \in Accounts : Kept(b)} \cup taken'
       /\ SignedIn' = SignedIn /\ index'.enrolled = index.enrolled /\ outside' = outside
  BY <1>3, <1>4, <1>5, <1>7, <1>8, <1>9
<1>11. Keeping!SetDown
  BY <1>10 DEF Keeping!SetDown, Keeping!Sheds
<1> QED BY <1>11 DEF Keeping!Next

\* Such a step that takes nobody's login.
LEMMA LetsGo ==
  ASSUME Guarded, Guarded', UNCHANGED <<live, usable, sess, taken, outside>>,
         index'.enrolled = index.enrolled,
         \A n \in Names : vault'[n] \in {vault[n], NoLogin} \/ vault'[n] \notin usable,
         \A n \in Names : n \in index.discarded /\ vault'[n] # NoLogin => n \in index'.discarded,
         \A a \in Accounts : run'.fresh[a] \in {run.fresh[a], NoLogin}
  PROVE  Keeping!Next
BY SetsDown

\* And one that leaves the index alone as well.
LEMMA LeavesIndex ==
  ASSUME Guarded, Guarded', UNCHANGED <<live, usable, sess, taken, outside, index>>,
         \A n \in Names : vault'[n] \in {vault[n], NoLogin} \/ vault'[n] \notin usable,
         \A a \in Accounts : run'.fresh[a] \in {run.fresh[a], NoLogin}
  PROVE  Keeping!Next
BY LetsGo

\* Or saves what comes of the one in mind, with no item let go of taken off the list
\* that is still there.
LEMMA SavesIndex ==
  ASSUME Guarded, Guarded', UNCHANGED <<live, usable, sess, taken, outside, vault>>,
         NEW iy, index' \in {index, iy}, iy.enrolled = mem.enrolled,
         mem.discarded \subseteq iy.discarded,
         \A a \in Accounts : run'.fresh[a] \in {run.fresh[a], NoLogin}
  PROVE  Keeping!Next
<1>1. Traced
  BY DEF Guarded
<1>2. index'.enrolled = index.enrolled
  BY <1>1 DEF Traced
<1>3. \A n \in Names : n \in index.discarded /\ vault[n] # NoLogin => n \in index'.discarded
  BY <1>1 DEF Traced
<1> QED BY <1>2, <1>3, LetsGo

-----------------------------------------------------------------------------
(* What somebody else does, and the tool. *)

\* Where nothing is stored the service gave since, and no account's login is ended but
\* one's, Pitboard finds every other account's as before.
LEMMA FindsOthers ==
  ASSUME UNCHANGED <<vault, index, listed>>, NEW a,
         \A x \in Logins : Account(x) # a => (x \in usable' <=> x \in usable),
         usable \subseteq Logins, usable' \subseteq Logins
  PROVE  \A b \in Accounts : b # a => (Kept(b)' <=> Kept(b))
BY DEF Kept

\* Custody's account of a step that moves logins between the slot and the session.
LEMMA SendsExchanges ==
  ASSUME Guarded, Guarded', SessionSends, Locking
  PROVE  Keeping!Next
<1>0. PICK a : a = Account(live)
  OBVIOUS
<1>1. Inv /\ Inv' /\ Traced
  BY DEF Guarded, Basis
<1>2. /\ sess = NoRenewal /\ live \in usable /\ live \in Logins /\ a \in Accounts
      /\ usable \subseteq Logins /\ usable' \subseteq Logins /\ NoLogin \notin Logins
  BY <1>0, <1>1, NobodyNamed DEF SessionSends, Inv, DiskTrue, WorldOK, Logins, Account
<1>3. PICK f : f = Fresh(a)
  OBVIOUS
<1>4. /\ usable' = (usable \ {live}) \cup {f} /\ sess' = [sent |-> live, fresh |-> f]
      /\ UNCHANGED <<live, vault, index, listed, run, taken, outside>>
  BY <1>0, <1>3 DEF SessionSends, disk, process, budgets
<1>5. Account(f) = a /\ f \in Logins /\ f # live /\ \A n \in Names : vault[n] # f
  <2>1. f \in Logins
    BY <1>2, <1>4
  <2>2. f[2] = issued[a] + 1 /\ f[1] = a
    BY <1>3 DEF Fresh
  <2>3. issued[a] \in Nat
    BY <1>1, <1>2 DEF Inv, DiskTrue, WorldOK
  <2>4. ~Known(f, issued)
    BY <2>1, <2>2, <2>3 DEF Known
  <2>5. Known(live, issued) /\ \A n \in Names : Known(vault[n], issued)
    BY <1>1, NobodyNamed DEF Traced, Known
  <2> QED BY <2>1, <2>2, <2>4, <2>5 DEF Account
<1>6. \A b \in Accounts : b # a => (Kept(b)' <=> Kept(b))
  <2>1. \A x \in Logins : Account(x) # a => (x \in usable' <=> x \in usable)
    BY <1>0, <1>4, <1>5
  <2> QED BY <1>2, <1>4, <2>1, FindsOthers
<1>7. Kept(a)' => Kept(a)
  BY <1>4, <1>5 DEF Kept
<1>8. \A b \in Accounts : ~Renewing(b) /\ (Renewing(b)' <=> b = a)
  BY <1>0, <1>2, <1>4, <1>5 DEF Renewing, NoRenewal, SavesOver
<1>9. \A b \in Accounts : run.fresh[b] # NoLogin => Account(run.fresh[b]) = b
  BY <1>1 DEF Inv, RunTrue, Asked
<1>10. Hand' = Hand \cup {a}
  <2>1. \A b \in Accounts : b # a => (run.fresh[b] \in usable' <=> run.fresh[b] \in usable)
    BY <1>0, <1>2, <1>4, <1>5, <1>9
  <2> QED BY <1>2, <1>4, <1>8, <2>1 DEF Hand
<1>11. SignedIn = a /\ SignedIn' = Nobody
  BY <1>0, <1>2, <1>4, <1>5 DEF SignedIn
<1>12. {b \in Accounts : Kept(b)'} \in {{b \in Accounts : Kept(b)}, {b \in Accounts : Kept(b)} \ {a}}
  BY <1>6, <1>7
<1>13. index'.enrolled = index.enrolled /\ taken' = taken /\ outside' = outside
  BY <1>4
<1>14. Keeping!Exchange(a)
  BY <1>10, <1>11, <1>12, <1>13 DEF Keeping!Exchange, Keeping!Has
<1> QED BY <1>2, <1>14 DEF Keeping!Next

\* A session saves its answer over the login it sent.
LEMMA SavesSaves ==
  ASSUME Guarded, SessionSaves, Locking
  PROVE  [Keeping!Next]_(Keeping!vars)
<1>1. Inv /\ Traced /\ NoLogin \notin usable
  BY NobodyNamed DEF Guarded, Basis, Inv, DiskTrue, WorldOK
<1>2. /\ sess # NoRenewal /\ sess' = NoRenewal /\ live' = IF live = sess.sent THEN sess.fresh ELSE live
      /\ UNCHANGED <<vault, index, listed, usable, run, taken, outside>>
  BY DEF SessionSaves, SavesOver, Spoils, process, budgets
<1>3. /\ sess.sent \notin usable /\ sess.fresh \in Logins /\ Account(sess.fresh) \in Accounts
  BY <1>1, <1>2 DEF Traced, SessionTraced, Logins, Account
<1>4. \A a \in Accounts : ~Renewing(a)'
  BY <1>1, <1>2 DEF Renewing, NoRenewal
<1>5. \A a \in Accounts : Kept(a)' <=> Kept(a)
  BY <1>2 DEF Kept
<1>6. index'.enrolled = index.enrolled /\ taken' = taken /\ outside' = outside
      /\ {b \in Accounts : Kept(b)'} = {b \in Accounts : Kept(b)}
  BY <1>2, <1>5
<1>7. CASE live = sess.sent /\ sess.fresh \in usable
  <2>1. PICK a \in Accounts : a = Account(sess.fresh)
    BY <1>3
  <2>2. SignedIn = Nobody /\ SignedIn' = a
    BY <1>2, <1>3, <1>7, <2>1 DEF SignedIn
  <2>3. \A b \in Accounts : Renewing(b) <=> b = a
    BY <1>7, <2>1 DEF Renewing, SavesOver
  <2>4. a \in Hand /\ Hand' \in {Hand, Hand \ {a}}
    BY <1>2, <1>4, <2>3 DEF Hand
  <2>5. Keeping!Save(a)
    BY <1>6, <2>2, <2>4 DEF Keeping!Save
  <2> QED BY <2>5 DEF Keeping!Next
<1>8. CASE ~(live = sess.sent /\ sess.fresh \in usable)
  <2>1. \A b \in Accounts : ~Renewing(b)
    BY <1>8 DEF Renewing, SavesOver
  <2>2. SignedIn' = SignedIn
    BY <1>2, <1>3, <1>8 DEF SignedIn
  <2>3. Hand' = Hand
    BY <1>2, <1>4, <2>1 DEF Hand
  <2> QED BY <1>6, <2>2, <2>3 DEF Keeping!vars
<1> QED BY <1>7, <1>8

\* What a session would have saved over a login is of the account signed in.
LEMMA RenewsItsOwn ==
  ASSUME Guarded, Locking
  PROVE  \A b \in Accounts : Renewing(b) => Account(live) = b
<1> SUFFICES ASSUME NEW b \in Accounts, Renewing(b) PROVE Account(live) = b
  OBVIOUS
<1>1. /\ live = sess.sent /\ Account(sess.fresh) = b /\ sess.fresh \in usable
      /\ NoLogin \notin usable /\ Traced
  BY NobodyNamed DEF Renewing, SavesOver, Guarded, Basis, Inv, DiskTrue, WorldOK
<1>2. sess # NoRenewal
  BY <1>1 DEF NoRenewal
<1> QED BY <1>1, <1>2 DEF Traced, SessionTraced

\* Somebody signs in over whatever the slot holds.
LEMMA SignInElsewhere ==
  ASSUME Guarded, Guarded', Locking, NEW a \in Accounts, OutsideSignIn(a)
  PROVE  Keeping!Next
<1>1. Inv /\ Inv' /\ Traced
  BY DEF Guarded, Basis
<1>2. PICK f : f = Fresh(a)
  OBVIOUS
<1>3. /\ usable' = usable \cup {f} /\ live' = f
      /\ UNCHANGED <<vault, index, listed, sess, run>> /\ outside' = outside + 1
      /\ taken' = (taken \cup Ended(live)) \ {a}
  BY <1>2 DEF OutsideSignIn, Outside, Revoked, process
<1>4. /\ usable \subseteq Logins /\ usable' \subseteq Logins /\ NoLogin \notin Logins
      /\ taken' \subseteq Accounts
  BY <1>1, NobodyNamed DEF Inv, DiskTrue, WorldOK
<1>5. Account(f) = a /\ f \in Logins /\ f # sess.sent /\ \A n \in Names : vault[n] # f
  <2>1. f \in Logins
    BY <1>3, <1>4
  <2>2. f[2] = issued[a] + 1 /\ f[1] = a
    BY <1>2 DEF Fresh
  <2>3. issued[a] \in Nat
    BY <1>1 DEF Inv, DiskTrue, WorldOK
  <2>4. ~Known(f, issued)
    BY <2>1, <2>2, <2>3 DEF Known
  <2>5. \A n \in Names : Known(vault[n], issued)
    BY <1>1, NobodyNamed DEF Traced, Known
  <2>6. f # sess.sent
    BY <1>1, <1>4, <2>1, <2>4 DEF Traced, SessionTraced, NoRenewal
  <2> QED BY <2>1, <2>2, <2>4, <2>5, <2>6 DEF Account
<1>6. \A b \in Accounts : Kept(b)' <=> Kept(b)
  BY <1>3, <1>5 DEF Kept
<1>7. \A b \in Accounts : ~Renewing(b)'
  BY <1>3, <1>5 DEF Renewing, SavesOver
<1>9. \A b \in Accounts : run.fresh[b] # f
  <2>1. \A b \in Accounts : Known(run.fresh[b], issued)
    BY <1>1 DEF Traced
  <2>2. f[2] = issued[a] + 1 /\ f[1] = a /\ issued[a] \in Nat
    BY <1>1, <1>2 DEF Fresh, Inv, DiskTrue, WorldOK
  <2> QED BY <1>5, <2>1, <2>2 DEF Known
<1>10. Hand' \subseteq Hand /\ \A b \in Hand \ Hand' : Renewing(b)
  BY <1>3, <1>7, <1>9 DEF Hand
<1>11. SignedIn' = a /\ (SignedIn # Nobody => live \in usable /\ SignedIn = Account(live))
  BY <1>3, <1>5 DEF SignedIn
<1>12. \A b \in Ended(live) : b = SignedIn \/ b \in Hand
  BY DEF Ended, SignedIn, Hand
<1>13. \A b \in Accounts : Renewing(b) => b \in Ended(live)
  BY RenewsItsOwn DEF Ended
<1>14. \A b \in index.enrolled : b \in Accounts
  BY <1>1 DEF Inv, DiskTrue, IndexTrue, Indexes
<1>15. \A b \in Accounts : b = SignedIn => b = a \/ b \in taken'
  BY <1>3, <1>11, NobodyAssumption DEF Ended
<1>16. \A b \in Hand \ Hand' : b = a \/ b \in taken'
  BY <1>3, <1>10, <1>13 DEF Hand
<1>17. {b \in Accounts : Kept(b)'} = {b \in Accounts : Kept(b)}
  BY <1>6
<1>18. Keeping!Elsewhere
  <2>1. /\ SignedIn' \in {SignedIn, Nobody, a}
        /\ {b \in Accounts : Kept(b)'} \in {{b \in Accounts : Kept(b)}, {b \in Accounts : Kept(b)} \ {a}}
        /\ Hand' \in SUBSET Hand
        /\ taken' \in SUBSET Accounts
        /\ taken' \ taken \subseteq {a, SignedIn} \cup Hand /\ taken \ taken' \subseteq {SignedIn'}
    BY <1>3, <1>4, <1>10, <1>11, <1>12, <1>17
  <2>2. \A b \in index.enrolled : Keeping!Has(b) /\ ~Keeping!Has(b)' => b \in taken'
    BY <1>11, <1>14, <1>15, <1>16, <1>17 DEF Keeping!Has
  <2> QED BY <1>3, <2>1, <2>2 DEF Keeping!Elsewhere
<1> QED BY <1>18 DEF Keeping!Next

\* Somebody signs out.
LEMMA LogOutElsewhere ==
  ASSUME Guarded, Guarded', Locking, LogOut
  PROVE  Keeping!Next
<1>1. Inv /\ Inv' /\ Traced
  BY DEF Guarded, Basis
<1>2. /\ live \in Logins /\ live' = NoLogin /\ usable' = usable
      /\ UNCHANGED <<vault, index, listed, sess, run>> /\ outside' = outside + 1
      /\ taken' = taken \cup (Ended(live) \ Backed(live))
  BY DEF LogOut, Outside, Revoked, process
<1>3. /\ usable \subseteq Logins /\ NoLogin \notin Logins /\ taken' \subseteq Accounts
  BY <1>1, NobodyNamed DEF Inv, DiskTrue, WorldOK
<1>4. PICK a \in Accounts : a = Account(live)
  BY <1>2 DEF Logins, Account
<1>5. {b \in Accounts : Kept(b)'} = {b \in Accounts : Kept(b)}
  BY <1>2 DEF Kept
<1>6. \A b \in Accounts : ~Renewing(b)'
  <2>1. sess # NoRenewal => sess.sent \in Logins
    BY <1>1 DEF Traced, SessionTraced
  <2> QED BY <1>2, <1>3, <2>1 DEF Renewing, SavesOver, NoRenewal
<1>7. Hand' \subseteq Hand /\ \A b \in Hand \ Hand' : Renewing(b)
  BY <1>2, <1>6 DEF Hand
<1>8. SignedIn' = Nobody /\ (SignedIn # Nobody => live \in usable /\ SignedIn = a)
  BY <1>2, <1>3, <1>4 DEF SignedIn
<1>9. \A b \in Ended(live) : b = SignedIn \/ b \in Hand
  BY DEF Ended, SignedIn, Hand
<1>10. \A b \in Accounts : b = SignedIn \/ Renewing(b) => b \in taken' \/ Kept(b)
  <2>1. \A b \in Accounts : b = SignedIn \/ Renewing(b) => b \in Ended(live)
    BY <1>2, <1>4, <1>8, NobodyAssumption, RenewsItsOwn DEF Ended
  <2>2. ASSUME NEW b \in Accounts, b \in Backed(live)
        PROVE  b \in taken \/ Kept(b)
    <3>1. StillParked(b)
      BY <2>2 DEF Backed, Guarded, Slot, SlotSafe
    <3> QED BY <3>1, StoredIsKept DEF StillParked, Guarded
  <2> QED BY <1>2, <2>1, <2>2
<1>11. \A b \in index.enrolled : b \in Accounts
  BY <1>1 DEF Inv, DiskTrue, IndexTrue, Indexes
<1>12. Keeping!Elsewhere
  <2>1. /\ SignedIn' \in {SignedIn, Nobody, a}
        /\ {b \in Accounts : Kept(b)'} \in {{b \in Accounts : Kept(b)}, {b \in Accounts : Kept(b)} \ {a}}
        /\ Hand' \in SUBSET Hand
        /\ taken' \in SUBSET Accounts
        /\ taken' \ taken \subseteq {a, SignedIn} \cup Hand /\ taken \ taken' \subseteq {SignedIn'}
    BY <1>2, <1>3, <1>5, <1>7, <1>8, <1>9
  <2>2. \A b \in index.enrolled : Keeping!Has(b) /\ ~Keeping!Has(b)' => b \in taken'
    BY <1>5, <1>7, <1>10, <1>11 DEF Keeping!Has
  <2> QED BY <1>2, <2>1, <2>2 DEF Keeping!Elsewhere
<1> QED BY <1>12 DEF Keeping!Next

\* The service takes a login no more.
LEMMA RefusesElsewhere ==
  ASSUME Guarded, Guarded', Locking, NEW l \in Logins, ServiceRefuses(l)
  PROVE  Keeping!Next
<1>1. Inv /\ Inv'
  BY DEF Guarded, Basis
<1>2. /\ l \in usable /\ usable' = usable \ {l}
      /\ UNCHANGED <<live, vault, index, listed, sess, run>> /\ outside' = outside + 1
      /\ taken' = taken \cup Ended(l)
  BY DEF ServiceRefuses, Outside, disk, process
<1>3. /\ usable \subseteq Logins /\ usable' \subseteq Logins /\ NoLogin \notin Logins
      /\ taken' \subseteq Accounts
  BY <1>1, NobodyNamed DEF Inv, DiskTrue, WorldOK
<1>4. PICK a \in Accounts : a = Account(l)
  BY DEF Logins, Account
<1>5. Ended(l) = {a}
  BY <1>2, <1>4 DEF Ended
<1>6. \A b \in Accounts : b # a => (Kept(b)' <=> Kept(b))
  BY <1>2, <1>4 DEF Kept
<1>7. Kept(a)' => Kept(a)
  BY <1>2 DEF Kept
<1>8. \A b \in Accounts : run.fresh[b] # NoLogin => Account(run.fresh[b]) = b
  BY <1>1 DEF Inv, RunTrue, Asked
<1>9. \A b \in Accounts : Renewing(b)' <=> (Renewing(b) /\ sess.fresh # l)
  BY <1>2 DEF Renewing, SavesOver
<1>10. Hand' \subseteq Hand /\ \A b \in Hand \ Hand' : b = a
  <2>1. \A b \in Accounts : b # a => (Renewing(b)' <=> Renewing(b))
    BY <1>4, <1>9 DEF Renewing
  <2>2. \A b \in Accounts : b # a => (run'.fresh[b] \in usable' <=> run.fresh[b] \in usable)
    BY <1>2, <1>3, <1>4, <1>8
  <2> QED BY <1>2, <1>9, <2>1, <2>2 DEF Hand
<1>11. SignedIn' \in {SignedIn, Nobody} /\ (SignedIn' # SignedIn => SignedIn = a)
  BY <1>2, <1>4 DEF SignedIn
<1>12. \A b \in index.enrolled : b \in Accounts
  BY <1>1 DEF Inv, DiskTrue, IndexTrue, Indexes
<1>13. Keeping!Elsewhere
  <2>1. {b \in Accounts : Kept(b)'} \in {{b \in Accounts : Kept(b)}, {b \in Accounts : Kept(b)} \ {a}}
    BY <1>6, <1>7
  <2>2. /\ SignedIn' \in {SignedIn, Nobody, a} /\ Hand' \in SUBSET Hand /\ taken' \in SUBSET Accounts
        /\ taken' \ taken \subseteq {a, SignedIn} \cup Hand /\ taken \ taken' \subseteq {SignedIn'}
    BY <1>2, <1>3, <1>5, <1>10, <1>11
  <2>3. \A b \in index.enrolled : Keeping!Has(b) /\ ~Keeping!Has(b)' => b \in taken'
    BY <1>2, <1>5, <1>6, <1>10, <1>11, <1>12 DEF Keeping!Has
  <2> QED BY <1>2, <2>1, <2>2, <2>3 DEF Keeping!Elsewhere
<1> QED BY <1>13 DEF Keeping!Next

\* A run asks for a login in exchange for the one parked.
LEMMA AskExchanges ==
  ASSUME Guarded, Guarded', Locking, NEW a \in Accounts, Ask(a)
  PROVE  Keeping!Next
<1>1. Inv /\ Inv' /\ Traced
  BY DEF Guarded, Basis
<1>2. UNCHANGED <<live, vault, index, listed, sess, taken, outside>>
  BY DEF Ask, disk, budgets
<1>4. CASE /\ Loads(a) /\ mem.parked[a].login \in usable
           /\ usable' = (usable \ {mem.parked[a].login}) \cup {Fresh(a)}
           /\ run' = [run EXCEPT !.due = @ \ {a}, !.fresh[a] = Fresh(a)]
  <2>1. PICK f : f = Fresh(a)
    OBVIOUS
  <2>2. PICK x : x = mem.parked[a].login
    OBVIOUS
  <2>3. /\ usable' = (usable \ {x}) \cup {f} /\ x \in usable
        /\ usable \subseteq Logins /\ usable' \subseteq Logins /\ NoLogin \notin Logins
    BY <1>1, <1>4, <2>1, <2>2, NobodyNamed DEF Inv, DiskTrue, WorldOK
  <2>4. \A b \in Accounts : run'.fresh[b] = IF b = a THEN f ELSE run.fresh[b]
    BY <1>1, <1>4, <2>1 DEF Inv, RunTrue, Runs
  <2>5. f \in Logins /\ Account(f) = a /\ f # live /\ f # sess.fresh /\ \A n \in Names : vault[n] # f
    <3>1. f \in Logins
      BY <2>3
    <3>2. f[2] = issued[a] + 1 /\ f[1] = a
      BY <2>1 DEF Fresh
    <3>3. issued[a] \in Nat
      BY <1>1 DEF Inv, DiskTrue, WorldOK
    <3>4. ~Known(f, issued)
      BY <3>1, <3>2, <3>3 DEF Known
    <3>5. \A n \in Names : Known(vault[n], issued)
      BY <1>1, NobodyNamed DEF Traced, Known
    <3>6. f # sess.fresh
      BY <1>1, <2>3, <3>1, <3>4 DEF Traced, SessionTraced, NoRenewal
    <3>7. f # live
      BY <1>1, <3>4 DEF Traced
    <3> QED BY <3>1, <3>2, <3>4, <3>5, <3>6, <3>7 DEF Account
  <2>6. Account(x) = a /\ a \in index.enrolled
    <3>1. mem.parked[a] # NoPark
      BY <1>4 DEF Loads
    <3> QED BY <1>1, <2>2, <3>1 DEF Inv, RunTrue, IndexTrue, ParkOK, Traced, IndexKnown
  <2>7. Keeping!Has(a) \/ a \in taken
    BY <2>6, GuardedWithin DEF Within, Keeping!Has
  <2>8. SignedIn' = SignedIn \/ (SignedIn = a /\ SignedIn' = Nobody)
    BY <1>2, <2>3, <2>5, <2>6 DEF SignedIn
  <2>9. \A b \in Accounts : b # a => (Kept(b)' <=> Kept(b))
    BY <1>2, <2>3, <2>5, <2>6 DEF Kept
  <2>10. Kept(a)' => Kept(a)
    BY <1>2, <2>3, <2>5 DEF Kept
  <2>11. {b \in Accounts : Kept(b)'} \in {{b \in Accounts : Kept(b)}, {b \in Accounts : Kept(b)} \ {a}}
    BY <2>9, <2>10
  <2>12. \A b \in Accounts : run.fresh[b] # NoLogin => Account(run.fresh[b]) = b
    BY <1>1 DEF Inv, RunTrue, Asked
  <2>13. \A b \in Accounts : b # a => (b \in Hand' <=> b \in Hand)
    <3>1. \A b \in Accounts : b # a => (Renewing(b)' <=> Renewing(b))
      BY <1>2, <2>3, <2>5, <2>6 DEF Renewing, SavesOver
    <3>2. \A b \in Accounts : b # a => (run'.fresh[b] \in usable' <=> run.fresh[b] \in usable)
      BY <2>3, <2>4, <2>5, <2>6, <2>12
    <3> QED BY <3>1, <3>2 DEF Hand
  <2>14. a \in Hand'
    BY <2>3, <2>4 DEF Hand
  <2>15. Hand' = Hand \cup {a}
    <3>1. Hand \subseteq Accounts /\ Hand' \subseteq Accounts
      BY DEF Hand
    <3> QED BY <2>13, <2>14, <3>1
  <2>16. Keeping!Exchange(a)
    BY <1>2, <2>7, <2>8, <2>11, <2>15 DEF Keeping!Exchange
  <2> QED BY <2>16 DEF Keeping!Next
<1>5. CASE run'.fresh = run.fresh /\ UNCHANGED usable
  BY <1>2, <1>5, LeavesIndex
<1> QED
  <2>1. \A r \in {[run EXCEPT !.due = @ \ {a}], [run EXCEPT !.due = @ \ {a}, !.refused = @ \cup {a}]} :
          r.fresh = run.fresh
    BY <1>1 DEF Inv, RunTrue, Runs
  <2> QED BY <1>4, <1>5, <2>1 DEF Ask

-----------------------------------------------------------------------------
(* What a run writes in the vault and in the slot. *)

\* A login stored under a name nothing is under is one Pitboard finds, or as good as
\* nothing.
LEMMA StoresKeeping ==
  ASSUME Guarded, Guarded', UNCHANGED <<live, index, listed, usable, sess, taken, outside>>,
         NEW n \in Names, NEW x \in Logins, vault' = [vault EXCEPT ![n] = x], Account(x) = n[1],
         n \in listed, n \notin index.discarded,
         run'.fresh = run.fresh, n[1] \in Accounts,
         x \in usable => n[1] = SignedIn \/ n[1] \in Hand \/ n[1] \in taken
  PROVE  Keeping!Next
<1>1. /\ vault \in [Names -> Logins \cup {NoLogin}] /\ NoLogin \notin usable
      /\ \A m \in Names : vault[m] # NoLogin => Account(vault[m]) = m[1]
  BY NobodyNamed DEF Guarded, Basis, Inv, DiskTrue, VaultTrue, WorldOK
<1>2. PICK a \in Accounts : a = n[1]
  OBVIOUS
<1>3. /\ vault'[n] = x /\ \A m \in Names : m # n => vault'[m] = vault[m]
  BY <1>1
<1>4. CASE x \in usable
  <2>1. Kept(a)'
    BY <1>2, <1>3, <1>4 DEF Kept
  <2>2. \A b \in Accounts : b # a => (Kept(b)' <=> Kept(b))
    BY <1>1, <1>2, <1>3 DEF Kept
  <2>3. {b \in Accounts : Kept(b)'} = {b \in Accounts : Kept(b)} \cup {a}
    BY <2>1, <2>2
  <2>4. /\ SignedIn' = SignedIn /\ Hand' = Hand /\ index'.enrolled = index.enrolled
        /\ taken' = taken /\ outside' = outside
    BY DEF SignedIn, Hand, Renewing, SavesOver
  <2>5. Keeping!Keep(a)
    BY <1>2, <1>4, <2>3, <2>4 DEF Keeping!Keep
  <2> QED BY <2>5 DEF Keeping!Next
<1>5. CASE x \notin usable
  BY <1>3, <1>5, LeavesIndex
<1> QED BY <1>4, <1>5

\* The answer of a renewal is written.
LEMMA RenewStoreKeeping ==
  ASSUME Guarded, Guarded', RenewStore
  PROVE  Keeping!Next
<1>1. /\ Inv /\ StagedNames /\ pc = "renewStore" /\ Found /\ Traced
  BY DEF Guarded, Basis, Staged, RenewStore
<1>2. /\ UNCHANGED <<live, index, listed, usable, sess, taken, outside>>
      /\ vault' = vault \/ vault' = [vault EXCEPT ![run.park] = run.fresh[run.who]]
      /\ run' \in {run, [run EXCEPT !.second = TRUE]}
  BY DEF RenewStore, TriesAgain, service
<1>3. run'.fresh = run.fresh
  BY <1>1, <1>2 DEF Inv, RunTrue, Runs
<1>4. CASE vault' = vault
  BY <1>2, <1>3, <1>4, LeavesIndex
<1>5. CASE vault' = [vault EXCEPT ![run.park] = run.fresh[run.who]]
  <2>1. /\ run.who \in Accounts /\ run.fresh[run.who] \in Logins
        /\ Account(run.fresh[run.who]) = run.who
        /\ run.park \in Names /\ run.park[1] = run.who
        /\ run.park \in listed /\ run.park \notin index.discarded
    BY <1>1 DEF Inv, RunTrue, Asked, Asking, Reserved, Runs, StagedNames
  <2>2. run.fresh[run.who] \in usable => run.who \in Hand
    BY <2>1 DEF Hand
  <2> QED BY <1>2, <1>3, <1>5, <2>1, <2>2, StoresKeeping
<1> QED BY <1>2, <1>4, <1>5

\* The login going out is written: it is the one signed in, or somebody else ended it.
LEMMA ParkStoreKeeping ==
  ASSUME Guarded, Guarded', Reliable, ParkStore
  PROVE  Keeping!Next
<1>1. /\ Inv /\ StagedNames /\ pc = "parkStore" /\ pc \in Writing /\ Found /\ SlotHolds
  BY DEF Guarded, Basis, Staged, Slot, ParkStore, Writing
<1>2. /\ UNCHANGED <<live, index, listed, usable, sess, run, taken, outside>>
      /\ vault' = vault \/ vault' = [vault EXCEPT ![run.park] = run.before]
  BY DEF ParkStore, service
<1>3. CASE vault' = vault
  BY <1>2, <1>3, LeavesIndex
<1>4. CASE vault' = [vault EXCEPT ![run.park] = run.before]
  <2>1. /\ run.going = "out" /\ run.before \in Logins /\ Account(run.before) = run.out
        /\ run.park \in Names /\ run.park[1] = run.out /\ run.park \in listed
    BY <1>1 DEF Inv, RunTrue, Reserved, Found
  <2>2. run.park \notin index.discarded
    BY <1>1, <2>1 DEF StagedNames
  <2>3. run.out \in Accounts
    BY <2>1 DEF Logins, Account
  <2>4. run.before \in usable => run.out = SignedIn \/ run.out \in taken
    BY <1>1, <2>1 DEF SlotHolds, SignedIn
  <2> QED BY <1>2, <1>4, <2>1, <2>2, <2>3, <2>4, StoresKeeping
<1> QED BY <1>2, <1>3, <1>4

\* What the write to the slot may leave there: the login going in, which is parked,
\* what was there, which is parked, or nothing.
LEMMA WritesKeeping ==
  ASSUME Guarded, Reliable, pc = "install",
         live' \in {live, run.inc.login, run.before, NoLogin, Torn},
         UNCHANGED <<vault, index, listed, usable, sess, taken, outside>>,
         \A a \in Accounts : run'.fresh[a] \in {run.fresh[a], NoLogin}
  PROVE  [Keeping!Next]_(Keeping!vars)
<1>0. pc \in Changing \ {"prove"}
  BY DEF Changing
<1>1. /\ Inv /\ \A a \in Accounts : run.fresh[a] = NoLogin
      /\ run.to \in Accounts /\ run.to \in index.enrolled /\ Account(run.inc.login) = run.to
      /\ run.going = "out" => run.out \in Accounts
  BY <1>0, ChangeKnows
<1>2. /\ live \in {run.before, NoLogin} /\ sess = NoRenewal
      /\ \A a \in Accounts : Signed(a) => run.going = "out" /\ a = run.out
      /\ run.going = "out" =>
            run.out \in taken \/ Stored(index, mem, run.out, NoLogin, listed, vault, usable)
      /\ run.before \in Logins => Account(run.before) \in taken \/ (live = run.before /\ live \in usable)
  BY BeforeInstall
<1>3. NoLogin \notin usable /\ Torn \notin usable /\ usable \subseteq Logins
  BY <1>1, NobodyNamed DEF Inv, DiskTrue, WorldOK
<1>4. Hand = {} /\ Hand' = {}
  <2>1. \A a \in Accounts : ~Renewing(a) /\ ~Renewing(a)'
    BY <1>2, <1>3 DEF Renewing, NoRenewal
  <2>2. \A a \in Accounts : run'.fresh[a] = NoLogin
    BY <1>1
  <2> QED BY <1>1, <1>3, <2>1, <2>2 DEF Hand
<1>5. {b \in Accounts : Kept(b)'} = {b \in Accounts : Kept(b)}
  BY DEF Kept
<1>6. index'.enrolled = index.enrolled /\ taken' = taken /\ outside' = outside
  OBVIOUS
<1>7. SignedIn \in {b \in Accounts : Kept(b)} \cup taken \cup {Nobody}
  <2> SUFFICES ASSUME live \in usable PROVE Kept(Account(live)) \/ Account(live) \in taken
    BY <1>3 DEF SignedIn, Logins, Account
  <2>1. PICK a \in Accounts : a = Account(live)
    BY <1>3 DEF Logins, Account
  <2>2. Signed(a)
    BY <2>1 DEF Signed
  <2>3. a = run.out /\ (a \in taken \/ Stored(index, mem, a, NoLogin, listed, vault, usable))
    BY <1>2, <2>2
  <2> QED BY <2>1, <2>3, StoredIsKept DEF Guarded
<1>8. CASE SignedIn' = SignedIn
  BY <1>4, <1>5, <1>6, <1>8 DEF Keeping!vars
<1>9. CASE SignedIn' = Nobody /\ SignedIn # Nobody
  <2>1. Keeping!Empty
    BY <1>4, <1>5, <1>6, <1>7, <1>9 DEF Keeping!Empty
  <2> QED BY <2>1 DEF Keeping!Next
<1>10. CASE SignedIn' # SignedIn /\ SignedIn' # Nobody
  <2>1. live' \in usable /\ SignedIn' = Account(live')
    BY <1>10 DEF SignedIn
  <2>2. CASE live' = run.inc.login
    <3>1. SignedIn' = run.to /\ run.to # SignedIn
      BY <1>1, <1>10, <2>1, <2>2
    <3>2. Kept(run.to) \/ run.to \in taken
      BY <1>1, <1>4, <3>1, GuardedWithin DEF Within
    <3>3. run.to \in {b \in Accounts : Kept(b)} \cup taken
      BY <1>1, <3>2
    <3>4. Keeping!PutIn(run.to)
      BY <1>4, <1>5, <1>6, <1>7, <3>1, <3>3 DEF Keeping!PutIn
    <3> QED BY <1>1, <3>4 DEF Keeping!Next
  <2>3. CASE live' = run.before
    <3>1. run.before \in Logins /\ live' # live
      BY <1>3, <1>10, <2>1, <2>3 DEF SignedIn
    <3>2. Account(run.before) \in taken /\ Account(run.before) \in Accounts
      BY <1>2, <2>3, <3>1 DEF Logins, Account
    <3>3. PICK a \in Accounts : a = Account(run.before) /\ a \in taken
      BY <3>2
    <3>4. SignedIn' = a
      BY <2>1, <2>3, <3>3
    <3>5. Keeping!PutIn(a)
      BY <1>4, <1>5, <1>6, <1>7, <3>3, <3>4 DEF Keeping!PutIn
    <3> QED BY <3>5 DEF Keeping!Next
  <2>4. CASE live' \in {live, NoLogin, Torn}
    BY <1>3, <1>10, <2>1, <2>4 DEF SignedIn
  <2> QED BY <2>2, <2>3, <2>4
<1> QED BY <1>8, <1>9, <1>10

\* The write, however it ends.
LEMMA InstallKeeping ==
  ASSUME Guarded, Reliable, Install \/ RolledBack \/ Unverified \/ Corrupted
  PROVE  [Keeping!Next]_(Keeping!vars)
<1>1. pc = "install" /\ \E after : Installs(after)
  BY DEF Install, RolledBack, Unverified, Corrupted
<1>2. taken' = taken
  BY <1>1, InstallTakes
<1>3. /\ live' \in {live, run.inc.login, run.before, NoLogin, Torn}
      /\ UNCHANGED <<vault, index, listed, usable, sess, outside>> /\ run' \in {run, NoRun}
  BY DEF Install, RolledBack, Unverified, Corrupted, Installs, CutShort, Goes, Ends, service
<1>4. \A a \in Accounts : run'.fresh[a] \in {run.fresh[a], NoLogin}
  BY <1>3 DEF NoRun
<1> QED BY <1>1, <1>2, <1>3, <1>4, WritesKeeping

\* A run that dies: what it was answered and had not saved is lost with it.
LEMMA CrashKeeping ==
  ASSUME Guarded, Guarded', Reliable, Crash
  PROVE  [Keeping!Next]_(Keeping!vars)
<1>1. /\ UNCHANGED <<vault, index, listed, usable, sess, outside>> /\ run' = NoRun
      /\ taken' = taken \cup {a \in Accounts : run.fresh[a] # NoLogin /\ ~Held(a)'}
      /\ live' = live \/ (pc = "install" /\ live' = Torn)
  BY DEF Crash, Ends, service
<1>2. \A a \in Accounts : run'.fresh[a] = NoLogin
  BY <1>1 DEF NoRun
<1>3. CASE live' = live
  <2>1. \A a \in Accounts : ~Held(a)' => ~Kept(a)
    BY <1>1 DEF Held, Kept
  <2> QED BY <1>1, <1>2, <1>3, <2>1, SetsDown
<1>4. CASE pc = "install" /\ live' = Torn
  <2>1. \A a \in Accounts : run.fresh[a] = NoLogin
    BY <1>4, NoAnswers DEF Guarded, Basis, Asking
  <2>2. taken' = taken
    BY <1>1, <2>1
  <2> QED BY <1>1, <1>2, <1>4, <2>2, WritesKeeping
<1> QED BY <1>1, <1>3, <1>4

\* A slot left half written is written whole, from the login going in.
LEMMA TornKeeping ==
  ASSUME Guarded, Reliable, ReconcileTorn
  PROVE  [Keeping!Next]_(Keeping!vars)
<1>1. /\ Inv /\ Locked /\ SlotHolds /\ pc = "reconcile" /\ journal # NoJournal /\ live = Torn
      /\ toolLock # "session" /\ live' = vault[journal.incoming]
      /\ UNCHANGED <<vault, index, listed, usable, sess, run, taken, outside>>
  BY DEF Guarded, Basis, Slot, ReconcileTorn, service, budgets
<1>2. /\ NoLogin \notin usable /\ Torn \notin usable
      /\ sess = NoRenewal /\ \A a \in Accounts : run.fresh[a] = NoLogin
  BY <1>1, NobodyNamed, NoAnswers DEF Inv, DiskTrue, WorldOK, Locked, Reliable, Asking
<1>3. Hand = {} /\ Hand' = {}
  <2>1. \A a \in Accounts : ~Renewing(a) /\ ~Renewing(a)'
    BY <1>1, <1>2 DEF Renewing, NoRenewal
  <2> QED BY <1>1, <1>2, <2>1 DEF Hand
<1>4. {b \in Accounts : Kept(b)'} = {b \in Accounts : Kept(b)}
  BY <1>1 DEF Kept
<1>5. index'.enrolled = index.enrolled /\ taken' = taken /\ outside' = outside
  BY <1>1
<1>6. SignedIn = Nobody
  BY <1>1, <1>2 DEF SignedIn
<1>7. CASE live' \in usable
  <2>1. PICK a \in Accounts : a = journal.to
    BY <1>1 DEF Inv, DiskTrue, JournalTrue
  <2>2. a \in index.enrolled
    BY <1>1, <2>1 DEF SlotHolds
  <2>3. Account(vault[journal.incoming]) = a
    <3>1. journal.incoming \in Names /\ journal.incoming[1] = a
      BY <1>1, <2>1 DEF Guarded, Traced, JournalTraced, Inv, DiskTrue, JournalTrue
    <3> QED BY <1>1, <1>2, <1>7, <3>1 DEF Inv, DiskTrue, VaultTrue
  <2>4. SignedIn' = a
    BY <1>1, <1>7, <2>3 DEF SignedIn
  <2>5. a # Nobody
    BY NobodyAssumption
  <2>6. a \in {b \in Accounts : Kept(b)} \cup taken
    BY <1>3, <1>6, <2>2, <2>5, GuardedWithin DEF Within
  <2>7. Keeping!PutIn(a)
    BY <1>3, <1>4, <1>5, <1>6, <2>4, <2>6 DEF Keeping!PutIn
  <2> QED BY <2>7 DEF Keeping!Next
<1>8. CASE live' \notin usable
  BY <1>1, <1>3, <1>4, <1>5, <1>6, <1>8 DEF SignedIn, Keeping!vars
<1> QED BY <1>7, <1>8

-----------------------------------------------------------------------------
(* What a run saves. *)

\* An index that keeps the accounts of another, and everything it has let go of.
Grows(ix, iy) == iy \in Indexes /\ iy.enrolled = ix.enrolled /\ ix.discarded \subseteq iy.discarded

\* So does one with an item more let go of.
LEMMA DiscardGrows ==
  ASSUME NEW ix \in Indexes, NEW n \in Names
  PROVE  Grows(ix, Discard(ix, n))
BY DEF Grows, Indexes, Discard, LetGo

\* Or with one recorded in another's place.
LEMMA ParkForGrows ==
  ASSUME NEW ix \in Indexes, NEW a \in Accounts, NEW p \in Parks
  PROVE  Grows(ix, ParkFor(ix, a, p))
<1> DEFINE with == [ix EXCEPT !.parked[a] = p]
<1> DEFINE old == ix.parked[a].name
<1>1. with \in Indexes /\ with.enrolled = ix.enrolled /\ with.discarded = ix.discarded
  BY DEF Indexes
<1>2. old \in Names \cup {NoName}
  BY DEF Indexes, Parks, NoPark
<1>3. ParkFor(ix, a, p) \in {ix, with} \/ (old \in Names /\ ParkFor(ix, a, p) = Discard(with, old))
  BY <1>2 DEF ParkFor
<1> HIDE DEF with, old
<1>4. old \in Names => Grows(with, Discard(with, old))
  BY <1>1, DiscardGrows
<1> QED BY <1>1, <1>3, <1>4 DEF Grows

\* Or with some let go of at once.
LEMMA DiscardAllGrows ==
  ASSUME NEW ix \in Indexes, NEW ns \in SUBSET Names
  PROVE  Grows(ix, DiscardAll(ix, ns))
BY DEF Grows, Indexes, DiscardAll

\* Finishing or undoing what a journal tells of is one.
LEMMA RepairedGrows ==
  ASSUME NEW ix \in Indexes, NEW l \in Logins \cup {NoLogin}, NEW owner, VaultTrue,
         JournalTrue(journal, clock), journal # NoJournal
  PROVE  Grows(ix, Repaired(ix, journal, owner, l))
<1> DEFINE parked == IF Replaces(journal) THEN NoLogin ELSE vault[journal.park]
<1> DEFINE offered == [name |-> journal.park, login |-> parked]
<1> DEFINE first == IF parked = NoLogin THEN ix
                    ELSE IF owner = journal.from THEN Discard(ix, journal.park)
                    ELSE IF References(ix, journal.park) THEN ix
                    ELSE IF journal.from \in ix.enrolled
                         THEN ParkFor(ix, journal.from, offered)
                    ELSE Discard(ix, journal.park)
<1> DEFINE second == [first EXCEPT !.inUse = [owner |-> journal.to, login |-> l]]
<1> DEFINE third == [first EXCEPT !.inUse = [owner |-> Nobody, login |-> NoLogin]]
<1>1. Repaired(ix, journal, owner, l) =
        IF owner # journal.to THEN first
        ELSE IF journal.to \in ix.enrolled THEN Discard(second, journal.incoming)
        ELSE third
  BY DEF Repaired
<1>2. journal.to \in Accounts /\ journal.incoming \in Names
  BY DEF JournalTrue
<1>3. Grows(ix, first)
  <2>1. CASE parked = NoLogin
    BY <2>1 DEF Grows
  <2>2. CASE parked # NoLogin
    <3>1. journal.park \in Names /\ parked \in Logins
      BY <2>2 DEF JournalTrue, Journals, Replaces, VaultTrue
    <3>2. journal.from \in ix.enrolled => journal.from \in Accounts
      BY DEF Indexes
    <3>3. offered \in Parks
      BY <3>1 DEF Parks
    <3> HIDE DEF offered, parked
    <3>4. Grows(ix, Discard(ix, journal.park)) /\ Grows(ix, ix)
      BY <3>1, DiscardGrows DEF Grows
    <3>5. journal.from \in ix.enrolled => Grows(ix, ParkFor(ix, journal.from, offered))
      BY <3>2, <3>3, ParkForGrows
    <3> QED BY <3>4, <3>5
  <2> QED BY <2>1, <2>2
<1> HIDE DEF first
<1>4. Grows(ix, second) /\ Grows(ix, third) /\ second \in Indexes
  BY <1>2, <1>3 DEF Grows, Indexes
<1> HIDE DEF second, third
<1>5. Grows(second, Discard(second, journal.incoming))
  BY <1>2, <1>4, DiscardGrows
<1>6. Grows(ix, Discard(second, journal.incoming))
  BY <1>4, <1>5 DEF Grows
<1> QED BY <1>1, <1>3, <1>4, <1>6

\* So is giving one up.
LEMMA GivenUpGrows ==
  ASSUME NEW ix \in Indexes, VaultTrue, JournalTrue(journal, clock), journal # NoJournal, Locking,
         NEW parked \in {NoLogin, IF Replaces(journal) THEN NoLogin ELSE vault[journal.park]},
         NEW incoming, NEW slot
  PROVE  Grows(ix, GivenUp(ix, journal, parked, incoming, slot))
<1> DEFINE offered == [name |-> journal.park, login |-> parked]
<1>1. GivenUp(ix, journal, parked, incoming, slot) =
        IF parked # NoLogin THEN ParkFor(ix, journal.from, offered) ELSE ix
  BY DEF GivenUp, LiveTwin
<1>2. CASE parked = NoLogin
  BY <1>1, <1>2 DEF Grows
<1>3. CASE parked # NoLogin
  <2>1. journal.park \in Names /\ parked \in Logins /\ journal.from = journal.park[1]
    BY <1>3 DEF JournalTrue, Journals, Replaces, VaultTrue
  <2>2. journal.from \in Accounts /\ offered \in Parks
    BY <2>1 DEF Names, Parks
  <2> HIDE DEF offered
  <2> QED BY <1>1, <1>3, <2>2, ParkForGrows
<1> QED BY <1>2, <1>3

\* A step that saves such an index, or does not, is one Custody allows.
LEMMA SavesGrown ==
  ASSUME Guarded, Guarded', UNCHANGED <<live, usable, sess, taken, outside, vault>>,
         NEW iy, index' \in {index, iy}, Grows(mem, iy),
         \A a \in Accounts : run'.fresh[a] \in {run.fresh[a], NoLogin}
  PROVE  Keeping!Next
BY SavesIndex DEF Grows

\* A step that changes neither what is stored nor what is recorded.
Idles ==
  /\ UNCHANGED <<live, vault, index, usable, sess, taken, outside>>
  /\ run'.fresh = run.fresh \/ run' = NoRun

\* Custody says nothing of it.
LEMMA IdlesKeeping ==
  ASSUME Guarded, Guarded', Idles
  PROVE  Keeping!Next
<1>1. \A a \in Accounts : run'.fresh[a] \in {run.fresh[a], NoLogin}
  BY DEF Idles, NoRun
<1> QED BY <1>1, LeavesIndex DEF Idles

\* An early return is such a step.
LEMMA RefusesIdles ==
  ASSUME Refuses \/ \E op \in Operations : Breaks(op)
  PROVE  Idles
BY DEF Refuses, Breaks, Ends, Idles, disk, service, budgets

\* Settling: what it reads and lists.
LEMMA SettleIdles ==
  ASSUME Inv, \/ ReconcileNothing \/ ReconcileRead \/ Undetermined \/ ClearRepaired
              \/ SweepList \/ FindTwins \/ NothingDue \/ \E n \in Names : Sweep(n)
  PROVE  Idles
<1>1. CASE Refuses \/ \E op \in Operations : Breaks(op)
  BY <1>1, RefusesIdles
<1>2. CASE ~Refuses /\ \A op \in Operations : ~Breaks(op)
  <2>1. CASE ReconcileNothing \/ ReconcileRead \/ Undetermined
    BY <1>2, <2>1 DEF ReconcileNothing, ReconcileRead, Undetermined, ToSweep, Idles, Inv, RunTrue, Runs,
                      Operations, disk, service, budgets
  <2>2. CASE ClearRepaired \/ SweepList
    BY <1>2, <2>2 DEF ClearRepaired, SweepList, ToSweep, Idles, Inv, RunTrue, Runs, Operations, service
  <2>3. CASE FindTwins \/ NothingDue
    BY <2>3 DEF FindTwins, NothingDue, Idles, Inv, RunTrue, Runs, disk, service, budgets
  <2>4. ASSUME NEW n \in Names, Sweep(n) PROVE Idles
    BY <2>4 DEF Sweep, Idles, Inv, RunTrue, Runs, disk, service
  <2> QED BY <2>1, <2>2, <2>3, <2>4
<1> QED BY <1>1, <1>2

\* Settling: what it saves and deletes.
LEMMA SettleKeeping ==
  ASSUME Guarded, Guarded', Reliable, Settle
  PROVE  [Keeping!Next]_(Keeping!vars)
<1>0. /\ Inv /\ Traced /\ mem \in Indexes
  BY DEF Guarded, Basis, Inv, RunTrue, IndexTrue
<1>1. CASE ReconcileTorn
  BY <1>1, TornKeeping
<1>2. CASE Repair
  <2>1. CASE Breaks("save")
    BY <2>1, RefusesIdles, IdlesKeeping DEF Operations
  <2>2. CASE ~Breaks("save")
    <3>1. /\ index' = Repaired(mem, journal, OwnerOf(journal, run.seen), run.seen)
          /\ UNCHANGED <<live, usable, sess, taken, outside, vault, run>>
      BY <1>2, <2>2 DEF Repair, Saves, service
    <3>2. /\ VaultTrue /\ JournalTrue(journal, clock) /\ journal # NoJournal
          /\ run.seen \in Logins \cup {NoLogin}
      BY <1>0, <1>2 DEF Repair, Inv, DiskTrue, RunTrue, Settling, Runs
    <3>3. Grows(mem, Repaired(mem, journal, OwnerOf(journal, run.seen), run.seen))
      BY <1>0, <3>2, RepairedGrows
    <3> QED BY <3>1, <3>3, SavesGrown
  <2> QED BY <2>1, <2>2
<1>3. CASE SweepSave
  <2>1. CASE Breaks("save")
    BY <2>1, RefusesIdles, IdlesKeeping DEF Operations
  <2>2. CASE ~Breaks("save")
    <3>1. index' = mem /\ UNCHANGED <<live, usable, sess, taken, outside, vault, run>>
      BY <1>3, <2>2 DEF SweepSave, Saves, service
    <3> QED BY <1>0, <3>1, SavesGrown DEF Grows
  <2> QED BY <2>1, <2>2
<1>4. CASE DropTwins
  <2>1. CASE Breaks("save")
    BY <2>1, RefusesIdles, IdlesKeeping DEF Operations
  <2>2. CASE ~Breaks("save")
    <3>1. /\ index' \in {index, DiscardAll(mem, Twins(mem, run.seen))}
          /\ UNCHANGED <<live, usable, sess, taken, outside, vault>>
          /\ run'.fresh = run.fresh
      BY <1>0, <1>4, <2>2 DEF DropTwins, Saves, SaveFails, service, Inv, RunTrue, Runs
    <3>2. Twins(mem, run.seen) \in SUBSET Names
      BY DEF Twins
    <3>3. Grows(mem, DiscardAll(mem, Twins(mem, run.seen)))
      BY <1>0, <3>2, DiscardAllGrows
    <3> QED BY <3>1, <3>3, SavesGrown
  <2> QED BY <2>1, <2>2
<1>5. CASE Purge
  <2>1. /\ UNCHANGED <<live, index, usable, sess, taken, outside>>
        /\ \A n \in Names : vault'[n] \in {vault[n], NoLogin}
    BY <1>5 DEF Purge, service
  <2>2. run'.fresh = run.fresh \/ run' = NoRun
    BY <1>0, <1>5 DEF Purge, AfterPurge, Goes, Ends, Inv, RunTrue, Runs
  <2>3. \A a \in Accounts : run'.fresh[a] \in {run.fresh[a], NoLogin}
    BY <2>2 DEF NoRun
  <2> QED BY <2>1, <2>3, LeavesIndex
<1>6. CASE PurgeSave
  <2>1. index' \in {index, mem} /\ UNCHANGED <<live, usable, sess, taken, outside, vault>>
    BY <1>6 DEF PurgeSave, SaveFails, service
  <2>2. run'.fresh = run.fresh \/ run' = NoRun
    BY <1>0, <1>6 DEF PurgeSave, AfterPurge, Goes, Ends, Inv, RunTrue, Runs
  <2>3. \A a \in Accounts : run'.fresh[a] \in {run.fresh[a], NoLogin}
    BY <2>2 DEF NoRun
  <2> QED BY <1>0, <2>1, <2>3, SavesGrown DEF Grows
<1>7. CASE ~(ReconcileTorn \/ Repair \/ SweepSave \/ DropTwins \/ Purge \/ PurgeSave)
  <2>1. Idles
    BY <1>0, <1>7, SettleIdles DEF Settle
  <2> QED BY <2>1, IdlesKeeping
<1> QED BY <1>1, <1>2, <1>3, <1>4, <1>5, <1>6, <1>7

\* Renewing: what it asks, reserves and puts off.
LEMMA RenewIdles ==
  ASSUME Inv, NoMoreAnswers \/ RenewReserve \/ \E a \in Accounts : WriteFresh(a)
  PROVE  Idles
<1>1. CASE Refuses
  BY <1>1, RefusesIdles
<1>2. CASE NoMoreAnswers /\ ~Refuses
  BY <1>2 DEF NoMoreAnswers, Idles, Inv, RunTrue, Runs, disk, service, budgets
<1>3. CASE RenewReserve
  BY <1>3 DEF RenewReserve, Reserves, TriesAgain, Idles, Inv, RunTrue, Runs, disk, service
<1>4. ASSUME NEW a \in Accounts, WriteFresh(a) PROVE Idles
  BY <1>4 DEF WriteFresh, Idles, Inv, RunTrue, Runs, disk, service, budgets
<1> QED BY <1>1, <1>2, <1>3, <1>4

\* A login nobody could write down is lost with the run that was told it, unless its
\* account is found to have another.
LEMMA RenewLostKeeping ==
  ASSUME Guarded, Guarded', RenewLost
  PROVE  Keeping!Next
<1>1. /\ Inv /\ Traced /\ Secure /\ Answers /\ pc = "renewLost" /\ mem \in Indexes
      /\ IndexTrue(mem, vault, clock) /\ IndexTrue(index, vault, clock)
  BY DEF Guarded, Basis, Inv, DiskTrue, RunTrue, IndexTrue, RenewLost
<1>2. PICK a \in Accounts : a = run.who
  BY <1>1 DEF Inv, RunTrue, Asked, Asking
<1>3. PICK f : f = run.fresh[a]
  OBVIOUS
<1>4. PICK old \in Names : old = mem.parked[a].name
  BY <1>1, <1>2 DEF Inv, RunTrue, Asked, Asking, IndexTrue, ParkOK, Parks
<1>5. PICK iy : iy = Discard(mem, old)
  OBVIOUS
<1>6. /\ UNCHANGED <<live, vault, usable, sess, listed, outside>> /\ index' \in {index, iy}
      /\ taken' = taken \cup Lost(a)
      /\ run' \in {NoRun, [run EXCEPT !.fresh[run.who] = NoLogin]}
  BY <1>2, <1>4, <1>5 DEF RenewLost, SaveFails, Ends, service
<1>7. f # NoLogin /\ f \in Logins /\ Account(f) = a /\ mem.parked[a] # NoPark
  BY <1>1, <1>2, <1>3, NobodyNamed DEF Inv, RunTrue, Asked, Asking, Runs
<1>8. /\ \A b \in Accounts : run'.fresh[b] \in {run.fresh[b], NoLogin}
      /\ run'.fresh[a] = NoLogin
  BY <1>1, <1>2, <1>6 DEF Inv, RunTrue, Runs, NoRun
<1>9. Grows(mem, iy) /\ iy.discarded = mem.discarded \cup {old}
  BY <1>1, <1>5, DiscardGrows DEF Discard, LetGo, Indexes
<1>10. /\ index'.enrolled = index.enrolled
       /\ \A n \in Names : n \in index.discarded /\ vault[n] # NoLogin => n \in index'.discarded
  BY <1>1, <1>6, <1>9 DEF Traced, Grows
<1>11. ASSUME ~Safe(a), Kept(a) PROVE Kept(a)'
  <2>1. Newest(index, a, f, listed, vault, usable)
    BY <1>1, <1>3, <1>7, <1>11 DEF Secure, Stored, Firm
  <2>2. PICK n \in Names : /\ vault[n] \in usable /\ Account(vault[n]) = a /\ n \notin index.discarded
                           /\ n = index.parked[a].name \/ n \in listed
    BY <1>11 DEF Kept
  <2>3. vault[n] \in Logins /\ n[1] = a
    BY <1>1, <2>2, NobodyNamed DEF Inv, DiskTrue, VaultTrue, WorldOK
  <2>4. PICK p : p = [name |-> n, login |-> vault[n]]
    OBVIOUS
  <2>5. p \in Parks /\ p.name = n /\ p.login = vault[n]
    BY <2>3, <2>4 DEF Parks
  <2>6. n = index.parked[a].name => index.parked[a] = p
    <3> SUFFICES ASSUME n = index.parked[a].name PROVE index.parked[a] = p
      OBVIOUS
    <3>1. index.parked[a] # NoPark
      BY NobodyNamed DEF NoPark
    <3>2. ParkOK(a, index.parked[a], vault, clock)
      BY <1>1, <3>1 DEF IndexTrue
    <3> QED BY <2>3, <2>4, <3>2, NobodyNamed DEF ParkOK, Parks
  <2>7. p \in Offers(index, a, listed, vault)
    BY <2>2, <2>3, <2>5, <2>6 DEF Offers
  <2>8. vault[n] = f
    BY <2>1, <2>2, <2>5, <2>7 DEF Newest
  <2>9. n \in listed /\ n \notin mem.discarded /\ n # old
    <3>1. mem.parked[a].login # f /\ n \in listed /\ n \notin mem.discarded
      BY <1>1, <1>3, <1>7, <2>8 DEF Answers
    <3>2. vault[old] \in {mem.parked[a].login, NoLogin}
      BY <1>1, <1>4, <1>7 DEF IndexTrue, ParkOK
    <3> QED BY <1>7, <2>8, <3>1, <3>2
  <2>10. n \notin index'.discarded
    BY <1>6, <1>9, <2>2, <2>9
  <2> QED BY <1>6, <2>2, <2>9, <2>10 DEF Kept
<1>12. \A b \in taken' \ taken : b = a /\ ~Held(a)' /\ b \notin taken
  BY <1>6 DEF Lost
<1>13. ASSUME NEW b \in taken' \ taken PROVE ~Kept(b)
  <2>1. b = a /\ ~Held(a)' /\ a \notin taken
    BY <1>12
  <2>2. ~Kept(a)' /\ ~Signed(a)' /\ ~Renewing(a)'
    BY <2>1 DEF Held
  <2>3. ~Signed(a) /\ ~Renewing(a)
    BY <1>6, <2>2 DEF Signed, Renewing, SavesOver
  <2>4. a \in index.enrolled
    BY <1>1, <1>7 DEF Traced, IndexKnown
  <2> QED BY <1>11, <2>1, <2>2, <2>3, <2>4 DEF Safe
<1>14. \A b \in taken' \ taken : /\ run.fresh[b] # NoLogin /\ run'.fresh[b] = NoLogin
                                 /\ ~Held(b)' /\ ~Kept(b)
  BY <1>3, <1>7, <1>8, <1>12, <1>13
<1> QED BY <1>6, <1>8, <1>10, <1>14, SetsDown

\* Renewing parked logins.
LEMMA RenewKeeping ==
  ASSUME Guarded, Guarded', Reliable, Renew
  PROVE  [Keeping!Next]_(Keeping!vars)
<1>0. /\ Inv /\ Traced /\ mem \in Indexes /\ Locking
  BY DEF Guarded, Basis, Inv, RunTrue, IndexTrue, Reliable
<1>1. ASSUME NEW a \in Accounts, Ask(a) PROVE Keeping!Next
  BY <1>0, <1>1, AskExchanges
<1>2. ASSUME NEW a \in Accounts, DropRefused(a) PROVE Keeping!Next
  <2>1. mem.parked[a].name \in Names
    BY <1>0, <1>2 DEF DropRefused, Answered, Inv, RunTrue, Asked, Asking, Indexes, Parks
  <2>2. Grows(mem, Discard(mem, mem.parked[a].name))
    BY <1>0, <2>1, DiscardGrows
  <2>3. /\ index' \in {index, Discard(mem, mem.parked[a].name)}
        /\ UNCHANGED <<live, usable, sess, taken, outside, vault>>
        /\ run' \in {NoRun, [run EXCEPT !.refused = @ \ {a}]}
    BY <1>2 DEF DropRefused, Saves, SaveFails, Ends, service
  <2>4. \A b \in Accounts : run'.fresh[b] \in {run.fresh[b], NoLogin}
    BY <1>0, <2>3 DEF Inv, RunTrue, Runs, NoRun
  <2> QED BY <2>2, <2>3, <2>4, SavesGrown
<1>3. CASE RenewStore
  BY <1>3, RenewStoreKeeping
<1>4. CASE RenewRecord
  <2>1. PICK a \in Accounts : a = run.who
    BY <1>0, <1>4 DEF RenewRecord, Inv, RunTrue, Asked, Asking
  <2>2. PICK p : p = [name |-> run.park, login |-> run.fresh[a]]
    OBVIOUS
  <2>3. p \in Parks
    BY <1>0, <1>4, <2>1, <2>2 DEF RenewRecord, Inv, RunTrue, Asked, Asking, Reserved, Runs, Parks
  <2>4. PICK without : without = Discard(mem, mem.parked[a].name)
    OBVIOUS
  <2>5. Grows(mem, without)
    <3>1. mem.parked[a].name \in Names
      BY <1>0, <1>4, <2>1 DEF RenewRecord, Inv, RunTrue, Asked, Asking, Indexes, Parks
    <3> QED BY <1>0, <2>4, <3>1, DiscardGrows
  <2>6. PICK iy : iy = ParkFor(without, a, p)
    OBVIOUS
  <2>7. Grows(mem, iy)
    <3>1. Grows(without, iy)
      BY <2>3, <2>5, <2>6, ParkForGrows DEF Grows
    <3> QED BY <2>5, <3>1 DEF Grows
  <2>8. PICK done : done = [run EXCEPT !.fresh[run.who] = NoLogin, !.park = NoName]
    OBVIOUS
  <2>9. /\ index' \in {index, iy} /\ UNCHANGED <<live, usable, sess, taken, outside, vault>>
        /\ run' \in {NoRun, done, [done EXCEPT !.inc = p]}
    BY <1>4, <2>1, <2>2, <2>4, <2>6, <2>8 DEF RenewRecord, Saves, SaveFails, Ends, service
  <2>10. \A b \in Accounts : run'.fresh[b] \in {run.fresh[b], NoLogin}
    <3>1. done \in Runs /\ done.fresh = [run.fresh EXCEPT ![a] = NoLogin]
      BY <1>0, <2>1, <2>8 DEF Inv, RunTrue, Runs
    <3>2. run.fresh \in [Accounts -> Logins \cup {NoLogin}]
      BY <1>0 DEF Inv, RunTrue, Runs
    <3>3. \A b \in Accounts : done.fresh[b] \in {run.fresh[b], NoLogin}
      BY <3>1, <3>2
    <3>4. [done EXCEPT !.inc = p].fresh = done.fresh
      BY <3>1 DEF Runs
    <3>5. \A b \in Accounts : NoRun.fresh[b] = NoLogin
      BY DEF NoRun
    <3>6. CASE run' = NoRun
      BY <3>5, <3>6
    <3>7. CASE run' = done
      BY <3>3, <3>7
    <3>8. CASE run' = [done EXCEPT !.inc = p]
      <4>1. run'.fresh = done.fresh
        BY <3>4, <3>8
      <4> QED BY <3>3, <4>1
    <3> QED BY <2>9, <3>6, <3>7, <3>8
  <2> QED BY <2>7, <2>9, <2>10, SavesGrown
<1>5. CASE RenewLost
  BY <1>5, RenewLostKeeping
<1>6. CASE NoMoreAnswers \/ RenewReserve \/ \E a \in Accounts : WriteFresh(a)
  BY <1>0, <1>6, RenewIdles, IdlesKeeping
<1> QED BY <1>1, <1>2, <1>3, <1>4, <1>5, <1>6 DEF Renew

\* A change: what it reads, reserves and journals.
LEMMA ChangeIdles ==
  ASSUME Inv, \/ Lock \/ Ready \/ NotReady \/ Reserve \/ WriteJournal \/ Reread \/ ParkUnreadable
              \/ UndoClear \/ Holds \/ Clear
  PROVE  Idles
<1>1. CASE Refuses \/ \E op \in Operations : Breaks(op)
  BY <1>1, RefusesIdles
<1>2. CASE ~Refuses /\ \A op \in Operations : ~Breaks(op)
  <2>1. CASE Lock \/ Ready \/ NotReady
    BY <1>2, <2>1 DEF Lock, Ready, NotReady, Idles, Inv, RunTrue, Runs, Operations, disk, service, budgets
  <2>2. CASE Reserve
    BY <2>2 DEF Reserve, Reserves, Ends, Idles, Inv, RunTrue, Runs, disk, service
  <2>3. CASE WriteJournal \/ Reread \/ ParkUnreadable
    BY <1>2, <2>3 DEF WriteJournal, Reread, ParkUnreadable, Idles, Operations, disk, service
  <2>4. CASE UndoClear \/ Holds \/ Clear
    BY <1>2, <2>4 DEF UndoClear, Holds, Clear, Ends, Idles, Inv, RunTrue, Runs, Operations, disk, service,
                      budgets
  <2> QED BY <2>1, <2>2, <2>3, <2>4
<1> QED BY <1>1, <1>2

\* A change: what it stores, records and writes.
LEMMA ChangeKeeping ==
  ASSUME Guarded, Guarded', Reliable, Change
  PROVE  [Keeping!Next]_(Keeping!vars)
<1>0. /\ Inv /\ Traced /\ mem \in Indexes
  BY DEF Guarded, Basis, Inv, RunTrue, IndexTrue
<1>1. CASE ParkStore
  BY <1>1, ParkStoreKeeping
<1>2. CASE ParkRecord
  <2>1. PICK p : p = [name |-> run.park, login |-> run.before]
    OBVIOUS
  <2>2. p \in Parks /\ run.out \in Accounts /\ run.park \in Names
    BY <1>0, <1>2, <2>1 DEF ParkRecord, Inv, RunTrue, Reserved, Bound, Changing, Parks
  <2>3. Grows(mem, ParkFor(mem, run.out, p))
    BY <1>0, <2>2, ParkForGrows
  <2>4. /\ UNCHANGED <<live, usable, sess, taken, outside, run>>
        /\ \/ index' = ParkFor(mem, run.out, p) /\ vault' = vault
           \/ index' = index /\ vault' \in {vault, [vault EXCEPT ![run.park] = NoLogin]}
    BY <1>2, <2>1 DEF ParkRecord, Saves, SaveFails, service
  <2>5. CASE vault' = vault
    BY <2>3, <2>4, <2>5, SavesGrown
  <2>6. CASE index' = index /\ vault' = [vault EXCEPT ![run.park] = NoLogin]
    <3>1. \A n \in Names : vault'[n] \in {vault[n], NoLogin}
      BY <1>0, <2>2, <2>6 DEF Inv, DiskTrue, VaultTrue
    <3> QED BY <2>4, <2>6, <3>1, LeavesIndex
  <2> QED BY <2>4, <2>5, <2>6
<1>3. CASE UndoSave
  <2>1. CASE Breaks("save")
    BY <2>1, RefusesIdles, IdlesKeeping DEF Operations
  <2>2. CASE ~Breaks("save")
    <3>1. index' = mem /\ UNCHANGED <<live, usable, sess, taken, outside, vault, run>>
      BY <1>3, <2>2 DEF UndoSave, Saves, service
    <3> QED BY <1>0, <3>1, SavesGrown DEF Grows
  <2> QED BY <2>1, <2>2
<1>4. CASE Record
  <2>1. CASE Breaks("save")
    BY <2>1, RefusesIdles, IdlesKeeping DEF Operations
  <2>2. CASE ~Breaks("save")
    <3>1. PICK ix : ix = Discard(mem, run.inc.name)
      OBVIOUS
    <3>2. /\ index' = Identified(ix, run.inc.login)
          /\ UNCHANGED <<live, usable, sess, taken, outside, vault>> /\ run'.fresh = run.fresh
      BY <1>0, <1>4, <2>2, <3>1 DEF Record, Saves, service, Inv, RunTrue, Runs
    <3>3. run.inc.name \in Names /\ run.inc.login \in Logins
      BY <1>0, <1>4 DEF Record, Inv, RunTrue, Reserved, Changing, Parks
    <3>4. Grows(mem, ix)
      BY <1>0, <3>1, <3>3, DiscardGrows
    <3>5. Grows(mem, Identified(ix, run.inc.login))
      BY <3>3, <3>4 DEF Grows, Identified, Indexes, Logins, Account
    <3> QED BY <3>2, <3>5, SavesGrown
  <2> QED BY <2>1, <2>2
<1>5. CASE Install \/ RolledBack \/ Unverified \/ Corrupted
  BY <1>5, InstallKeeping
<1>6. CASE \/ Lock \/ Ready \/ NotReady \/ Reserve \/ WriteJournal \/ Reread \/ ParkUnreadable
           \/ UndoClear \/ Holds \/ Clear
  BY <1>0, <1>6, ChangeIdles, IdlesKeeping
<1> QED BY <1>1, <1>2, <1>3, <1>4, <1>5, <1>6 DEF Change

\* Giving up a journal.
LEMMA AbandonKeeping ==
  ASSUME Guarded, Guarded', Reliable, Abandon
  PROVE  Keeping!Next
<1>0. /\ Inv /\ mem \in Indexes /\ VaultTrue /\ JournalTrue(journal, clock) /\ journal # NoJournal
      /\ Locking
  BY DEF Guarded, Basis, Inv, RunTrue, DiskTrue, IndexTrue, Settling, Abandon, Reliable
<1>1. CASE Breaks("save")
  BY <1>1, RefusesIdles, IdlesKeeping DEF Operations
<1>2. CASE ~Breaks("save")
  <2>1. /\ UNCHANGED <<live, usable, sess, taken, outside, vault, run>>
        /\ \E p \in {NoLogin, IF Replaces(journal) THEN NoLogin ELSE vault[journal.park]} :
             \E i, slot : index' = GivenUp(mem, journal, p, i, slot)
    BY <1>2 DEF Abandon, Saves, service
  <2>2. PICK p \in {NoLogin, IF Replaces(journal) THEN NoLogin ELSE vault[journal.park]} :
          \E i, slot : index' = GivenUp(mem, journal, p, i, slot)
    BY <2>1
  <2>3. PICK i, slot : index' = GivenUp(mem, journal, p, i, slot)
    BY <2>2
  <2>4. Grows(mem, index')
    BY <1>0, <2>3, GivenUpGrows
  <2> QED BY <2>1, <2>4, SavesGrown
<1> QED BY <1>1, <1>2

\* Whose the login signed in is.
LEMMA IdentifyKeeping ==
  ASSUME Guarded, Guarded', Identify \/ IdentifyFails \/ IdentifyRefused \/ Prove \/ NotProved
  PROVE  Keeping!Next
<1>0. Inv /\ mem \in Indexes
  BY DEF Guarded, Basis, Inv, RunTrue, IndexTrue
<1>1. CASE Identify
  <2>1. /\ index' \in {index, Identified(mem, live)}
        /\ UNCHANGED <<live, usable, sess, taken, outside, vault>>
        /\ run'.fresh = run.fresh \/ run' = NoRun
    BY <1>0, <1>1 DEF Identify, SaveFails, Ends, service, Inv, RunTrue, Runs
  <2>2. Grows(mem, Identified(mem, live))
    <3>1. live \in Logins \/ live = NoLogin
      BY <1>1 DEF Identify, Told
    <3>2. [owner |-> Account(live), login |-> live] \in
            [owner : Accounts \cup {Nobody}, login : Logins \cup {NoLogin}]
      BY <3>1 DEF Logins, NoLogin, Account
    <3> QED BY <1>0, <3>2 DEF Grows, Identified, Indexes
  <2>3. \A a \in Accounts : run'.fresh[a] \in {run.fresh[a], NoLogin}
    BY <2>1 DEF NoRun
  <2> QED BY <2>1, <2>2, <2>3, SavesGrown
<1>2. CASE IdentifyFails \/ IdentifyRefused \/ Prove \/ NotProved
  <2>1. CASE Refuses
    BY <2>1, RefusesIdles, IdlesKeeping
  <2>2. CASE ~Refuses
    <3>1. Idles
      BY <1>0, <1>2, <2>2 DEF IdentifyFails, IdentifyRefused, Prove, NotProved, Idles, Inv, RunTrue, Runs,
                              disk, service, budgets
    <3> QED BY <3>1, IdlesKeeping
  <2> QED BY <2>1, <2>2
<1> QED BY <1>1, <1>2
-----------------------------------------------------------------------------
(* Forgetting an account. *)

\* Once a change has swept what was listed, what the run has in mind says of every
\* account's park what the saved index does, and has forgotten no deletion.
Settled == Swept => mem.parked = index.parked /\ mem.discarded \subseteq index.discarded

\* It starts to hold where what is saved is what the run has in mind.
LEMMA SettledFrom ==
  ASSUME mem' = index'
  PROVE  Settled'
BY DEF Settled

\* And goes on holding where neither changes.
LEMMA SettledOn ==
  ASSUME Settled, Swept' => Swept, UNCHANGED <<mem, index>>
  PROVE  Settled'
BY DEF Settled

\* It says nothing of the steps before the sweep's end and after the change is under way.
LEMMA SettledElsewhere ==
  ASSUME pc' \notin {"twins", "dropTwins", "purge", "purgeSave", "identify", "forget", "prove"}
  PROVE  Settled'
BY DEF Settled, Swept

\* Settling ends with it.
LEMMA SettledSettle ==
  ASSUME Guarded, Settled, Settle
  PROVE  Settled'
<1>0. Inv /\ StagedSettling /\ run \in Runs /\ mem \in Indexes
  BY DEF Guarded, Basis, Staged, Inv, RunTrue, IndexTrue
<1>1. CASE Refuses \/ \E op \in Operations : Breaks(op)
  BY <1>1, SettledElsewhere DEF Refuses, Breaks, Ends
<1>2. CASE ~Refuses /\ \A op \in Operations : ~Breaks(op)
  <2>1. CASE ReconcileNothing \/ ReconcileTorn \/ ReconcileRead \/ Undetermined \/ Repair \/ ClearRepaired
    <3>1. pc' \in {"sweep", "reconcile", "repair", "clearRepaired"}
      BY <1>2, <2>1 DEF ReconcileNothing, ReconcileTorn, ReconcileRead, Undetermined, Repair, ClearRepaired,
                        ToSweep, Goes, Operations
    <3> QED BY <3>1, SettledElsewhere
  <2>2. CASE SweepSave \/ \E n \in Names : Sweep(n)
    <3>1. pc' \in {"sweep", "sweepList"}
      BY <1>2, <2>2 DEF SweepSave, Sweep, Goes, Operations
    <3> QED BY <3>1, SettledElsewhere
  <2>3. CASE SweepList
    <3>1. pc = "sweepList" /\ UNCHANGED <<mem, index>>
      BY <1>2, <2>3 DEF SweepList, Operations
    <3> QED BY <1>0, <3>1, SettledFrom DEF StagedSettling
  <2>4. CASE FindTwins
    <3>1. /\ pc = "twins" /\ pc' = "dropTwins" /\ UNCHANGED <<mem, index>> /\ run'.cmd = run.cmd
      BY <1>0, <2>4 DEF FindTwins, Goes, Runs, disk
    <3> QED BY <3>1, SettledOn DEF Swept
  <2>5. CASE NothingDue
    <3>1. pc' = "purge" /\ run'.cmd = "renew"
      BY <1>0, <2>5 DEF NothingDue, Goes, Runs
    <3> QED BY <3>1 DEF Settled, Swept
  <2>6. CASE DropTwins
    <3>1. mem' = index' \/ pc' = "ask"
      BY <1>2, <2>6 DEF DropTwins, Saves, Goes, Operations
    <3> QED BY <3>1, SettledFrom, SettledElsewhere
  <2>7. CASE Purge
    <3>1. PICK kept \in SUBSET mem.discarded :
            LET left == [mem EXCEPT !.discarded = kept]
            IN  IF left = mem THEN AfterPurge(mem) ELSE mem' = left /\ Goes("purgeSave") /\ UNCHANGED run
      BY <2>7 DEF Purge
    <3>2. index' = index /\ pc = "purge"
      BY <2>7 DEF Purge
    <3>3. CASE AfterPurge(mem)
      <4>1. pc' \in {"clear", "idle"} \/ (pc' = "identify" /\ mem' = mem /\ Swept)
        BY <3>2, <3>3 DEF AfterPurge, Goes, Ends, Swept
      <4> QED BY <3>2, <4>1, SettledOn, SettledElsewhere
    <3>4. CASE mem' = [mem EXCEPT !.discarded = kept] /\ pc' = "purgeSave" /\ run' = run
      <4>1. mem'.parked = mem.parked /\ mem'.discarded \subseteq mem.discarded
        BY <1>0, <3>4 DEF Indexes
      <4>2. Swept' => Swept
        BY <3>2, <3>4 DEF Swept
      <4> QED BY <3>2, <4>1, <4>2 DEF Settled
    <3> QED BY <3>1, <3>3, <3>4 DEF Goes
  <2>8. CASE PurgeSave
    <3>1. index' \in {mem, index} /\ pc = "purgeSave" /\ AfterPurge(mem)
      BY <2>8 DEF PurgeSave, SaveFails
    <3>2. pc' \in {"clear", "idle"} \/ (pc' = "identify" /\ mem' = mem /\ Swept)
      BY <3>1 DEF AfterPurge, Goes, Ends, Swept
    <3> QED BY <3>1, <3>2, SettledOn, SettledFrom, SettledElsewhere
  <2> QED BY <2>1, <2>2, <2>3, <2>4, <2>5, <2>6, <2>7, <2>8 DEF Settle
<1> QED BY <1>1, <1>2

\* So does every step after it, until a change's own writes begin.
LEMMA SettledProcess ==
  ASSUME Guarded, Settled, Process
  PROVE  Settled'
<1>0. Inv /\ StagedSettling /\ run \in Runs /\ mem \in Indexes
  BY DEF Guarded, Basis, Staged, Inv, RunTrue, IndexTrue
<1>1. CASE Settle
  BY <1>1, SettledSettle
<1>2. CASE Refuses \/ \E op \in Operations : Breaks(op)
  BY <1>2, SettledElsewhere DEF Refuses, Breaks, Ends
<1>3. CASE ~Refuses /\ \A op \in Operations : ~Breaks(op)
  <2>1. CASE Renew
    <3>1. CASE NoMoreAnswers
      <4>1. run'.cmd = "renew" /\ pc' = "purge"
        BY <1>0, <1>3, <3>1 DEF NoMoreAnswers, Goes, Runs
      <4> QED BY <4>1 DEF Settled, Swept
    <3>2. CASE ~NoMoreAnswers
      <4>1. CASE \E a \in Accounts : Ask(a) \/ DropRefused(a) \/ WriteFresh(a)
        <5>1. pc' \in {"ask", "idle", "renewReserve"}
          BY <4>1 DEF Ask, DropRefused, WriteFresh, Answered, Goes, Ends
        <5> QED BY <5>1, SettledElsewhere
      <4>2. CASE RenewReserve \/ RenewStore
        <5>1. pc' \in {"renewStore", "renewRecord", "renewLost", "renewReserve"}
          BY <4>2 DEF RenewReserve, RenewStore, TriesAgain, Goes
        <5> QED BY <5>1, SettledElsewhere
      <4>3. CASE RenewRecord \/ RenewLost
        <5>1. pc' \in {"ask", "lock", "idle"}
          BY <4>3 DEF RenewRecord, RenewLost, Goes, Ends
        <5> QED BY <5>1, SettledElsewhere
      <4> QED BY <2>1, <3>2, <4>1, <4>2, <4>3 DEF Renew
    <3> QED BY <3>1, <3>2
  <2>2. CASE Change
    <3>1. CASE UndoClear \/ Record
      <4>1. run'.next \in {"idle", "clear"} /\ pc' = "purge"
        BY <1>0, <1>3, <3>1 DEF UndoClear, Record, Goes, Runs, Operations
      <4> QED BY <4>1 DEF Settled, Swept
    <3>2. CASE Lock \/ Ready \/ NotReady \/ Reserve \/ WriteJournal \/ ParkStore \/ ParkRecord
      <4>1. pc' \in {"ready", "reserve", "journal", "idle", "parkStore", "install", "parkRecord", "clear", "reread"}
        BY <1>3, <3>2 DEF Lock, Ready, NotReady, Reserve, WriteJournal, ParkStore, ParkRecord, Goes, Ends,
                          Operations
      <4> QED BY <4>1, SettledElsewhere
    <3>3. CASE Reread \/ ParkUnreadable \/ UndoSave \/ Clear \/ Holds
      <4>1. pc' \in {"install", "undoSave", "undoClear", "idle", "record", "clear"}
        BY <1>3, <3>3 DEF Reread, ParkUnreadable, UndoSave, Clear, Holds, Goes, Ends, Operations
      <4> QED BY <4>1, SettledElsewhere
    <3>4. CASE Install \/ RolledBack \/ Unverified \/ Corrupted
      <4>1. pc' \in {"holds", "undoSave", "clear", "idle"}
        BY <3>4 DEF Install, RolledBack, Unverified, Corrupted, Goes, Ends
      <4> QED BY <4>1, SettledElsewhere
    <3> QED BY <2>2, <3>1, <3>2, <3>3, <3>4 DEF Change
  <2>3. CASE Abandon \/ NotProved \/ Prove
    <3>1. pc' \in {"clear", "idle", "lock", "ask"}
      BY <1>3, <2>3 DEF Abandon, NotProved, Prove, Goes, Ends, Refuses, Operations
    <3> QED BY <3>1, SettledElsewhere
  <2>4. CASE IdentifyFails \/ IdentifyRefused
    <3>1. pc = "identify" /\ UNCHANGED <<mem, index>>
      BY <1>3, <2>4 DEF IdentifyFails, IdentifyRefused, disk
    <3> QED BY <3>1, SettledOn DEF Swept
  <2>5. CASE Identify
    <3>1. PICK found : found = Identified(mem, live)
      OBVIOUS
    <3>2. /\ pc = "identify" /\ index' \in {index, found}
          /\ mem' = found \/ pc' = "idle"
      BY <2>5, <3>1 DEF Identify, SaveFails, Ends
    <3>3. found.parked = mem.parked /\ found.discarded = mem.discarded
      BY <1>0, <3>1 DEF Identified, Indexes
    <3>4. Swept
      BY <3>2 DEF Swept
    <3> QED BY <3>2, <3>3, <3>4, SettledElsewhere DEF Settled
  <2>6. CASE Forget
    <3>1. pc = "forget" /\ pc' = "purge" /\ run' = run
      BY <1>3, <2>6 DEF Forget, Goes, Operations
    <3>2. run'.next = "idle"
      BY <1>0, <3>1 DEF StagedSettling
    <3> QED BY <3>1, <3>2 DEF Settled, Swept
  <2> QED BY <1>1, <2>1, <2>2, <2>3, <2>4, <2>5, <2>6 DEF Process
<1> QED BY <1>2, <1>3

\* And every step of anybody's.
LEMMA SettledKept ==
  ASSUME Guarded, Settled, [Next]_vars
  PROVE  Settled'
<1>1. CASE Process
  BY <1>1, SettledProcess
<1>2. CASE Crash
  BY <1>2, SettledElsewhere DEF Crash, Ends
<1>3. CASE World \/ UNCHANGED vars
  <2>1. UNCHANGED <<index, pc, mem, run>>
    BY <1>3 DEF World, SessionSends, SessionSaves, LogOut, OutsideSignIn, ServiceRefuses, vars, disk, process
  <2> QED BY <2>1, SettledOn DEF Swept
<1>4. ASSUME NEW cmd \in Commands, NEW a \in Accounts \cup {Nobody}, Start(cmd, a) PROVE Settled'
  <2>1. run'.cmd = cmd /\ (pc' = "twins" => cmd = "renew") /\ pc' \in {"twins", "abandon", "reconcile"}
    BY <1>4 DEF Start, Goes, NoRun
  <2> QED BY <2>1 DEF Settled, Swept
<1> QED BY <1>1, <1>2, <1>3, <1>4 DEF Next

\* Forgetting an account lets go of its park, and of nobody else's.
LEMMA ForgetKeeping ==
  ASSUME Guarded, Guarded', Settled, Forget
  PROVE  Keeping!Next
<1>1. CASE Breaks("save")
  BY <1>1, RefusesIdles, IdlesKeeping DEF Operations
<1>2. CASE ~Breaks("save")
  <2>1. PICK a : a = run.to
    OBVIOUS
  <2>2. /\ pc = "forget" /\ index' = Removed(mem, a)
        /\ UNCHANGED <<live, vault, listed, usable, sess, run, taken, outside>>
    BY <1>2, <2>1 DEF Forget, Saves, service
  <2>3. /\ a \in Accounts /\ IndexTrue(mem, vault, clock) /\ Enrolls(mem) /\ listed = {}
        /\ mem.enrolled = index.enrolled /\ mem.parked = index.parked
        /\ mem.discarded \subseteq index.discarded
        /\ \A n \in index.discarded : vault[n] # NoLogin => n \in mem.discarded
        /\ NoLogin \notin usable
        /\ \A n \in Names : vault[n] # NoLogin => Account(vault[n]) = n[1]
    <3>1. Inv /\ Traced /\ StagedSettling /\ Swept
      BY <2>2 DEF Guarded, Basis, Staged, Swept
    <3>2. Enrolls(mem)
      BY <3>1 DEF Traced, IndexKnown, Enrolls
    <3> QED BY <2>1, <2>2, <3>1, <3>2, NobodyNamed
            DEF Settled, StagedSettling, Traced, Inv, RunTrue, DiskTrue, WorldOK, VaultTrue, Bound
  <2>4. PICK iy : iy = Removed(mem, a)
    OBVIOUS
  <2>5. /\ index' = iy /\ iy.enrolled = index.enrolled \ {a} /\ Follows(mem, iy, vault, clock)
        /\ \A b \in Accounts : b # a => Spares(mem, iy, b)
    BY <2>2, <2>3, <2>4, RemovedFollows
  <2>6. ASSUME NEW b \in Accounts, b # a PROVE Kept(b)' <=> Kept(b)
    <3>1. iy.parked[b] = index.parked[b]
      BY <2>3, <2>5, <2>6 DEF Spares
    <3>2. ASSUME NEW n \in Names, vault[n] \in usable, Account(vault[n]) = b
          PROVE  n \in iy.discarded <=> n \in index.discarded
      <4>1. vault[n] # NoLogin /\ n[1] = b
        BY <2>3, <3>2
      <4> QED BY <2>3, <2>5, <2>6, <4>1 DEF Spares
    <3> QED BY <2>2, <2>5, <3>1, <3>2 DEF Kept
  <2>7. ~Kept(a)'
    <3>1. iy.parked[a] = NoPark
      BY <2>3, <2>5 DEF Follows
    <3>2. index'.parked[a].name \notin Names
      BY <2>5, <3>1, NobodyNamed DEF NoPark
    <3> QED BY <2>2, <2>3, <3>2 DEF Kept
  <2>8. {b \in Accounts : Kept(b)'} = {b \in Accounts : Kept(b)} \ {a}
    BY <2>6, <2>7
  <2>9. SignedIn' = SignedIn /\ Hand' = Hand /\ taken' = taken /\ outside' = outside
    BY <2>2 DEF SignedIn, Hand, Renewing, SavesOver
  <2>10. CASE a \in index.enrolled
    <3>1. Keeping!Forget(a)
      BY <2>5, <2>8, <2>9, <2>10 DEF Keeping!Forget
    <3> QED BY <2>3, <3>1 DEF Keeping!Next
  <2>11. CASE a \notin index.enrolled
    <3>1. index'.enrolled = index.enrolled
      BY <2>5, <2>11
    <3>2. Keeping!LetGo
      BY <2>8, <2>9, <2>11, <3>1 DEF Keeping!LetGo, Keeping!Sheds
    <3> QED BY <3>2 DEF Keeping!Next
  <2> QED BY <2>10, <2>11
<1> QED BY <1>1, <1>2

-----------------------------------------------------------------------------
(* Switch implements Custody. *)

\* Starting a run moves nothing.
LEMMA StartIdles ==
  ASSUME Inv, NEW cmd, NEW a, Start(cmd, a)
  PROVE  Idles
<1>1. \A b \in Accounts : run.fresh[b] = NoLogin
  BY NoAnswers DEF Start, Asking
<1>2. run.fresh = NoRun.fresh
  BY <1>1 DEF Inv, RunTrue, Runs, NoRun
<1>3. run'.fresh = NoRun.fresh
  BY DEF Start, NoRun
<1> QED BY <1>2, <1>3 DEF Start, Idles, disk, service, budgets

\* Where nothing at all changes, Custody's state does not either.
LEMMA StutterKeeping ==
  ASSUME UNCHANGED vars
  PROVE  UNCHANGED Keeping!vars
<1>1. UNCHANGED <<live, vault, index, listed, usable, sess, run, taken, outside>>
  BY DEF vars, disk, world, service, process, budgets
<1>2. {b \in Accounts : Kept(b)'} = {b \in Accounts : Kept(b)}
  BY <1>1 DEF Kept
<1> QED BY <1>1, <1>2 DEF Keeping!vars, SignedIn, Hand, Renewing, SavesOver

\* Every step of a run is one of Custody's, or none.
LEMMA ProcessKeeping ==
  ASSUME Guarded, Guarded', Settled, Reliable, Process
  PROVE  [Keeping!Next]_(Keeping!vars)
<1>1. CASE Settle
  BY <1>1, SettleKeeping
<1>2. CASE Renew
  BY <1>2, RenewKeeping
<1>3. CASE Change
  BY <1>3, ChangeKeeping
<1>4. CASE Abandon
  BY <1>4, AbandonKeeping
<1>5. CASE Identify \/ IdentifyFails \/ IdentifyRefused \/ Prove \/ NotProved
  BY <1>5, IdentifyKeeping
<1>6. CASE Forget
  BY <1>6, ForgetKeeping
<1> QED BY <1>1, <1>2, <1>3, <1>4, <1>5, <1>6 DEF Process

\* So is every step of anybody's.
LEMMA NextKeeping ==
  ASSUME Guarded, Guarded', Settled, Reliable, [Next]_vars
  PROVE  [Keeping!Next]_(Keeping!vars)
<1>0. Locking /\ Inv
  BY DEF Reliable, Guarded, Basis
<1>1. CASE Process
  BY <1>1, ProcessKeeping
<1>2. CASE Crash
  BY <1>2, CrashKeeping
<1>3. CASE World
  <2>1. CASE SessionSends
    BY <1>0, <2>1, SendsExchanges
  <2>2. CASE SessionSaves
    BY <1>0, <2>2, SavesSaves
  <2>3. CASE LogOut
    BY <1>0, <2>3, LogOutElsewhere
  <2>4. ASSUME NEW a \in Accounts, OutsideSignIn(a) PROVE Keeping!Next
    BY <1>0, <2>4, SignInElsewhere
  <2>5. ASSUME NEW l \in Logins, ServiceRefuses(l) PROVE Keeping!Next
    BY <1>0, <2>5, RefusesElsewhere
  <2> QED BY <1>3, <2>1, <2>2, <2>3, <2>4, <2>5 DEF World
<1>4. ASSUME NEW cmd \in Commands, NEW a \in Accounts \cup {Nobody}, Start(cmd, a) PROVE Keeping!Next
  BY <1>0, <1>4, StartIdles, IdlesKeeping
<1>5. CASE UNCHANGED vars
  BY <1>5, StutterKeeping
<1> QED BY <1>1, <1>2, <1>3, <1>4, <1>5 DEF Next

\* To begin with one account is signed in and the others are kept.
LEMMA KeepingInit == Init => Keeping!Init
<1> SUFFICES ASSUME Init PROVE Keeping!Init
  OBVIOUS
<1>1. PICK signedIn \in Accounts, others \in SUBSET Accounts :
        /\ signedIn \notin others
        /\ index = [enrolled |-> others \cup {signedIn},
                    parked |-> [a \in Accounts |->
                       IF a \in others THEN [name |-> <<a, 1>>, login |-> <<a, 1>>] ELSE NoPark],
                    discarded |-> {},
                    inUse |-> [owner |-> signedIn, login |-> <<signedIn, 1>>]]
        /\ vault = [n \in Names |-> IF \E a \in others : n = <<a, 1>> THEN <<n[1], 1>> ELSE NoLogin]
        /\ live = <<signedIn, 1>>
  BY DEF Init
<1>2. /\ listed = {} /\ sess = NoRenewal /\ usable = {<<a, 1>> : a \in index.enrolled}
      /\ run = NoRun /\ taken = {} /\ outside = 0
  BY DEF Init
<1>3. /\ index.enrolled = others \cup {signedIn} /\ index.discarded = {}
      /\ \A a \in Accounts : index.parked[a] = IF a \in others THEN [name |-> <<a, 1>>, login |-> <<a, 1>>]
                                               ELSE NoPark
  BY <1>1
<1>4. \A a \in Accounts : <<a, 1>> \in Names /\ <<a, 1>> # NoLogin /\ Account(<<a, 1>>) = a
  BY SwitchBounds, NobodyAssumption DEF Names, NoLogin, Account
<1>5. NoLogin \notin usable /\ \A a \in Accounts : <<a, 1>> \in usable <=> a \in index.enrolled
  BY <1>2, <1>3, <1>4, NobodyAssumption DEF NoLogin
<1>6. SignedIn = signedIn
  BY <1>1, <1>3, <1>4, <1>5 DEF SignedIn
<1>7. Hand = {}
  BY <1>2, <1>5 DEF Hand, Renewing, NoRenewal, NoRun
<1>8. ASSUME NEW a \in Accounts PROVE Kept(a) <=> a \in others
  <2>1. CASE a \in others
    <3>1. vault[<<a, 1>>] = <<a, 1>>
      BY <1>1, <1>4, <2>1
    <3>2. index.parked[a] = [name |-> <<a, 1>>, login |-> <<a, 1>>]
      BY <1>3, <2>1
    <3>3. <<a, 1>> = index.parked[a].name
      BY <3>2
    <3> QED BY <1>3, <1>4, <1>5, <2>1, <3>1, <3>3 DEF Kept
  <2>2. CASE a \notin others
    <3>0. index.parked[a] = NoPark
      BY <1>3, <2>2
    <3>1. index.parked[a].name \notin Names
      BY <3>0, NobodyNamed DEF NoPark
    <3> QED BY <1>2, <2>2, <3>1 DEF Kept
  <2> QED BY <2>1, <2>2
<1>9. {b \in Accounts : Kept(b)} = others
  BY <1>8
<1> QED BY <1>1, <1>2, <1>3, <1>6, <1>7, <1>9 DEF Keeping!Init

\* With Claude Code's locks, and where the journal can be removed and settling does not
\* take for empty what it cannot read, every step of a switch, a recovery, a renewal or
\* a crash moves one account's login one place on or none, as Custody says: nothing is
\* written over a login that is not kept, no copy dropped whose account has no other,
\* no answer lost but with who held it (switch/mod.rs, renew.rs, journal.rs, pending.rs).
THEOREM SwitchImplementsCustody == Reliable => (Spec => Custodied)
<1> SUFFICES ASSUME Reliable PROVE Spec => Custodied
  OBVIOUS
<1>1. Init => Keeping!Init /\ Settled
  BY KeepingInit DEF Init, Settled, Swept
<1>2. Guarded /\ Settled /\ [Next]_vars => Settled'
  BY SettledKept
<1>3. Guarded /\ Guarded' /\ Settled /\ [Next]_vars => [Keeping!Next]_(Keeping!vars)
  BY NextKeeping
<1>4. Spec => []Guarded
  BY GuardedHolds
<1> QED BY <1>1, <1>2, <1>3, <1>4, PTL DEF Spec, Custodied, Keeping!Spec

\* At its round trips a run asks, or writes what it was answered.
LEMMA AskActs ==
  ASSUME Process, pc = "ask"
  PROVE  \/ \E a \in Accounts : Ask(a) \/ DropRefused(a) \/ WriteFresh(a)
         \/ NoMoreAnswers
<1>1. ~Settle
  BY DEF Settle, ReconcileNothing, ReconcileTorn, ReconcileRead, Undetermined, Repair, ClearRepaired,
         Sweep, SweepSave, SweepList, FindTwins, NothingDue, DropTwins, Purge, PurgeSave
<1>2. ~Change
  BY DEF Change, Lock, Ready, NotReady, Reserve, WriteJournal, ParkStore, ParkRecord, Reread,
         ParkUnreadable, UndoSave, UndoClear, Install, RolledBack, Unverified, Corrupted, Holds,
         Record, Clear
<1>3. ~(Abandon \/ Identify \/ IdentifyFails \/ IdentifyRefused \/ Forget \/ Prove \/ NotProved)
  BY DEF Abandon, Identify, IdentifyFails, IdentifyRefused, Forget, Prove, NotProved
<1>4. ~(RenewReserve \/ RenewStore \/ RenewRecord \/ RenewLost)
  BY DEF RenewReserve, RenewStore, RenewRecord, RenewLost
<1> QED BY <1>1, <1>2, <1>3, <1>4 DEF Process, Renew

\* What it asks for is never in exchange for the login signed in.
LEMMA AskSpares ==
  ASSUME Guarded, pc = "ask", [Next]_vars, run' # run, live \in usable
  PROVE  live \in usable'
<1>1. Inv /\ SlotTwins /\ TwinFree /\ live \in Logins
  BY DEF Guarded, Basis, Slot, TwinFree, Asking, Inv, DiskTrue, WorldOK
<1>2. CASE Process
  <2>1. ASSUME NEW a \in Accounts, Ask(a) PROVE live \in usable'
    <3>1. mem.parked[a].login # live
      BY <1>1 DEF SlotTwins
    <3> QED BY <2>1, <3>1 DEF Ask
  <2>2. ASSUME NEW a \in Accounts, DropRefused(a) PROVE usable' = usable
    BY <2>2 DEF DropRefused, service
  <2>3. ASSUME NEW a \in Accounts, WriteFresh(a) PROVE usable' = usable
    BY <2>3 DEF WriteFresh, service
  <2>4. CASE NoMoreAnswers
    BY <2>4 DEF NoMoreAnswers, Refuses, service
  <2> QED BY <1>2, <2>1, <2>2, <2>3, <2>4, AskActs
<1>3. CASE Crash
  BY <1>3 DEF Crash, service
<1>4. CASE World \/ UNCHANGED vars
  BY <1>4 DEF World, SessionSends, SessionSaves, LogOut, OutsideSignIn, ServiceRefuses, vars, process
<1>5. ASSUME NEW cmd \in Commands, NEW a \in Accounts \cup {Nobody}, Start(cmd, a) PROVE FALSE
  BY <1>5 DEF Start
<1> QED BY <1>2, <1>3, <1>4, <1>5 DEF Next

\* Under the same conditions a renewal never spends the login signed in, which its tool
\* is about to present: every parked copy of it is let go of before the run asks
\* anything, and Claude Code's tool puts none of them in the slot meanwhile (renew.rs).
THEOREM SignedInIsNotRenewed == Reliable => (Spec => LiveNotRenewed)
<1>1. Guarded /\ [Next]_vars =>
        [(pc = "ask" /\ run' # run /\ live \in usable) => live \in usable']_vars
  BY AskSpares
<1> QED BY <1>1, GuardedHolds, PTL DEF Spec, LiveNotRenewed

-----------------------------------------------------------------------------
(* The promise of Custody follows from its steps, whatever stands for its places. *)

\* What the steps of Custody keep: Pitboard answers for accounts only, and none is lost.
NoneMissing == index.enrolled \subseteq Accounts /\ Keeping!NoneLost

\* At the start every account Pitboard answers for is signed in or kept.
LEMMA CustodyBegins == Keeping!Init => NoneMissing
  BY DEF Keeping!Init, NoneMissing, Keeping!NoneLost, Keeping!Has

\* One step per action: a place is left only where another has the login.
LEMMA CustodyGoesOn == NoneMissing /\ [Keeping!Next]_(Keeping!vars) => NoneMissing'
<1> SUFFICES ASSUME NoneMissing, [Keeping!Next]_(Keeping!vars) PROVE NoneMissing'
  OBVIOUS
<1>n. Nobody \notin Accounts BY NobodyAssumption
<1> USE DEF NoneMissing, Keeping!NoneLost, Keeping!Has
<1>1. ASSUME NEW a \in Accounts, Keeping!Keep(a) PROVE NoneMissing'
  BY <1>1 DEF Keeping!Keep
<1>2. ASSUME NEW a \in Accounts, Keeping!PutIn(a) PROVE NoneMissing'
  BY <1>n, <1>2 DEF Keeping!PutIn
<1>3. CASE Keeping!Empty
  BY <1>n, <1>3 DEF Keeping!Empty
<1>4. CASE Keeping!LetGo
  BY <1>4 DEF Keeping!LetGo, Keeping!Sheds
<1>5. ASSUME NEW a \in Accounts, Keeping!Exchange(a) PROVE NoneMissing'
  BY <1>5 DEF Keeping!Exchange
<1>6. ASSUME NEW a \in Accounts, Keeping!Save(a) PROVE NoneMissing'
  BY <1>n, <1>6 DEF Keeping!Save
<1>7. CASE Keeping!SetDown
  BY <1>7 DEF Keeping!SetDown, Keeping!Sheds
<1>8. ASSUME NEW a \in Accounts, Keeping!Forget(a) PROVE NoneMissing'
  BY <1>8 DEF Keeping!Forget
<1>9. CASE Keeping!Elsewhere
  BY <1>9 DEF Keeping!Elsewhere
<1>10. CASE UNCHANGED Keeping!vars
  BY <1>10 DEF Keeping!vars
<1> QED
  BY <1>1, <1>2, <1>3, <1>4, <1>5, <1>6, <1>7, <1>8, <1>9, <1>10 DEF Keeping!Next

\* No sequence of the steps Custody allows, by the engine, its tool or anybody else,
\* loses an enrolled account's login without saying so.
THEOREM NoneIsLost == Keeping!Spec => []Keeping!NoneLost
<1>1. NoneMissing => Keeping!NoneLost
  BY DEF NoneMissing
<1> QED BY CustodyBegins, CustodyGoesOn, <1>1, PTL DEF Keeping!Spec

\* So the engine loses no login of an account it answers for, but says so: under the
\* conditions of SwitchImplementsCustody.
THEOREM SwitchLosesNone == Reliable => (Spec => []Keeping!NoneLost)
<1> QED BY SwitchImplementsCustody, NoneIsLost, PTL DEF Custodied

=============================================================================
