---------------------------- MODULE SwitchProofs ----------------------------
(***************************************************************************)
(* What TLAPS proves of Switch for any number of accounts, logins, names,  *)
(* crashes and failures, whichever tool and whichever operations fail:     *)
(*   TypeCorrect        Spec => []TypeOK                                   *)
(*   ParksAreTrue       Spec => []ParksTrue                                *)
(*   InUseIsTrue        Spec => []InUseTrue                                *)
(*   EveryItemAccounted Spec => []Accounted                                *)
(*   LocksGuardTheSlot  Spec => WritesOverWhatItRead                       *)
(*   TwinlessHolds      Spec => [](Moving => Twinless)                     *)
(*   NoLoginIsTwice     Spec => []NoTwinAtRest                             *)
(*                                                                         *)
(* The first three are parts of one inductive invariant, Inv, that says    *)
(* what each step of a run knows of what it read.  Accounted needs Inv and *)
(* that what a run may yet save accounts for every item too (Found).  The  *)
(* locks need Inv and who holds the tool's (Locked).  The last two are for *)
(* a tool without locks and while nothing has failed: Twinless says where  *)
(* a copy of the login signed in may be parked in the middle of a change.  *)
(***************************************************************************)
EXTENDS Switch, TLAPS

-----------------------------------------------------------------------------
(* The inductive invariant. *)

\* A park is its account's by name and by login, was reserved, and is what the
\* vault has under its name, where it still has anything.
ParkOK(a, p, v, c) ==
  /\ p \in Parks /\ p.name[1] = a /\ p.name[2] <= c /\ Account(p.login) = a
  /\ v[p.name] \in {p.login, NoLogin}

IndexTrue(ix, v, c) ==
  /\ ix \in Indexes
  /\ \A a \in Accounts : ix.parked[a] # NoPark => ParkOK(a, ix.parked[a], v, c)
  /\ ix.inUse.owner = Account(ix.inUse.login)

WorldOK ==
  /\ live \in Logins \cup {NoLogin, Torn}
  /\ usable \subseteq Logins /\ issued \in [Accounts -> 0 .. MaxLogins]
  /\ sess \in [sent : Logins \cup {NoLogin}, fresh : Logins \cup {NoLogin}]
  /\ toolLock \in {"free", "session", "pitboard"}
  /\ taken \subseteq Accounts

BudgetsOK ==
  /\ crashes \in 0 .. MaxCrashes /\ faults \in 0 .. MaxFaults /\ outside \in 0 .. MaxOutside

\* An item holds a login of the account it is named for.
VaultTrue ==
  /\ vault \in [Names -> Logins \cup {NoLogin}]
  /\ \A n \in Names : vault[n] # NoLogin => Account(vault[n]) = n[1]

ListTrue == clock \in 1 .. MaxNames /\ listed \subseteq Names /\ \A n \in listed : n[2] <= clock

\* A journal names two accounts, a login parked for the one going in and, but for
\* a login replaced without being parked, a name reserved for the one going out.
JournalTrue(j, c) ==
  /\ j \in Journals
  /\ j # NoJournal =>
       /\ j.to \in Accounts /\ j.from # j.to /\ j.incoming \in Names
       /\ j.toLogin \in Logins /\ Account(j.toLogin) = j.to
       /\ j.park # NoName => j.park[1] = j.from /\ j.park[2] <= c

\* Nothing the run or the disk has recorded is under the name it reserved.
Unused == ~References(index, run.park) /\ ~References(mem, run.park)

Changing == {"prove", "lock", "ready", "reserve", "journal", "parkStore", "parkRecord",
             "reread", "install", "holds", "record"}

Asking == {"ask", "renewReserve", "renewStore", "renewRecord", "renewLost"}

\* Before a change knows what is signed in.
Early ==
  \/ pc \in {"reconcile", "repair", "clearRepaired", "sweep", "sweepSave", "sweepList", "twins",
             "dropTwins", "identify"}
  \/ pc \in {"purge", "purgeSave"} /\ run.next = "entry"

\* What a run does it does for an account, and what goes out is another's.
Bound ==
  /\ run.cmd \in {"switch", "replace", "forget"} => run.to \in Accounts
  /\ pc \in {"identify", "forget"} \cup Changing => run.to \in Accounts
  /\ pc \in Asking /\ run.cmd # "renew" => run.to \in Accounts
  /\ pc \in Changing \/ (pc \in Asking /\ run.cmd # "renew") =>
       /\ run.seen # Torn
       /\ run.going = "out" =>
            run.out \in Accounts /\ run.out # run.to /\ Account(run.seen) = run.out

\* Each login asked about was parked; the answers are kept apart, and none is left
\* when the run goes on.
Asked ==
  /\ pc \notin Asking => run.refused = {} /\ \A a \in Accounts : run.fresh[a] = NoLogin
  /\ pc \in Asking =>
       \A a \in Accounts :
         /\ run.fresh[a] # NoLogin => /\ mem.parked[a] # NoPark /\ Account(run.fresh[a]) = a
                                      /\ a \notin run.refused /\ a \notin run.due
         /\ a \in run.refused => mem.parked[a] # NoPark /\ a \notin run.due
         /\ run.cmd # "renew" /\ a # run.to =>
              run.fresh[a] = NoLogin /\ a \notin run.refused /\ a \notin run.due
  /\ pc \in Asking \ {"ask"} => run.who \in Accounts /\ run.fresh[run.who] # NoLogin

\* The login going in, its park, and the name the one going out is parked under.
Reserved ==
  /\ pc \in {"forget", "prove", "lock", "ready", "reserve"} \/ Early => run.park = NoName
  /\ pc \in Changing \ {"prove"} => run.inc \in Parks /\ Account(run.inc.login) = run.to
  /\ pc \in {"renewStore", "renewRecord"} =>
       run.park \in Names /\ run.park[1] = run.who /\ run.park[2] <= clock
  /\ pc \in {"reserve", "parkStore", "parkRecord", "reread"} => run.going = "out"
  /\ pc \in {"reserve", "journal", "parkStore", "parkRecord", "reread", "install"}
       /\ run.going = "out" => run.before \in Logins /\ Account(run.before) = run.out
  /\ pc \in {"journal", "parkStore", "parkRecord", "reread", "install"} =>
       IF run.going = "out"
       THEN run.park \in Names /\ run.park[1] = run.out /\ run.park[2] <= clock
       ELSE run.park = NoName
  /\ pc \in {"renewStore", "parkStore"} \/ (pc = "journal" /\ run.going = "out") => Unused
  /\ pc = "parkRecord" => vault[run.park] = run.before
  /\ pc = "renewRecord" => vault[run.park] = run.fresh[run.who]

\* What settling goes by: a journal to finish or give up, names to look at.
Settling ==
  /\ pc \in {"repair", "abandon"} => journal # NoJournal
  /\ pc = "repair" => run.seen # Torn
  /\ pc \in {"sweep", "sweepList"} => run.todo \subseteq listed /\ run.keep \subseteq listed

DiskTrue ==
  /\ WorldOK /\ BudgetsOK /\ VaultTrue /\ ListTrue
  /\ IndexTrue(index, vault, clock) /\ JournalTrue(journal, clock)

RunTrue ==
  /\ IndexTrue(mem, vault, clock)
  /\ pc \in Steps /\ run \in Runs /\ Bound /\ Asked /\ Reserved /\ Settling

Inv == DiskTrue /\ RunTrue

\* Accounted, of any index.
AccountedIn(ix) == \A n \in Names : vault[n] # NoLogin => IndexNames(ix, n) \/ n \in listed

\* The saved index accounts for every item, and so does what the run holds and may
\* save; what the list is to lose in a sweep has been named by the index first; a
\* name is on the list before anything is written under it.
Found ==
  /\ AccountedIn(index) /\ AccountedIn(mem)
  /\ pc = "sweep" => \A n \in listed \ (run.todo \cup run.keep) :
                        vault[n] # NoLogin => IndexNames(mem, n)
  /\ pc = "sweepList" => \A n \in listed \ run.keep :
                            vault[n] # NoLogin => IndexNames(index, n) /\ IndexNames(mem, n)
  /\ pc \in {"renewStore", "parkStore"} \/ (pc = "journal" /\ run.going = "out")
       => run.park \in listed

\* A change that has read the slot and has yet to write over it.
Writing == {"reserve", "journal", "parkStore", "parkRecord", "reread", "install"}

\* From the moment the slot is read under the tool's lock to the write over it.
Locked ==
  Locking =>
    /\ sess # NoRenewal => toolLock = "session"
    /\ pc \in Writing \cup {"ready", "holds", "record"} => toolLock = "pitboard"
    /\ pc \in Writing => live \in {run.before, NoLogin}

-----------------------------------------------------------------------------
(* The index's operations (state.rs) keep it true, and keep every name. *)

\* Nobody has no name and no login.
LEMMA NobodyNamed == NoName \notin Names /\ NoLogin \notin Logins /\ Torn \notin Logins
BY NobodyAssumption DEF NoName, Names, NoLogin, Logins, Torn

\* A name recorded or listed in one index is recorded or listed in the other.
KeepsNames(ix, iy) == \A n \in Names : IndexNames(ix, n) => IndexNames(iy, n)

\* An item discarded is no longer anybody's, and is listed for deletion.
LEMMA DiscardFits ==
  ASSUME NEW ix, NEW v, NEW c, NEW n \in Names, IndexTrue(ix, v, c)
  PROVE  /\ IndexTrue(Discard(ix, n), v, c)
         /\ \A a \in Accounts : Discard(ix, n).parked[a] =
              IF ix.parked[a].name = n THEN NoPark ELSE ix.parked[a]
         /\ KeepsNames(ix, Discard(ix, n)) /\ IndexNames(Discard(ix, n), n)
         /\ Discard(ix, n).enrolled = ix.enrolled
BY NobodyNamed DEF IndexTrue, Indexes, ParkOK, Parks, NoPark, Discard, LetGo, KeepsNames,
                   IndexNames, References

\* Parking for an account names the new item and discards the one it replaces.
LEMMA ParkForFits ==
  ASSUME NEW ix, NEW v, NEW c, NEW a \in Accounts, NEW p,
         IndexTrue(ix, v, c), ParkOK(a, p, v, c)
  PROVE  /\ IndexTrue(ParkFor(ix, a, p), v, c)
         /\ KeepsNames(ix, ParkFor(ix, a, p))
         /\ a \in ix.enrolled => IndexNames(ParkFor(ix, a, p), p.name)
         /\ \A b \in Accounts \ {a} : ParkFor(ix, a, p).parked[b] = ix.parked[b]
         /\ ParkFor(ix, a, p).enrolled = ix.enrolled
<1> DEFINE with == [ix EXCEPT !.parked[a] = p]
<1> DEFINE old == ix.parked[a].name
<1>1. CASE a \notin ix.enrolled
  BY <1>1 DEF ParkFor, KeepsNames
<1>2. CASE a \in ix.enrolled
  <2>1. /\ with \in Indexes /\ IndexTrue(with, v, c) /\ with.enrolled = ix.enrolled
        /\ with.parked[a] = p /\ \A b \in Accounts \ {a} : with.parked[b] = ix.parked[b]
        /\ with.discarded = ix.discarded
    BY DEF IndexTrue, Indexes, ParkOK
  <2>2. References(with, p.name)
    BY <2>1 DEF References
  <2>3. \A n \in Names : n # old => (IndexNames(ix, n) => IndexNames(with, n))
    BY <2>1 DEF IndexNames, References
  <2>4. CASE old \in {NoName, p.name}
    <3>1. ParkFor(ix, a, p) = with
      BY <1>2, <2>4 DEF ParkFor
    <3>2. KeepsNames(ix, with)
      BY <2>2, <2>3, <2>4, NobodyNamed DEF KeepsNames, IndexNames
    <3> QED BY <2>1, <2>2, <3>1, <3>2 DEF IndexNames
  <2>5. CASE old \notin {NoName, p.name}
    <3>1. ParkFor(ix, a, p) = Discard(with, old)
      BY <1>2, <2>5 DEF ParkFor
    <3>2. old \in Names /\ ix.parked[a] # NoPark /\ old[1] = a
      BY <2>5 DEF IndexTrue, Indexes, ParkOK, Parks, NoPark
    <3>3. \A b \in Accounts \ {a} : with.parked[b].name # old
      BY <2>1, <2>5, <3>2 DEF IndexTrue, ParkOK, NoPark
    <3>4. KeepsNames(ix, Discard(with, old))
      BY <2>1, <2>3, <3>2, DiscardFits DEF KeepsNames
    <3>5. IndexNames(Discard(with, old), p.name)
      BY <2>1, <2>2, <3>2, DiscardFits DEF KeepsNames, IndexNames, ParkOK, Parks
    <3> HIDE DEF with, old
    <3>6. /\ IndexTrue(Discard(with, old), v, c)
          /\ Discard(with, old).enrolled = ix.enrolled
          /\ \A b \in Accounts \ {a} : Discard(with, old).parked[b] = ix.parked[b]
      BY <2>1, <3>2, <3>3, DiscardFits
    <3> QED BY <3>1, <3>4, <3>5, <3>6
  <2> QED BY <2>4, <2>5
<1> QED BY <1>1, <1>2

\* And leaves every other account's park where it is.
LEMMA ParkForOthers ==
  ASSUME NEW ix, NEW v, NEW c, NEW a \in Accounts, NEW p, NEW b \in Accounts \ {a},
         IndexTrue(ix, v, c), ParkOK(a, p, v, c)
  PROVE  ParkFor(ix, a, p).parked[b] = ix.parked[b]
<1>1. ix.parked[a].name # NoName => ix.parked[a].name[1] = a
  BY DEF IndexTrue, ParkOK, NoPark
<1>2. ix.parked[b].name # NoName => ix.parked[b].name[1] = b
  BY DEF IndexTrue, ParkOK, NoPark
<1> QED BY <1>1, <1>2 DEF ParkFor, Discard, LetGo, IndexTrue, Indexes

\* A login found in the slot is recorded with whose it is.
LEMMA IdentifiedFits ==
  ASSUME NEW ix, NEW v, NEW c, NEW l \in Logins \cup {NoLogin}, IndexTrue(ix, v, c)
  PROVE  /\ IndexTrue(Identified(ix, l), v, c) /\ KeepsNames(ix, Identified(ix, l))
         /\ Identified(ix, l).parked = ix.parked
BY DEF IndexTrue, Indexes, Identified, Account, Logins, NoLogin, KeepsNames, IndexNames,
       References

\* An account forgotten leaves its park listed for deletion.
LEMMA RemovedFits ==
  ASSUME NEW ix, NEW v, NEW c, NEW a \in Accounts, IndexTrue(ix, v, c)
  PROVE  IndexTrue(Removed(ix, a), v, c) /\ KeepsNames(ix, Removed(ix, a))
<1> DEFINE without == [ix EXCEPT !.enrolled = @ \ {a}]
<1>1. IndexTrue(without, v, c) /\ without.parked = ix.parked /\ KeepsNames(ix, without)
  BY DEF IndexTrue, Indexes, KeepsNames, IndexNames, References
<1>2. CASE ix.parked[a] = NoPark
  BY <1>1, <1>2 DEF Removed
<1>3. CASE ix.parked[a] # NoPark
  <2>1. ix.parked[a].name \in Names
    BY <1>3 DEF IndexTrue, ParkOK, Parks
  <2>2. Removed(ix, a) = Discard(without, ix.parked[a].name)
    BY <1>3 DEF Removed
  <2> HIDE DEF without
  <2>3. /\ IndexTrue(Discard(without, ix.parked[a].name), v, c)
        /\ KeepsNames(without, Discard(without, ix.parked[a].name))
    BY <1>1, <2>1, DiscardFits
  <2> QED BY <1>1, <2>2, <2>3 DEF KeepsNames
<1> QED BY <1>2, <1>3

\* The parks dropped for the login signed in are all listed for deletion.
LEMMA DiscardAllFits ==
  ASSUME NEW ix, NEW v, NEW c, NEW ns \in SUBSET Names, IndexTrue(ix, v, c)
  PROVE  IndexTrue(DiscardAll(ix, ns), v, c) /\ KeepsNames(ix, DiscardAll(ix, ns))
BY DEF IndexTrue, Indexes, DiscardAll, KeepsNames, IndexNames, References

\* What is true of an index stays true when items it does not offer are written,
\* items are deleted, and the clock moves on.
LEMMA StoreFits ==
  ASSUME NEW ix, NEW v, NEW w, NEW c \in Nat, NEW d \in Nat, c <= d, IndexTrue(ix, v, c),
         \A n \in Names : References(ix, n) => w[n] \in {v[n], NoLogin}
  PROVE  IndexTrue(ix, w, d)
<1>1. ASSUME NEW a \in Accounts, ix.parked[a] # NoPark
      PROVE  ParkOK(a, ix.parked[a], w, d)
  <2>1. ParkOK(a, ix.parked[a], v, c)
    BY <1>1 DEF IndexTrue
  <2>2. ix.parked[a].name \in Names /\ References(ix, ix.parked[a].name)
    BY <2>1 DEF ParkOK, Parks, References
  <2>3. ix.parked[a].name[2] \in Nat
    BY <2>2, SwitchBounds DEF Names
  <2> QED BY <2>1, <2>2, <2>3 DEF ParkOK
<1> QED BY <1>1 DEF IndexTrue

\* The journal's operation, given up or finished, keeps the index true.
LEMMA RepairedFits ==
  ASSUME NEW ix, NEW l \in Logins \cup {NoLogin}, IndexTrue(ix, vault, clock), VaultTrue,
         JournalTrue(journal, clock), journal # NoJournal
  PROVE  LET iy == Repaired(ix, journal, OwnerOf(journal, l), l)
         IN  IndexTrue(iy, vault, clock) /\ KeepsNames(ix, iy)
<1> DEFINE owner == OwnerOf(journal, l)
<1> DEFINE parked == IF Replaces(journal) THEN NoLogin ELSE vault[journal.park]
<1> DEFINE offered == [name |-> journal.park, login |-> parked]
<1> DEFINE first == IF parked = NoLogin THEN ix
                    ELSE IF owner = journal.from THEN Discard(ix, journal.park)
                    ELSE IF References(ix, journal.park) THEN ix
                    ELSE IF journal.from \in ix.enrolled
                         THEN ParkFor(ix, journal.from, offered)
                    ELSE Discard(ix, journal.park)
<1> DEFINE second == [first EXCEPT !.inUse = [owner |-> journal.to, login |-> l]]
<1> DEFINE third == [first EXCEPT !.inUse = [owner |-> Nobody, login |-> NoLogin]]
<1>1. parked # NoLogin => /\ journal.park \in Names /\ ParkOK(journal.from, offered, vault, clock)
                          /\ journal.from \in Accounts
  BY NobodyNamed DEF JournalTrue, Journals, Replaces, VaultTrue, ParkOK, Parks, Names
<1>2. IndexTrue(first, vault, clock) /\ KeepsNames(ix, first)
  BY <1>1, DiscardFits, ParkForFits DEF KeepsNames
<1>3. owner = journal.to => l \in Logins /\ Account(l) = journal.to
  BY NobodyAssumption DEF OwnerOf, JournalTrue, Account, NoLogin, Logins
<1>4. Repaired(ix, journal, owner, l) =
        IF owner # journal.to THEN first
        ELSE IF journal.to \in ix.enrolled THEN Discard(second, journal.incoming)
        ELSE third
  BY DEF Repaired
<1> HIDE DEF first
<1>5. owner = journal.to => IndexTrue(second, vault, clock) /\ KeepsNames(first, second)
  BY <1>2, <1>3 DEF IndexTrue, Indexes, KeepsNames, IndexNames, References, JournalTrue
<1>6. IndexTrue(third, vault, clock) /\ KeepsNames(first, third)
  BY <1>2 DEF IndexTrue, Indexes, KeepsNames, IndexNames, References, Account, NoLogin
<1> HIDE DEF second, third
<1>7. journal.incoming \in Names
  BY DEF JournalTrue
<1>8. owner = journal.to => /\ IndexTrue(Discard(second, journal.incoming), vault, clock)
                            /\ KeepsNames(second, Discard(second, journal.incoming))
  BY <1>5, <1>7, DiscardFits
<1> QED BY <1>2, <1>4, <1>5, <1>6, <1>8 DEF KeepsNames

\* What giving up an interrupted switch decides is a true index, whatever of it was read.
LEMMA GivenUpFits ==
  ASSUME NEW ix, IndexTrue(ix, vault, clock), VaultTrue,
         JournalTrue(journal, clock), journal # NoJournal,
         NEW parked \in {NoLogin, IF Replaces(journal) THEN NoLogin ELSE vault[journal.park]},
         NEW incoming, NEW slot
  PROVE  /\ IndexTrue(GivenUp(ix, journal, parked, incoming, slot), vault, clock)
         /\ KeepsNames(ix, GivenUp(ix, journal, parked, incoming, slot))
<1> DEFINE offered == [name |-> journal.park, login |-> parked]
<1> DEFINE first == IF LiveTwin(parked, slot) THEN Discard(ix, journal.park)
                    ELSE IF parked # NoLogin THEN ParkFor(ix, journal.from, offered)
                    ELSE ix
<1>1. parked # NoLogin => /\ journal.park \in Names /\ ParkOK(journal.from, offered, vault, clock)
                          /\ journal.from \in Accounts
  <2>1. parked # NoLogin => ~Replaces(journal) /\ parked = vault[journal.park]
    OBVIOUS
  <2> QED BY <2>1, NobodyNamed DEF JournalTrue, Journals, Replaces, VaultTrue, ParkOK, Parks, Names
<1>2. LiveTwin(parked, slot) => parked # NoLogin
  BY NobodyNamed DEF LiveTwin
<1>3. IndexTrue(first, vault, clock) /\ KeepsNames(ix, first)
  <2>1. CASE LiveTwin(parked, slot)
    BY <1>1, <1>2, <2>1, DiscardFits
  <2>2. CASE ~LiveTwin(parked, slot) /\ parked # NoLogin
    <3>1. /\ IndexTrue(ParkFor(ix, journal.from, offered), vault, clock)
          /\ KeepsNames(ix, ParkFor(ix, journal.from, offered))
      BY <1>1, <2>2, ParkForFits
    <3> QED BY <2>2, <3>1
  <2>3. CASE ~LiveTwin(parked, slot) /\ parked = NoLogin
    BY <2>3 DEF KeepsNames
  <2> QED BY <2>1, <2>2, <2>3
<1>4. GivenUp(ix, journal, parked, incoming, slot) =
        IF LiveTwin(incoming, slot) THEN Discard(first, journal.incoming) ELSE first
  BY DEF GivenUp
<1> HIDE DEF first
<1>5. journal.incoming \in Names
  BY DEF JournalTrue
<1>6. /\ IndexTrue(Discard(first, journal.incoming), vault, clock)
      /\ KeepsNames(first, Discard(first, journal.incoming))
  BY <1>3, <1>5, DiscardFits
<1> QED BY <1>3, <1>4, <1>6 DEF KeepsNames

-----------------------------------------------------------------------------
(* Inv is inductive.  First what many steps share. *)

\* A process that is not running holds nothing.
LEMMA NoRunIsRun == NoRun \in Runs
BY DEF NoRun, Runs, NoLogin, NoName, NoPark, Commands

\* A run that is over leaves nothing behind but what it wrote.
LEMMA EndsFits ==
  ASSUME DiskTrue', Ends
  PROVE  Inv'
<1>1. IndexTrue(mem', vault', clock')
  BY DEF DiskTrue, Ends
<1>2. pc' = "idle" /\ run' = NoRun /\ run' \in Runs
  BY NoRunIsRun DEF Ends
<1>3. Bound' /\ Asked' /\ Reserved' /\ Settling' /\ pc' \in Steps
  BY <1>2 DEF Bound, Asked, Reserved, Early, Settling, NoRun, Changing, Asking, Steps
<1> QED BY <1>1, <1>2, <1>3 DEF Inv, RunTrue

\* An early return keeps the invariant.
LEMMA RefusesFits ==
  ASSUME Inv, Refuses
  PROVE  Inv'
<1>1. toolLock' \in {"free", "session", "pitboard"}
  BY DEF Inv, DiskTrue, WorldOK, Refuses, Ends
<1>2. DiskTrue'
  BY <1>1 DEF Inv, DiskTrue, WorldOK, BudgetsOK, VaultTrue, ListTrue, Refuses, disk, service,
              budgets
<1> QED BY <1>2, EndsFits DEF Refuses

\* A failure spends no more than its bound.
LEMMA FaultFits ==
  ASSUME BudgetsOK, NEW op, Fault(op) \/ NoFault, UNCHANGED <<crashes, outside>>
  PROVE  BudgetsOK'
BY SwitchBounds DEF BudgetsOK, Fault, NoFault

\* An operation that fails and ends the run keeps the invariant.
LEMMA BreaksFits ==
  ASSUME Inv, NEW op, Breaks(op)
  PROVE  Inv'
<1>1. toolLock' \in {"free", "session", "pitboard"}
  BY DEF Inv, DiskTrue, WorldOK, Breaks, Ends
<1>2. BudgetsOK'
  BY FaultFits DEF Inv, DiskTrue, Breaks
<1>3. DiskTrue'
  BY <1>1, <1>2 DEF Inv, DiskTrue, WorldOK, VaultTrue, ListTrue, Breaks, disk, service
<1> QED BY <1>3, EndsFits DEF Breaks

\* The initial states satisfy the invariant.
LEMMA InitFits == Init => Inv
<1> SUFFICES ASSUME Init PROVE Inv
  OBVIOUS
<1>1. PICK signedIn \in Accounts, others \in SUBSET Accounts :
        /\ signedIn \notin others
        /\ index = [enrolled |-> others \cup {signedIn},
                    parked |-> [a \in Accounts |->
                       IF a \in others THEN [name |-> <<a, 1>>, login |-> <<a, 1>>] ELSE NoPark],
                    discarded |-> {},
                    inUse |-> [owner |-> signedIn, login |-> <<signedIn, 1>>]]
        /\ vault = [n \in Names |-> IF \E a \in others : n = <<a, 1>> THEN <<n[1], 1>> ELSE NoLogin]
        /\ live = <<signedIn, 1>>
  BY DEF Init
<1>2. /\ journal = NoJournal /\ listed = {} /\ clock = 1
      /\ issued = [a \in Accounts |-> IF a \in index.enrolled THEN 1 ELSE 0]
      /\ usable = {<<a, 1>> : a \in index.enrolled}
      /\ sess = NoRenewal /\ toolLock = "free"
      /\ pc = "idle" /\ mem = index /\ run = NoRun
      /\ taken = {} /\ crashes = 0 /\ faults = 0 /\ outside = 0
  BY DEF Init
<1>3. \A a \in Accounts : <<a, 1>> \in Names /\ <<a, 1>> \in Logins
  BY SwitchBounds DEF Names, Logins
<1>4. WorldOK /\ BudgetsOK /\ ListTrue
  BY <1>1, <1>2, <1>3, SwitchBounds DEF WorldOK, BudgetsOK, ListTrue, NoRenewal
<1>5. VaultTrue
  BY <1>1, <1>3 DEF VaultTrue, Account
<1>6. IndexTrue(index, vault, clock)
  <2>1. index \in Indexes
    BY <1>1, <1>3 DEF Indexes, Parks
  <2>2. ASSUME NEW a \in Accounts, index.parked[a] # NoPark
        PROVE  ParkOK(a, index.parked[a], vault, clock)
    BY <1>1, <1>2, <1>3, <2>2 DEF ParkOK, Parks, Account
  <2> QED BY <1>1, <2>1, <2>2 DEF IndexTrue, Account
<1>7. JournalTrue(journal, clock)
  BY <1>2 DEF JournalTrue, NoJournal, Journals
<1>8. RunTrue
  BY <1>2, <1>6, NoRunIsRun DEF RunTrue, Bound, Asked, Reserved, Early, Settling, NoRun, Changing,
                                Asking, Steps
<1> QED BY <1>4, <1>5, <1>6, <1>7, <1>8 DEF Inv, DiskTrue

\* Starting a command keeps the invariant.
LEMMA StartFits ==
  ASSUME Inv, NEW cmd \in Commands, NEW a \in Accounts \cup {Nobody}, Start(cmd, a)
  PROVE  Inv'
<1>1. DiskTrue'
  BY DEF Inv, DiskTrue, WorldOK, BudgetsOK, VaultTrue, ListTrue, Start, Goes, disk, service, budgets
<1>2. IndexTrue(mem', vault', clock')
  BY DEF Inv, DiskTrue, Start, disk
<1>3. run' = [NoRun EXCEPT !.cmd = cmd, !.to = a] /\ run' \in Runs
  BY NoRunIsRun DEF Start, Runs
<1>4. cmd \in {"switch", "replace", "forget"} => a \in Accounts
  BY DEF Start, Inv, DiskTrue, IndexTrue, Indexes
<1>5. pc' \in {"twins", "abandon", "reconcile"} /\ (pc' = "abandon" => journal' # NoJournal)
  BY DEF Start, Goes, disk
<1>6. Bound' /\ Asked' /\ Reserved' /\ Settling' /\ pc' \in Steps
  BY <1>3, <1>4, <1>5 DEF Bound, Asked, Reserved, Early, Settling, NoRun, Changing, Asking, Steps
<1> QED BY <1>1, <1>2, <1>3, <1>6 DEF Inv, RunTrue

\* A run killed anywhere keeps the invariant.
LEMMA CrashFits ==
  ASSUME Inv, Crash
  PROVE  Inv'
<1>1. WorldOK' /\ BudgetsOK'
  BY SwitchBounds DEF Inv, DiskTrue, WorldOK, BudgetsOK, Crash, Ends, service
<1>2. DiskTrue'
  BY <1>1 DEF Inv, DiskTrue, VaultTrue, ListTrue, Crash
<1> QED BY <1>2, EndsFits DEF Crash

-----------------------------------------------------------------------------
(* The tool, the person and the service touch the slot and the tokens only. *)

\* What a step outside the process leaves of it.
LEMMA OutsideFits ==
  ASSUME Inv, WorldOK', BudgetsOK',
         UNCHANGED <<vault, index, journal, listed, clock, process>>
  PROVE  Inv'
BY DEF Inv, DiskTrue, RunTrue, VaultTrue, ListTrue, Bound, Asked, Reserved, Early, Settling, Unused,
       process

\* A login the service issues is the account's.
LEMMA FreshFits ==
  ASSUME WorldOK, NEW a \in Accounts, Issues(a)
  PROVE  Fresh(a) \in Logins /\ Account(Fresh(a)) = a
           /\ issued' \in [Accounts -> 0 .. MaxLogins]
BY SwitchBounds DEF WorldOK, Issues, Fresh, Logins, Account

\* The tool, the person and the service keep the invariant.
LEMMA WorldFits ==
  ASSUME Inv, World
  PROVE  Inv'
<1> USE DEF Inv, DiskTrue
<1>1. CASE SessionSends
  <2>1. Account(live) \in Accounts /\ live \in Logins
    BY <1>1 DEF SessionSends, WorldOK, Account, Logins
  <2>2. Fresh(Account(live)) \in Logins /\ issued' \in [Accounts -> 0 .. MaxLogins]
    BY <1>1, <2>1, FreshFits DEF SessionSends
  <2>3. WorldOK'
    BY <1>1, <2>1, <2>2 DEF SessionSends, WorldOK, disk
  <2> QED BY <1>1, <2>3, OutsideFits DEF SessionSends, disk, budgets, BudgetsOK
<1>2. CASE SessionSaves
  <2>1. WorldOK'
    BY <1>2 DEF SessionSaves, Spoils, Ended, WorldOK, NoRenewal
  <2> QED BY <1>2, <2>1, OutsideFits DEF SessionSaves, budgets, BudgetsOK
<1>3. CASE LogOut
  <2>1. WorldOK' /\ BudgetsOK'
    BY <1>3, SwitchBounds DEF LogOut, WorldOK, Outside, Revoked, Ended, Backed, BudgetsOK
  <2> QED BY <1>3, <2>1, OutsideFits DEF LogOut
<1>4. ASSUME NEW a \in Accounts, OutsideSignIn(a) PROVE Inv'
  <2>1. Fresh(a) \in Logins /\ issued' \in [Accounts -> 0 .. MaxLogins]
    BY <1>4, FreshFits DEF OutsideSignIn
  <2>2. WorldOK' /\ BudgetsOK'
    BY <1>4, <2>1, SwitchBounds DEF OutsideSignIn, WorldOK, Outside, Revoked, Ended, BudgetsOK
  <2> QED BY <1>4, <2>2, OutsideFits DEF OutsideSignIn
<1>5. ASSUME NEW l \in Logins, ServiceRefuses(l) PROVE Inv'
  <2>1. WorldOK' /\ BudgetsOK'
    BY <1>5, SwitchBounds DEF ServiceRefuses, WorldOK, Outside, Ended, BudgetsOK, disk
  <2> QED BY <1>5, <2>1, OutsideFits DEF ServiceRefuses, disk
<1> QED BY <1>1, <1>2, <1>3, <1>4, <1>5 DEF World

-----------------------------------------------------------------------------
(* Settling. *)

\* A step from settling to settling leaves what the run is for as it was.
LEMMA EarlyFits ==
  ASSUME RunTrue, Early, Early', pc' \in Steps, run' \in Runs, Settling',
         run'.cmd = run.cmd, run'.to = run.to, run'.park = run.park,
         run'.refused = run.refused, run'.fresh = run.fresh,
         pc' = "identify" => run.cmd \in {"switch", "replace", "forget"},
         IndexTrue(mem, vault, clock)'
  PROVE  RunTrue'
<1>1. pc \notin Asking /\ pc' \notin Asking /\ pc' \notin Changing /\ pc' # "forget"
  BY DEF Early, Asking, Changing
<1>2. run.park = NoName /\ run.refused = {} /\ \A a \in Accounts : run.fresh[a] = NoLogin
  BY <1>1 DEF RunTrue, Reserved, Asked
<1>3. Asked' /\ Reserved'
  BY <1>1, <1>2 DEF Asked, Reserved, Early, Changing, Asking
<1>4. Bound'
  BY <1>1 DEF RunTrue, Bound, Early
<1> QED BY <1>3, <1>4 DEF RunTrue

\* Reading an interrupted switch's journal and slot keeps the invariant.
LEMMA ReconcileFits ==
  ASSUME Inv, ReconcileNothing \/ ReconcileTorn \/ ReconcileRead \/ Undetermined
  PROVE  Inv'
<1> USE DEF Inv, DiskTrue
<1>1. CASE ReconcileNothing
  <2>1. DiskTrue' /\ IndexTrue(mem, vault, clock)'
    BY <1>1 DEF ReconcileNothing, ToSweep, Goes, disk, service, budgets, RunTrue, WorldOK,
                BudgetsOK, VaultTrue, ListTrue
  <2>2. RunTrue'
    BY <1>1, <2>1, EarlyFits DEF ReconcileNothing, ToSweep, Goes, RunTrue, Runs, Early, Settling,
                                 Steps, disk, ListTrue
  <2> QED BY <2>1, <2>2
<1>2. CASE ReconcileTorn
  <2>1. vault[journal.incoming] \in Logins
    BY <1>2 DEF ReconcileTorn, JournalTrue, VaultTrue
  <2>2. DiskTrue' /\ IndexTrue(mem, vault, clock)'
    BY <1>2, <2>1 DEF ReconcileTorn, Goes, service, RunTrue, WorldOK, budgets, BudgetsOK,
                      VaultTrue, ListTrue
  <2>3. RunTrue'
    BY <1>2, <2>2, EarlyFits DEF ReconcileTorn, Goes, RunTrue, Early, Settling, Steps
  <2> QED BY <2>2, <2>3
<1>3. CASE ReconcileRead
  <2>1. live # Torn
    BY <1>3, NobodyNamed DEF ReconcileRead, Tells, JournalTrue, Journals, NoLogin, Torn
  <2>2. DiskTrue' /\ IndexTrue(mem, vault, clock)'
    BY <1>3 DEF ReconcileRead, Goes, disk, service, RunTrue, WorldOK, budgets, BudgetsOK,
                VaultTrue, ListTrue
  <2>3. RunTrue'
    BY <1>3, <2>1, <2>2, EarlyFits DEF ReconcileRead, Goes, RunTrue, Runs, Early, Settling,
                                       Steps, disk, WorldOK
  <2> QED BY <2>2, <2>3
<1>4. CASE Undetermined
  BY <1>4, BreaksFits, RefusesFits DEF Undetermined
<1> QED BY <1>1, <1>2, <1>3, <1>4

\* Finishing or undoing an interrupted switch keeps the invariant.
LEMMA RepairFits ==
  ASSUME Inv, Repair \/ ClearRepaired
  PROVE  Inv'
<1> USE DEF Inv, DiskTrue
<1>1. CASE Repair
  <2>1. CASE Breaks("save")
    BY <2>1, BreaksFits
  <2>2. CASE ~Breaks("save")
    <3> DEFINE new == Repaired(mem, journal, OwnerOf(journal, run.seen), run.seen)
    <3>1. journal # NoJournal /\ run.seen \in Logins \cup {NoLogin}
      BY <1>1 DEF Repair, RunTrue, Settling, Runs
    <3>2. IndexTrue(new, vault, clock)
      BY <3>1, RepairedFits DEF RunTrue
    <3>3. /\ index' = new /\ mem' = new /\ NoFault /\ Goes("clearRepaired")
          /\ UNCHANGED <<live, vault, journal, listed, clock, service, run, taken, crashes, outside>>
      BY <1>1, <2>2 DEF Repair, Saves
    <3> HIDE DEF new
    <3>4. DiskTrue' /\ IndexTrue(mem, vault, clock)'
      BY <3>2, <3>3 DEF Goes, NoFault, service, WorldOK, BudgetsOK, VaultTrue, ListTrue
    <3>5. RunTrue'
      BY <1>1, <3>3, <3>4, EarlyFits DEF Repair, Goes, RunTrue, Early, Settling, Steps
    <3> QED BY <3>4, <3>5
  <2> QED BY <2>1, <2>2
<1>2. CASE ClearRepaired
  <2>1. BudgetsOK' /\ JournalTrue(journal, clock)'
    BY <1>2, FaultFits DEF ClearRepaired, ClearJournal, JournalTrue, NoJournal, Journals
  <2>2. DiskTrue' /\ IndexTrue(mem, vault, clock)'
    BY <1>2, <2>1 DEF ClearRepaired, ToSweep, Goes, service, RunTrue, WorldOK, VaultTrue, ListTrue
  <2>3. RunTrue'
    BY <1>2, <2>2, EarlyFits DEF ClearRepaired, ToSweep, Goes, RunTrue, Runs, Early, Settling,
                                 Steps, ListTrue
  <2> QED BY <2>2, <2>3
<1> QED BY <1>1, <1>2

\* Resolving the names written down keeps the invariant.
LEMMA SweepFits ==
  ASSUME Inv, SweepSave \/ SweepList \/ \E n \in Names : Sweep(n)
  PROVE  Inv'
<1> USE DEF Inv, DiskTrue
<1>1. ASSUME NEW n \in Names, Sweep(n) PROVE Inv'
  <2>1. n \in listed
    BY <1>1 DEF Sweep, Earliest, RunTrue, Settling
  <2>2. BudgetsOK'
    BY <1>1, FaultFits DEF Sweep, TwinRead
  <2>3. DiskTrue'
    BY <1>1, <2>2 DEF Sweep, Goes, disk, service, WorldOK, VaultTrue, ListTrue
  <2>4. vault[n] # NoLogin /\ n[1] \in Accounts
          => ParkOK(n[1], [name |-> n, login |-> vault[n]], vault, clock)
    BY <2>1 DEF VaultTrue, ListTrue, ParkOK, Parks
  <2>5. n[1] \in Accounts
    BY DEF Names
  <2> DEFINE back == [name |-> n, login |-> vault[n]]
  <2>6. IndexTrue(mem', vault, clock)
    <3>1. IndexTrue(Discard(mem, n), vault, clock)
      BY DiscardFits DEF RunTrue
    <3>2. vault[n] # NoLogin => IndexTrue(ParkFor(mem, n[1], back), vault, clock)
      BY <2>4, <2>5, ParkForFits DEF RunTrue
    <3> QED BY <1>1, <3>1, <3>2 DEF Sweep, RunTrue
  <2>7. /\ pc = "sweep" /\ pc' = "sweep" /\ UNCHANGED <<index, vault, clock, listed, journal>>
        /\ run' = [run EXCEPT !.todo = @ \ {n}]
             \/ run' = [run EXCEPT !.todo = @ \ {n}, !.keep = @ \cup {n}]
    BY <1>1 DEF Sweep, Goes, disk
  <2>8. run' \in Runs /\ run'.todo \subseteq listed /\ run'.keep \subseteq listed
        /\ run'.cmd = run.cmd /\ run'.to = run.to
    <3>1. run.todo \subseteq listed /\ run.keep \subseteq listed /\ run \in Runs
      BY <2>7 DEF RunTrue, Settling
    <3>2. CASE run' = [run EXCEPT !.todo = @ \ {n}]
      BY <3>1, <3>2 DEF Runs
    <3>3. CASE run' = [run EXCEPT !.todo = @ \ {n}, !.keep = @ \cup {n}]
      BY <2>1, <3>1, <3>3 DEF Runs
    <3> QED BY <2>7, <3>2, <3>3
  <2>9. RunTrue'
    <3>1. /\ run'.park = run.park /\ run'.refused = run.refused /\ run'.fresh = run.fresh
      BY <2>7 DEF RunTrue, Runs
    <3> QED BY <2>6, <2>7, <2>8, <3>1, EarlyFits DEF RunTrue, Early, Settling, Steps
  <2> QED BY <2>3, <2>9
<1>2. CASE SweepSave
  <2>1. CASE Breaks("save")
    BY <2>1, BreaksFits
  <2>2. CASE ~Breaks("save")
    <3>1. DiskTrue' /\ IndexTrue(mem, vault, clock)'
      BY <1>2, <2>2 DEF SweepSave, Saves, Goes, NoFault, service, RunTrue, WorldOK, BudgetsOK,
                        VaultTrue, ListTrue
    <3>2. RunTrue'
      BY <1>2, <2>2, <3>1, EarlyFits DEF SweepSave, Goes, RunTrue, Early, Settling, Steps
    <3> QED BY <3>1, <3>2
  <2> QED BY <2>1, <2>2
<1>3. CASE SweepList
  <2>1. CASE Breaks("list")
    BY <2>1, BreaksFits
  <2>2. CASE ~Breaks("list")
    <3>1. run.keep \subseteq listed
      BY <1>3 DEF SweepList, RunTrue, Settling
    <3>2. DiskTrue' /\ IndexTrue(mem, vault, clock)'
      BY <1>3, <2>2, <3>1 DEF SweepList, Goes, NoFault, service, RunTrue, WorldOK, BudgetsOK,
                              VaultTrue, ListTrue
    <3>3. RunTrue'
      BY <1>3, <2>2, <3>2, EarlyFits DEF SweepList, Goes, RunTrue, Early, Settling, Steps
    <3> QED BY <3>2, <3>3
  <2> QED BY <2>1, <2>2
<1> QED BY <1>1, <1>2, <1>3

\* Looking for copies of the login signed in, and dropping them, keeps the invariant.
LEMMA TwinsFits ==
  ASSUME Inv, FindTwins \/ NothingDue \/ DropTwins
  PROVE  Inv'
<1> USE DEF Inv, DiskTrue
<1>1. CASE FindTwins \/ NothingDue
  <2>1. BudgetsOK'
    BY <1>1, FaultFits DEF FindTwins, NothingDue, budgets, BudgetsOK
  <2>2. DiskTrue' /\ IndexTrue(mem, vault, clock)'
    BY <1>1, <2>1 DEF FindTwins, NothingDue, Goes, disk, service, RunTrue, WorldOK, VaultTrue,
                      ListTrue
  <2>3. run' \in Runs /\ pc = "twins" /\ pc' \in {"dropTwins", "purge"}
        /\ UNCHANGED <<mem, index, vault, clock, listed, journal>>
        /\ \E seen \in Logins \cup {NoLogin, Torn}, next \in {"entry", "idle"} :
              run' = [run EXCEPT !.seen = seen, !.next = next]
    <3>1. CASE FindTwins
      <4>1. PICK seen \in {live, NoLogin} : run' = [run EXCEPT !.seen = seen, !.next = "entry"]
        BY <3>1 DEF FindTwins
      <4>2. run \in Runs /\ seen \in Logins \cup {NoLogin, Torn}
        BY DEF RunTrue, WorldOK
      <4>3. run' \in Runs
        BY <4>1, <4>2 DEF Runs
      <4> QED BY <3>1, <4>1, <4>2, <4>3 DEF FindTwins, Goes, disk
    <3>2. CASE NothingDue
      <4>1. run \in Runs /\ run' = [run EXCEPT !.seen = run.seen, !.next = "idle"]
        BY <3>2 DEF NothingDue, RunTrue, Runs
      <4> QED BY <3>2, <4>1 DEF NothingDue, Goes, disk, Runs
    <3> QED BY <1>1, <3>1, <3>2
  <2>4. /\ run'.cmd = run.cmd /\ run'.to = run.to /\ run'.park = run.park
        /\ run'.refused = run.refused /\ run'.fresh = run.fresh /\ run'.due = run.due
    BY <2>3 DEF RunTrue, Runs
  <2>5. Asked' /\ Bound' /\ Reserved' /\ Settling'
    BY <2>3, <2>4 DEF Asked, Bound, Reserved, Early, Settling, Changing, Asking, RunTrue
  <2> QED BY <2>2, <2>3, <2>5 DEF RunTrue, Steps
<1>2. CASE DropTwins
  <2> DEFINE dropped == DiscardAll(mem, Twins(mem, run.seen))
  <2> DEFINE renews == run.cmd = "renew"
  <2>1. IndexTrue(dropped, vault, clock)
    BY DiscardAllFits DEF Twins, RunTrue
  <2> HIDE DEF dropped
  <2>2. CASE Breaks("save")
    BY <2>2, BreaksFits
  <2>3. CASE ~Breaks("save")
    <3>1. /\ pc = "dropTwins"
          /\ Saves(dropped) \/ (mem' = dropped /\ SaveFails)
          /\ UNCHANGED <<live, vault, journal, listed, clock, service, taken, crashes, outside>>
          /\ Goes(IF renews THEN "ask" ELSE "purge")
      BY <1>2, <2>3 DEF DropTwins, dropped
    <3>2. PICK due \in SUBSET Accounts : run' = [run EXCEPT !.due = due, !.seen = NoLogin]
      BY <1>2, <2>3 DEF DropTwins
    <3>3. (~renews => due = {}) /\ run \in Runs /\ run' \in Runs
      <4>1. run \in Runs /\ run' \in Runs
        BY <3>2 DEF RunTrue, Runs
      <4> QED BY <1>2, <2>3, <3>2, <4>1 DEF DropTwins, Runs
    <3>4. BudgetsOK'
      BY <3>1, FaultFits DEF Saves, SaveFails
    <3>5. DiskTrue' /\ IndexTrue(mem, vault, clock)'
      BY <2>1, <3>1, <3>4 DEF Saves, SaveFails, Goes, service, WorldOK, VaultTrue, ListTrue
    <3>6. CASE renews
      <4>1. /\ pc' = "ask" /\ run'.cmd = "renew" /\ run'.to = run.to /\ run'.fresh = run.fresh
            /\ run'.refused = run.refused
        BY <3>1, <3>2, <3>3, <3>6 DEF Goes, Runs
      <4>2. Asked' /\ Bound' /\ Reserved' /\ Settling'
        BY <3>1, <4>1 DEF Asked, Bound, Reserved, Early, Settling, Changing, Asking, RunTrue
      <4> QED BY <3>3, <3>5, <4>1, <4>2 DEF RunTrue, Steps
    <3>7. CASE ~renews
      <4>1. pc' = "purge" /\ pc' # "identify" /\ Settling'
        BY <3>1, <3>7 DEF Goes, Settling
      <4>2. /\ run'.cmd = run.cmd /\ run'.to = run.to /\ run'.park = run.park
            /\ run'.refused = run.refused /\ run'.fresh = run.fresh /\ run'.next = run.next
        BY <3>2, <3>3 DEF Runs
      <4>3. Asked' /\ Bound' /\ Reserved' /\ Settling'
        BY <3>1, <4>1, <4>2 DEF Asked, Bound, Reserved, Early, Settling, Changing, Asking, RunTrue
      <4> QED BY <3>3, <3>5, <4>1, <4>3 DEF RunTrue, Steps
    <3> QED BY <3>5, <3>6, <3>7
  <2> QED BY <2>2, <2>3
<1> QED BY <1>1, <1>2

\* What a purge comes before: the run goes on, or is over.
LEMMA AfterPurgeFits ==
  ASSUME Inv, NEW ix, pc \in {"purge", "purgeSave"}, AfterPurge(ix),
         IndexTrue(ix, vault', clock), IndexTrue(index', vault', clock), VaultTrue', BudgetsOK',
         UNCHANGED <<live, journal, listed, clock, service, taken>>
  PROVE  Inv'
<1> USE DEF Inv, DiskTrue
<1>1. CASE Ends
  <2>1. DiskTrue'
    BY <1>1 DEF Ends, WorldOK, ListTrue, service
  <2> QED BY <1>1, <2>1, EndsFits
<1>2. CASE run.next = "clear" /\ ~Ends
  <2>1. pc' = "clear" /\ mem' = ix /\ UNCHANGED <<run, toolLock>>
    BY <1>2 DEF AfterPurge, Goes
  <2>2. DiskTrue'
    BY <2>1 DEF WorldOK, ListTrue, service
  <2>3. Bound' /\ Asked' /\ Reserved' /\ Settling'
    BY <2>1 DEF RunTrue, Bound, Asked, Reserved, Early, Settling, Changing, Asking
  <2> QED BY <2>1, <2>2, <2>3 DEF RunTrue, Steps
<1>3. CASE run.next # "clear" /\ ~Ends
  <2>1. /\ run.next = "entry" /\ run.cmd \in {"switch", "replace", "forget"}
        /\ pc' = "identify" /\ mem' = ix /\ run' = [run EXCEPT !.next = "idle"]
        /\ UNCHANGED toolLock
    BY <1>3 DEF AfterPurge, Goes
  <2>2. DiskTrue'
    BY <2>1 DEF WorldOK, ListTrue, service
  <2>3. Settling' /\ run' \in Runs
    BY <2>1 DEF RunTrue, Runs, Settling
  <2> QED BY <2>1, <2>2, <2>3, EarlyFits DEF RunTrue, Runs, Early, Steps
<1> QED BY <1>1, <1>2, <1>3

\* Deleting what is listed, and recording that, keeps the invariant.
LEMMA PurgeFits ==
  ASSUME Inv, Purge \/ PurgeSave
  PROVE  Inv'
<1> USE DEF Inv, DiskTrue
<1>1. CASE Purge
  <2>1. PICK kept \in SUBSET mem.discarded :
          /\ IF kept = {} THEN NoFault ELSE Fault("write")
          /\ vault' = [n \in Names |-> IF n \in mem.discarded \ kept THEN NoLogin ELSE vault[n]]
          /\ IF [mem EXCEPT !.discarded = kept] = mem THEN AfterPurge(mem)
             ELSE mem' = [mem EXCEPT !.discarded = kept] /\ Goes("purgeSave") /\ UNCHANGED run
    BY <1>1 DEF Purge
  <2>2. UNCHANGED <<live, index, journal, listed, clock, service, taken>> /\ pc = "purge"
    BY <1>1 DEF Purge
  <2>3. BudgetsOK'
    BY <1>1, <2>1, FaultFits DEF Purge
  <2>4. VaultTrue' /\ \A n \in Names : vault'[n] \in {vault[n], NoLogin}
    BY <2>1 DEF VaultTrue
  <2>5. clock \in Nat
    BY DEF ListTrue
  <2>6. IndexTrue(mem, vault', clock) /\ IndexTrue(index, vault', clock)
    BY <2>4, <2>5, StoreFits DEF RunTrue
  <2>7. CASE AfterPurge(mem)
    BY <2>2, <2>3, <2>4, <2>6, <2>7, AfterPurgeFits
  <2>8. CASE ~AfterPurge(mem)
    <3>1. mem' = [mem EXCEPT !.discarded = kept] /\ pc' = "purgeSave" /\ UNCHANGED <<run, toolLock>>
      BY <2>1, <2>8 DEF Goes
    <3>2. IndexTrue(mem', vault', clock')
      BY <2>1, <2>2, <2>6, <3>1 DEF IndexTrue, Indexes
    <3>3. DiskTrue'
      BY <2>2, <2>3, <2>4, <2>6, <3>1 DEF WorldOK, ListTrue, service
    <3>4. Bound' /\ Asked' /\ Reserved' /\ Settling'
      BY <2>2, <3>1 DEF RunTrue, Bound, Asked, Reserved, Early, Settling, Changing, Asking
    <3> QED BY <3>1, <3>2, <3>3, <3>4 DEF RunTrue, Steps
  <2> QED BY <2>7, <2>8
<1>2. CASE PurgeSave
  <2>1. BudgetsOK'
    BY <1>2, FaultFits DEF PurgeSave, SaveFails
  <2>2. IndexTrue(mem, vault', clock) /\ IndexTrue(index', vault', clock) /\ VaultTrue'
    BY <1>2 DEF PurgeSave, SaveFails, RunTrue, VaultTrue
  <2> QED BY <1>2, <2>1, <2>2, AfterPurgeFits DEF PurgeSave
<1> QED BY <1>1, <1>2

-----------------------------------------------------------------------------
(* Whose the login is, and what is proved of the one going in. *)

\* A change begins with what it has identified: no name reserved, no answer yet.
LEMMA ChangeBegins ==
  ASSUME RunTrue, pc = "identify", pc' \in {"forget", "prove"}, run' \in Runs,
         IndexTrue(mem, vault, clock)',
         run'.cmd = run.cmd, run'.to = run.to, run'.park = run.park,
         run'.refused = run.refused, run'.fresh = run.fresh,
         pc' = "prove" => /\ run'.seen # Torn
                          /\ run'.going = "out" => /\ run'.out \in Accounts /\ run'.out # run.to
                                                   /\ Account(run'.seen) = run'.out
  PROVE  RunTrue'
<1>1. Bound'
  BY DEF RunTrue, Bound, Asking, Changing
<1>2. Asked'
  BY DEF RunTrue, Asked, Asking
<1>3. Reserved' /\ Settling'
  BY DEF RunTrue, Reserved, Early, Settling, Changing
<1> QED BY <1>1, <1>2, <1>3 DEF RunTrue, Steps

\* Telling and recording whose login is signed in keeps the invariant.
LEMMA IdentifyFits ==
  ASSUME Inv, Identify
  PROVE  Inv'
<1> USE DEF Inv, DiskTrue
<1> DEFINE found == Identified(mem, live)
<1> DEFINE inUse == Account(live) = run.to
<1> DEFINE forgets == run.cmd = "forget"
<1>1. live \in Logins \cup {NoLogin} /\ live # Torn
  BY NobodyNamed DEF Identify, Told, NoLogin, Torn
<1>2. IndexTrue(found, vault, clock)
  BY <1>1, IdentifiedFits DEF RunTrue
<1> HIDE DEF found
<1>3. /\ pc = "identify"
      /\ UNCHANGED <<live, vault, journal, listed, clock, service, taken, crashes, outside>>
      /\ (index' = found /\ NoFault) \/ SaveFails
  BY DEF Identify, found
<1>4. BudgetsOK' /\ VaultTrue' /\ ListTrue' /\ JournalTrue(journal, clock)'
        /\ IndexTrue(index, vault, clock)'
  <2>1. BudgetsOK'
    BY <1>3, FaultFits DEF SaveFails
  <2> QED BY <1>2, <1>3, <2>1 DEF SaveFails, VaultTrue, ListTrue
<1>5. CASE Ends
  <2>1. DiskTrue'
    BY <1>3, <1>4, <1>5 DEF Ends, WorldOK, service
  <2> QED BY <1>5, <2>1, EndsFits
<1>6. CASE ~Ends
  <2>1. mem' = found /\ UNCHANGED toolLock
    BY <1>6 DEF Identify, Goes, found
  <2>2. DiskTrue' /\ IndexTrue(mem, vault, clock)'
    BY <1>2, <1>3, <1>4, <2>1 DEF WorldOK, service
  <2>3. CASE pc' = "forget" /\ UNCHANGED run
    BY <1>3, <2>2, <2>3, ChangeBegins DEF RunTrue
  <2>4. CASE ~(pc' = "forget" /\ UNCHANGED run)
    <3>1. /\ pc' \in {"forget", "prove"} /\ ~inUse
          /\ run' = [run EXCEPT !.seen = live, !.out = Account(live),
                        !.going = IF live = NoLogin THEN "nothing" ELSE "out"]
      BY <1>6, <2>4 DEF Identify, Goes
    <3>2. Account(live) \in Accounts \cup {Nobody} /\ (live # NoLogin => Account(live) \in Accounts)
      BY <1>1 DEF Logins, NoLogin, Account
    <3>3. /\ run' \in Runs /\ run'.cmd = run.cmd /\ run'.to = run.to /\ run'.park = run.park
          /\ run'.refused = run.refused /\ run'.fresh = run.fresh
          /\ run'.seen = live /\ run'.out = Account(live)
          /\ run'.going = IF live = NoLogin THEN "nothing" ELSE "out"
      <4> DEFINE going == IF live = NoLogin THEN "nothing" ELSE "out"
      <4>1. going \in {"out", "nothing", "refused"} /\ run \in Runs
        BY DEF RunTrue
      <4>2. run' = [run EXCEPT !.seen = live, !.out = Account(live), !.going = going]
        BY <3>1
      <4> HIDE DEF going
      <4>3. /\ run' \in Runs /\ run'.cmd = run.cmd /\ run'.to = run.to /\ run'.park = run.park
            /\ run'.refused = run.refused /\ run'.fresh = run.fresh
            /\ run'.seen = live /\ run'.out = Account(live) /\ run'.going = going
        BY <1>1, <3>2, <4>1, <4>2 DEF Runs
      <4> QED BY <4>3 DEF going
    <3> QED BY <1>1, <1>3, <2>2, <3>1, <3>2, <3>3, ChangeBegins
  <2> QED BY <2>3, <2>4
<1> QED BY <1>5, <1>6

\* Not telling whose it is keeps the invariant.
LEMMA IdentifyOtherwiseFits ==
  ASSUME Inv, IdentifyFails \/ IdentifyRefused
  PROVE  Inv'
<1> USE DEF Inv, DiskTrue
<1>1. CASE Refuses
  BY <1>1, RefusesFits
<1>2. CASE IdentifyFails /\ ~Refuses
  <2>1. /\ pc = "identify" /\ pc' = "forget"
        /\ UNCHANGED <<disk, service, toolLock, mem, run, taken, budgets>>
    BY <1>2 DEF IdentifyFails, Goes
  <2>2. DiskTrue' /\ IndexTrue(mem, vault, clock)'
    BY <2>1 DEF RunTrue, disk, service, budgets, WorldOK, BudgetsOK, VaultTrue, ListTrue
  <2> QED BY <2>1, <2>2, ChangeBegins DEF RunTrue
<1>3. CASE IdentifyRefused
  <2>1. /\ pc = "identify" /\ pc' = "prove" /\ live \in Logins
        /\ run' = [run EXCEPT !.seen = live, !.going = "refused"]
        /\ UNCHANGED <<disk, service, toolLock, mem, taken, budgets>>
    BY <1>3 DEF IdentifyRefused, Goes
  <2>2. DiskTrue' /\ IndexTrue(mem, vault, clock)'
    BY <2>1 DEF RunTrue, disk, service, budgets, WorldOK, BudgetsOK, VaultTrue, ListTrue
  <2>3. /\ run' \in Runs /\ run'.cmd = run.cmd /\ run'.to = run.to /\ run'.park = run.park
        /\ run'.refused = run.refused /\ run'.fresh = run.fresh
        /\ run'.seen # Torn /\ run'.going = "refused"
    BY <2>1, NobodyNamed DEF RunTrue, Runs
  <2> QED BY <2>1, <2>2, <2>3, ChangeBegins
<1> QED BY <1>1, <1>2, <1>3

\* Forgetting an account keeps the invariant.
LEMMA ForgetFits ==
  ASSUME Inv, Forget
  PROVE  Inv'
<1> USE DEF Inv, DiskTrue
<1>1. CASE Breaks("save")
  BY <1>1, BreaksFits
<1>2. CASE ~Breaks("save")
  <2> DEFINE without == Removed(mem, run.to)
  <2>1. IndexTrue(without, vault, clock)
    BY RemovedFits DEF Forget, RunTrue, Bound
  <2> HIDE DEF without
  <2>2. /\ pc = "forget" /\ pc' = "purge" /\ index' = without /\ mem' = without
        /\ UNCHANGED <<live, vault, journal, listed, clock, service, toolLock, run, taken,
                       crashes, faults, outside>>
    BY <1>2 DEF Forget, Saves, Goes, NoFault, without
  <2>3. DiskTrue' /\ IndexTrue(mem, vault, clock)'
    BY <2>1, <2>2 DEF service, WorldOK, BudgetsOK, VaultTrue, ListTrue
  <2>4. Bound' /\ Asked' /\ Reserved' /\ Settling'
    BY <2>2 DEF RunTrue, Bound, Asked, Reserved, Early, Settling, Changing, Asking
  <2> QED BY <2>2, <2>3, <2>4 DEF RunTrue, Steps
<1> QED BY <1>1, <1>2

\* Proving the login going in keeps the invariant.
LEMMA ProveFits ==
  ASSUME Inv, Prove \/ NotProved
  PROVE  Inv'
<1> USE DEF Inv, DiskTrue
<1>1. CASE NotProved
  BY <1>1, RefusesFits DEF NotProved
<1>2. CASE Prove
  <2>1. /\ pc = "prove" /\ mem.parked[run.to] # NoPark
        /\ UNCHANGED <<disk, service, toolLock, mem, taken, budgets>>
        /\ \/ run' = [run EXCEPT !.inc = mem.parked[run.to]] /\ pc' = "lock"
           \/ run' = [run EXCEPT !.due = {run.to}] /\ pc' = "ask"
    BY <1>2 DEF Prove, Loads, Goes
  <2>2. DiskTrue' /\ IndexTrue(mem, vault, clock)'
    BY <2>1 DEF RunTrue, disk, service, budgets, WorldOK, BudgetsOK, VaultTrue, ListTrue
  <2>3. run.to \in Accounts /\ mem.parked[run.to] \in Parks
          /\ Account(mem.parked[run.to].login) = run.to
    BY <2>1 DEF RunTrue, Bound, Changing, IndexTrue, ParkOK
  <2>4. /\ run' \in Runs /\ run'.cmd = run.cmd /\ run'.to = run.to /\ run'.park = run.park
        /\ run'.refused = run.refused /\ run'.fresh = run.fresh
        /\ run'.seen = run.seen /\ run'.out = run.out /\ run'.going = run.going
    BY <2>1, <2>3 DEF RunTrue, Runs
  <2>5. Bound' /\ Settling'
    BY <2>1, <2>4 DEF RunTrue, Bound, Settling, Changing, Asking
  <2>6. CASE pc' = "lock"
    <3>1. run'.inc = mem.parked[run.to]
      BY <2>1, <2>6 DEF RunTrue, Runs
    <3>2. Asked' /\ Reserved'
      BY <2>1, <2>3, <2>4, <2>6, <3>1 DEF RunTrue, Asked, Reserved, Early, Changing, Asking
    <3> QED BY <2>2, <2>4, <2>5, <2>6, <3>2 DEF RunTrue, Steps
  <2>7. CASE pc' = "ask"
    <3>1. run'.due = {run.to}
      BY <2>1, <2>7 DEF RunTrue, Runs
    <3>2. Asked' /\ Reserved'
      BY <2>1, <2>3, <2>4, <2>7, <3>1 DEF RunTrue, Asked, Reserved, Early, Changing, Asking
    <3> QED BY <2>2, <2>4, <2>5, <2>7, <3>2 DEF RunTrue, Steps
  <2> QED BY <2>1, <2>6, <2>7
<1> QED BY <1>1, <1>2

-----------------------------------------------------------------------------
(* The renewal of parked logins. *)

\* A name reserved is the account's, is written down, and nothing is under it.
LEMMA ReservesFits ==
  ASSUME Inv, NEW a \in Accounts, Reserves(a), UNCHANGED toolLock
  PROVE  /\ DiskTrue' /\ IndexTrue(mem, vault, clock)'
         /\ run'.park \in Names /\ run'.park[1] = a /\ run'.park[2] <= clock' /\ Unused'
         /\ run'.park \in listed' /\ run' = [run EXCEPT !.park = run'.park] /\ run' \in Runs
<1> USE DEF Inv, DiskTrue
<1>1. clock \in 1 .. MaxNames /\ clock < MaxNames /\ clock' = clock + 1 /\ MaxNames \in Nat
  BY SwitchBounds DEF Reserves, ListTrue
<1> DEFINE n == <<a, clock + 1>>
<1>2. n \in Names /\ n[1] = a /\ n[2] = clock' /\ clock' \in 1 .. MaxNames
  BY <1>1 DEF Names
<1>3. run' = [run EXCEPT !.park = n] /\ listed' = listed \cup {n}
        /\ UNCHANGED <<live, vault, index, journal, service, mem, taken, crashes, faults, outside>>
  BY DEF Reserves, NoFault
<1> HIDE DEF n
<1>4. run' \in Runs /\ run'.park = n
  BY <1>2, <1>3 DEF RunTrue, Runs
<1>5. ListTrue'
  <2>1. \A m \in listed : m[2] \in Nat
    BY DEF ListTrue, Names
  <2> QED BY <1>1, <1>2, <1>3, <2>1 DEF ListTrue
<1>6. clock \in Nat /\ clock' \in Nat /\ clock <= clock'
  BY <1>1
<1>7. IndexTrue(mem, vault, clock') /\ IndexTrue(index, vault, clock')
  BY <1>6, StoreFits DEF RunTrue, VaultTrue
<1>8. JournalTrue(journal, clock')
  <2>1. journal.park \in Names => journal.park[2] \in Nat
    BY DEF Names
  <2>2. journal.park # NoName => journal.park \in Names
    BY DEF JournalTrue, Journals
  <2> QED BY <1>6, <2>1, <2>2 DEF JournalTrue
<1>9. DiskTrue'
  BY <1>3, <1>5, <1>7, <1>8 DEF WorldOK, BudgetsOK, VaultTrue, service
<1>10. Unused'
  <2>1. ASSUME NEW ix, IndexTrue(ix, vault, clock), References(ix, n) PROVE FALSE
    <3>1. PICK b \in Accounts : ix.parked[b].name = n
      BY <2>1 DEF References
    <3>2. ix.parked[b] # NoPark
      BY <1>2, <3>1, NobodyNamed DEF NoPark
    <3>3. n[2] <= clock
      BY <2>1, <3>1, <3>2 DEF IndexTrue, ParkOK
    <3> QED BY <1>1, <1>2, <3>3
  <2> QED BY <1>3, <1>4, <2>1 DEF Unused, RunTrue
<1> QED BY <1>2, <1>3, <1>4, <1>5, <1>7, <1>9, <1>10, <1>1

\* Where no name can be reserved no bound is overrun.
LEMMA CannotReserveFits ==
  ASSUME BudgetsOK, CannotReserve, UNCHANGED <<crashes, outside>>
  PROVE  BudgetsOK'
BY FaultFits DEF CannotReserve

\* One answer of the service keeps the invariant.
LEMMA AskFits ==
  ASSUME Inv, NEW a \in Accounts, Ask(a)
  PROVE  Inv'
<1> USE DEF Inv, DiskTrue
<1>1. /\ pc = "ask" /\ pc' = "ask" /\ a \in run.due
      /\ UNCHANGED <<disk, sess, toolLock, mem, taken, budgets>>
  BY DEF Ask
<1>2. usable' \subseteq Logins /\ issued' \in [Accounts -> 0 .. MaxLogins]
  BY FreshFits DEF Ask, WorldOK
<1>3. DiskTrue' /\ IndexTrue(mem, vault, clock)'
  BY <1>1, <1>2 DEF disk, budgets, RunTrue, WorldOK, BudgetsOK, VaultTrue, ListTrue
<1>4. /\ run' \in Runs /\ run'.cmd = run.cmd /\ run'.to = run.to /\ run'.park = run.park
      /\ run'.seen = run.seen /\ run'.out = run.out /\ run'.going = run.going
      /\ run'.due = run.due \ {a}
      /\ \/ /\ mem.parked[a] # NoPark /\ run'.refused = run.refused
            /\ run'.fresh = [run.fresh EXCEPT ![a] = Fresh(a)] /\ Account(Fresh(a)) = a
         \/ /\ mem.parked[a] # NoPark /\ run'.refused = run.refused \cup {a}
            /\ run'.fresh = run.fresh
         \/ run'.refused = run.refused /\ run'.fresh = run.fresh
  <2>1. CASE /\ Loads(a) /\ mem.parked[a].login \in usable /\ Issues(a)
             /\ run' = [run EXCEPT !.due = @ \ {a}, !.fresh[a] = Fresh(a)]
    BY <2>1, FreshFits DEF Loads, RunTrue, Runs
  <2>2. CASE Loads(a) /\ run' = [run EXCEPT !.due = @ \ {a}, !.refused = @ \cup {a}]
    BY <2>2 DEF Loads, RunTrue, Runs
  <2>3. CASE run' = [run EXCEPT !.due = @ \ {a}]
    BY <2>3 DEF RunTrue, Runs
  <2> QED BY <2>1, <2>2, <2>3 DEF Ask
<1>5. Asked'
  BY <1>1, <1>4 DEF RunTrue, Runs, Asked, Asking
<1>6. Bound' /\ Reserved' /\ Settling'
  BY <1>1, <1>4 DEF RunTrue, Bound, Reserved, Early, Settling, Changing, Asking
<1> QED BY <1>1, <1>3, <1>4, <1>5, <1>6 DEF RunTrue, Steps

\* Dropping one account's park leaves every other's where it is.
LEMMA DropOneFits ==
  ASSUME Inv, NEW a \in Accounts, mem.parked[a] # NoPark
  PROVE  LET without == Discard(mem, mem.parked[a].name)
         IN  /\ IndexTrue(without, vault, clock) /\ mem.parked[a].name \in Names
             /\ KeepsNames(mem, without)
             /\ \A b \in Accounts \ {a} : without.parked[b] = mem.parked[b]
<1>1. mem.parked[a].name \in Names /\ mem.parked[a].name[1] = a /\ IndexTrue(mem, vault, clock)
  BY DEF Inv, RunTrue, IndexTrue, ParkOK, Parks
<1>2. \A b \in Accounts \ {a} : mem.parked[b].name # mem.parked[a].name
  BY <1>1, NobodyNamed DEF IndexTrue, ParkOK, NoPark
<1> DEFINE n == mem.parked[a].name
<1>3. n \in Names /\ \A b \in Accounts \ {a} : mem.parked[b].name # n
  BY <1>1, <1>2
<1> HIDE DEF n
<1>4. IndexTrue(Discard(mem, n), vault, clock) /\ KeepsNames(mem, Discard(mem, n))
  BY <1>1, <1>3, DiscardFits
<1>5. \A b \in Accounts : Discard(mem, n).parked[b] =
                            IF mem.parked[b].name = n THEN NoPark ELSE mem.parked[b]
  BY <1>1 DEF Discard, LetGo, IndexTrue, Indexes
<1>6. \A b \in Accounts \ {a} : Discard(mem, n).parked[b] = mem.parked[b]
  BY <1>3, <1>5
<1> QED BY <1>1, <1>4, <1>6 DEF n

\* Dropping a park the service refused keeps the invariant.
LEMMA DropRefusedFits ==
  ASSUME Inv, NEW a \in Accounts, DropRefused(a)
  PROVE  Inv'
<1> USE DEF Inv, DiskTrue
<1> DEFINE without == Discard(mem, mem.parked[a].name)
<1>1. /\ pc = "ask" /\ a \in run.refused /\ mem.parked[a] # NoPark
      /\ UNCHANGED <<live, vault, journal, listed, clock, service, taken, crashes, outside>>
  BY DEF DropRefused, Answered, RunTrue, Asked, Asking
<1>2. IndexTrue(without, vault, clock) /\ \A b \in Accounts \ {a} : without.parked[b] = mem.parked[b]
  BY <1>1, DropOneFits
<1> HIDE DEF without
<1>3. (index' = without /\ NoFault) \/ SaveFails
  BY DEF DropRefused, Saves, without
<1>4. /\ BudgetsOK' /\ VaultTrue' /\ ListTrue' /\ JournalTrue(journal, clock)'
      /\ IndexTrue(index, vault, clock)'
  <2>1. BudgetsOK'
    BY <1>1, <1>3, FaultFits DEF SaveFails
  <2> QED BY <1>1, <1>2, <1>3, <2>1 DEF SaveFails, VaultTrue, ListTrue
<1>5. CASE Ends
  <2>1. DiskTrue'
    BY <1>1, <1>4, <1>5 DEF Ends, WorldOK, service
  <2> QED BY <1>5, <2>1, EndsFits
<1>6. CASE ~Ends
  <2>1. /\ mem' = without /\ pc' = "ask" /\ UNCHANGED toolLock
        /\ run' = [run EXCEPT !.refused = @ \ {a}]
    BY <1>6 DEF DropRefused, Saves, Goes, without
  <2>2. DiskTrue' /\ IndexTrue(mem, vault, clock)'
    BY <1>1, <1>2, <1>4, <2>1 DEF WorldOK, service
  <2>3. /\ run' \in Runs /\ run'.cmd = run.cmd /\ run'.to = run.to /\ run'.park = run.park
        /\ run'.seen = run.seen /\ run'.out = run.out /\ run'.going = run.going
        /\ run'.due = run.due /\ run'.fresh = run.fresh /\ run'.refused = run.refused \ {a}
    BY <2>1 DEF RunTrue, Runs
  <2>4. Asked'
    BY <1>1, <1>2, <2>1, <2>3 DEF RunTrue, Asked, Asking
  <2>5. Bound' /\ Reserved' /\ Settling'
    BY <1>1, <2>1, <2>3 DEF RunTrue, Bound, Reserved, Early, Settling, Changing, Asking
  <2> QED BY <2>1, <2>2, <2>3, <2>4, <2>5 DEF RunTrue, Steps
<1> QED BY <1>5, <1>6

\* Choosing an answer to write, or having none left, keeps the invariant.
LEMMA AnsweredFits ==
  ASSUME Inv, NoMoreAnswers \/ \E a \in Accounts : WriteFresh(a)
  PROVE  Inv'
<1> USE DEF Inv, DiskTrue
<1>1. CASE Refuses
  BY <1>1, RefusesFits
<1>2. CASE NoMoreAnswers /\ ~Refuses
  <2>1. /\ pc = "ask" /\ pc' = "purge" /\ run' = [run EXCEPT !.next = "idle"]
        /\ run.refused = {} /\ \A a \in Accounts : run.fresh[a] = NoLogin
        /\ UNCHANGED <<disk, service, toolLock, mem, taken, budgets>>
    BY <1>2 DEF NoMoreAnswers, Answered, Goes
  <2>2. DiskTrue' /\ IndexTrue(mem, vault, clock)'
    BY <2>1 DEF RunTrue, disk, service, budgets, WorldOK, BudgetsOK, VaultTrue, ListTrue
  <2>3. /\ run' \in Runs /\ run'.cmd = run.cmd /\ run'.to = run.to /\ run'.next = "idle"
        /\ run'.refused = run.refused /\ run'.fresh = run.fresh
    BY <2>1 DEF RunTrue, Runs
  <2>4. Bound' /\ Asked' /\ Reserved' /\ Settling'
    BY <2>1, <2>3 DEF RunTrue, Bound, Asked, Reserved, Early, Settling, Changing, Asking
  <2> QED BY <2>1, <2>2, <2>3, <2>4 DEF RunTrue, Steps
<1>3. ASSUME NEW a \in Accounts, WriteFresh(a) PROVE Inv'
  <2>1. /\ pc = "ask" /\ pc' = "renewReserve" /\ run.fresh[a] # NoLogin
        /\ run' = [run EXCEPT !.who = a, !.second = FALSE]
        /\ UNCHANGED <<disk, service, toolLock, mem, taken, budgets>>
    BY <1>3 DEF WriteFresh, Answered, Goes
  <2>2. DiskTrue' /\ IndexTrue(mem, vault, clock)'
    BY <2>1 DEF RunTrue, disk, service, budgets, WorldOK, BudgetsOK, VaultTrue, ListTrue
  <2>3. /\ run' \in Runs /\ run'.cmd = run.cmd /\ run'.to = run.to /\ run'.who = a
        /\ run'.refused = run.refused /\ run'.fresh = run.fresh /\ run'.due = run.due
        /\ run'.seen = run.seen /\ run'.out = run.out /\ run'.going = run.going
    BY <2>1 DEF RunTrue, Runs
  <2>4. Bound' /\ Asked' /\ Reserved' /\ Settling'
    BY <2>1, <2>3 DEF RunTrue, Bound, Asked, Reserved, Early, Settling, Changing, Asking
  <2> QED BY <2>1, <2>2, <2>3, <2>4 DEF RunTrue, Steps
<1> QED BY <1>1, <1>2, <1>3

\* Trying the answer again, or giving it up, keeps the answer and forgets nothing.
LEMMA TriesAgainFits ==
  ASSUME RunTrue, pc \in Asking \ {"ask"}, TriesAgain, UNCHANGED <<mem, journal>>,
         IndexTrue(mem, vault, clock)'
  PROVE  RunTrue' /\ UNCHANGED toolLock
<1>1. /\ pc' \in {"renewReserve", "renewLost"} /\ UNCHANGED toolLock
      /\ run' = run \/ run' = [run EXCEPT !.second = TRUE]
  BY DEF TriesAgain, Goes
<1>2. /\ run' \in Runs /\ run'.cmd = run.cmd /\ run'.to = run.to /\ run'.who = run.who
      /\ run'.refused = run.refused /\ run'.fresh = run.fresh /\ run'.due = run.due
      /\ run'.seen = run.seen /\ run'.out = run.out /\ run'.going = run.going
  BY <1>1 DEF RunTrue, Runs
<1>3. Bound' /\ Asked' /\ Reserved' /\ Settling'
  BY <1>1, <1>2 DEF RunTrue, Bound, Asked, Reserved, Early, Settling, Changing, Asking
<1> QED BY <1>1, <1>2, <1>3 DEF RunTrue, Steps

\* Reserving a name for an answer keeps the invariant.
LEMMA RenewReserveFits ==
  ASSUME Inv, RenewReserve
  PROVE  Inv'
<1> USE DEF Inv
<1>1. pc = "renewReserve" /\ run.who \in Accounts /\ run.fresh[run.who] # NoLogin
  BY DEF RenewReserve, RunTrue, Asked, Asking
<1>2. CASE Reserves(run.who) /\ Goes("renewStore")
  <2>1. pc' = "renewStore" /\ UNCHANGED <<toolLock, mem>>
    BY <1>2 DEF Goes, Reserves
  <2>2. /\ DiskTrue' /\ IndexTrue(mem, vault, clock)'
        /\ run'.park \in Names /\ run'.park[1] = run.who /\ run'.park[2] <= clock' /\ Unused'
        /\ run' = [run EXCEPT !.park = run'.park] /\ run' \in Runs
    BY <1>1, <1>2, <2>1, ReservesFits
  <2>3. /\ run'.cmd = run.cmd /\ run'.to = run.to /\ run'.who = run.who
        /\ run'.refused = run.refused /\ run'.fresh = run.fresh /\ run'.due = run.due
        /\ run'.seen = run.seen /\ run'.out = run.out /\ run'.going = run.going
    BY <2>2 DEF RunTrue, Runs
  <2>4. Bound' /\ Asked' /\ Reserved' /\ Settling'
    BY <1>1, <2>1, <2>2, <2>3 DEF RunTrue, Bound, Asked, Reserved, Early, Settling, Changing, Asking
  <2> QED BY <2>1, <2>2, <2>4 DEF RunTrue, Steps
<1>3. CASE /\ CannotReserve /\ TriesAgain
           /\ UNCHANGED <<disk, service, mem, taken, crashes, outside>>
  <2>1. BudgetsOK'
    BY <1>3, CannotReserveFits DEF DiskTrue
  <2>2. IndexTrue(mem, vault, clock)'
    BY <1>3 DEF disk, RunTrue
  <2>3. RunTrue' /\ UNCHANGED toolLock
    BY <1>1, <1>3, <2>2, TriesAgainFits DEF Asking, disk
  <2>4. DiskTrue'
    BY <1>3, <2>1, <2>3 DEF DiskTrue, disk, service, WorldOK, VaultTrue, ListTrue
  <2> QED BY <2>3, <2>4
<1> QED BY <1>2, <1>3 DEF RenewReserve

\* An item written under a name reserved and not recorded leaves the rest true.
LEMMA StoringFits ==
  ASSUME Inv, Unused, run.park \in Names, NEW l \in Logins, Account(l) = run.park[1],
         NEW written, written = [vault EXCEPT ![run.park] = l], vault' \in {vault, written},
         UNCHANGED <<index, mem, clock>>
  PROVE  VaultTrue' /\ IndexTrue(index, vault, clock)' /\ IndexTrue(mem, vault, clock)'
<1>1. VaultTrue'
  BY DEF Inv, DiskTrue, VaultTrue
<1>2. clock \in Nat
  BY DEF Inv, DiskTrue, ListTrue
<1>3. \A n \in Names : References(index, n) \/ References(mem, n) => vault'[n] = vault[n]
  BY DEF Inv, DiskTrue, VaultTrue, Unused
<1>4. IndexTrue(index, vault', clock) /\ IndexTrue(mem, vault', clock)
  BY <1>2, <1>3, StoreFits DEF Inv, DiskTrue, RunTrue
<1> QED BY <1>1, <1>4

\* Writing an answer keeps the invariant.
LEMMA RenewStoreFits ==
  ASSUME Inv, RenewStore
  PROVE  Inv'
<1> USE DEF Inv
<1> DEFINE written == [vault EXCEPT ![run.park] = run.fresh[run.who]]
<1>1. /\ pc = "renewStore" /\ run.who \in Accounts /\ run.fresh[run.who] \in Logins
      /\ Account(run.fresh[run.who]) = run.who /\ Unused
      /\ run.park \in Names /\ run.park[1] = run.who /\ run.park[2] <= clock
  BY DEF RenewStore, RunTrue, Runs, Asked, Asking, Reserved
<1>2. /\ vault' \in {vault, written}
      /\ UNCHANGED <<live, index, journal, listed, clock, service, mem, taken, crashes, outside>>
      /\ NoFault \/ Fault("write")
  BY DEF RenewStore
<1>3. VaultTrue' /\ IndexTrue(index, vault, clock)' /\ IndexTrue(mem, vault, clock)' /\ BudgetsOK'
  BY <1>1, <1>2, StoringFits, FaultFits DEF DiskTrue
<1>4. CASE vault' = written /\ NoFault /\ Goes("renewRecord") /\ UNCHANGED run
  <2>1. pc' = "renewRecord" /\ UNCHANGED <<toolLock, run>> /\ vault'[run.park] = run.fresh[run.who]
    BY <1>1, <1>4 DEF Goes, DiskTrue, VaultTrue
  <2>2. DiskTrue'
    BY <1>2, <1>3, <2>1 DEF DiskTrue, service, WorldOK, ListTrue
  <2>3. Bound' /\ Asked' /\ Reserved' /\ Settling'
    BY <1>1, <1>2, <2>1 DEF RunTrue, Bound, Asked, Reserved, Early, Settling, Changing, Asking
  <2> QED BY <1>3, <2>1, <2>2, <2>3 DEF RunTrue, Steps
<1>5. CASE TriesAgain
  <2>1. RunTrue' /\ UNCHANGED toolLock
    BY <1>1, <1>2, <1>3, <1>5, TriesAgainFits DEF Asking
  <2> QED BY <1>2, <1>3, <2>1 DEF DiskTrue, service, WorldOK, ListTrue
<1> QED BY <1>4, <1>5 DEF RenewStore

\* Recording an answer's park keeps the invariant.
LEMMA RenewRecordFits ==
  ASSUME Inv, RenewRecord
  PROVE  Inv'
<1> USE DEF Inv, DiskTrue
<1> DEFINE a == run.who
<1> DEFINE fresh == [name |-> run.park, login |-> run.fresh[a]]
<1> DEFINE without == Discard(mem, mem.parked[a].name)
<1> DEFINE renewed == ParkFor(without, a, fresh)
<1> DEFINE done == [run EXCEPT !.fresh[run.who] = NoLogin, !.park = NoName]
<1>1. /\ pc = "renewRecord" /\ a \in Accounts /\ run.fresh[a] \in Logins
      /\ Account(run.fresh[a]) = a /\ a \notin run.refused /\ a \notin run.due
      /\ mem.parked[a] # NoPark
      /\ run.park \in Names /\ run.park[1] = a /\ run.park[2] <= clock
      /\ vault[run.park] = run.fresh[a]
  BY DEF RenewRecord, RunTrue, Runs, Asked, Asking, Reserved
<1>2. ParkOK(a, fresh, vault, clock) /\ fresh \in Parks /\ Account(fresh.login) = a
  BY <1>1 DEF ParkOK, Parks
<1>3. IndexTrue(renewed, vault, clock) /\ \A b \in Accounts \ {a} : renewed.parked[b] = mem.parked[b]
  <2>1. /\ IndexTrue(without, vault, clock)
        /\ \A b \in Accounts \ {a} : without.parked[b] = mem.parked[b]
    BY <1>1, DropOneFits
  <2> HIDE DEF without, a, fresh
  <2>2. a \in Accounts
    BY <1>1
  <2>3. IndexTrue(renewed, vault, clock)
    BY <1>2, <2>1, <2>2, ParkForFits
  <2>4. ASSUME NEW b \in Accounts \ {a} PROVE renewed.parked[b] = mem.parked[b]
    BY <1>2, <2>1, <2>2, ParkForOthers
  <2> QED BY <2>3, <2>4
<1>4. /\ done \in Runs /\ done.cmd = run.cmd /\ done.to = run.to
      /\ done.refused = run.refused /\ done.due = run.due /\ done.park = NoName
      /\ done.seen = run.seen /\ done.out = run.out /\ done.going = run.going
      /\ done.fresh = [run.fresh EXCEPT ![a] = NoLogin]
  BY <1>1 DEF RunTrue, Runs
<1>5. /\ UNCHANGED <<live, vault, journal, listed, clock, service, taken, crashes, outside>>
      /\ \/ /\ Saves(renewed)
            /\ IF run.cmd = "renew" THEN run' = done /\ Goes("ask")
               ELSE run' = [done EXCEPT !.inc = fresh] /\ Goes("lock")
         \/ /\ SaveFails
            /\ IF run.cmd = "renew" THEN mem' = renewed /\ run' = done /\ Goes("ask") ELSE Ends
  BY DEF RenewRecord
<1> HIDE DEF renewed, done, fresh
<1>6. /\ BudgetsOK' /\ VaultTrue' /\ ListTrue' /\ JournalTrue(journal, clock)'
      /\ IndexTrue(index, vault, clock)'
  <2>1. BudgetsOK'
    BY <1>5, FaultFits DEF Saves, SaveFails
  <2> QED BY <1>3, <1>5, <2>1 DEF Saves, SaveFails, VaultTrue, ListTrue
<1>7. CASE Ends
  <2>1. DiskTrue'
    BY <1>5, <1>6, <1>7 DEF Ends, WorldOK, service
  <2> QED BY <1>7, <2>1, EndsFits
<1>8. CASE mem' = renewed /\ run' = done /\ Goes("ask") /\ run.cmd = "renew"
  <2>1. pc' = "ask" /\ UNCHANGED toolLock
    BY <1>8 DEF Goes
  <2>2. DiskTrue' /\ IndexTrue(mem, vault, clock)'
    BY <1>3, <1>5, <1>6, <1>8, <2>1 DEF WorldOK, service
  <2>3. Asked'
    BY <1>1, <1>3, <1>4, <1>8, <2>1 DEF RunTrue, Runs, Asked, Asking
  <2>4. Bound' /\ Reserved' /\ Settling'
    BY <1>4, <1>5, <1>8, <2>1 DEF RunTrue, Bound, Reserved, Early, Settling, Changing, Asking
  <2> QED BY <1>4, <1>8, <2>1, <2>2, <2>3, <2>4 DEF RunTrue, Steps
<1>9. CASE Saves(renewed) /\ run.cmd # "renew" /\ run' = [done EXCEPT !.inc = fresh] /\ Goes("lock")
  <2>1. pc' = "lock" /\ UNCHANGED toolLock /\ mem' = renewed
    BY <1>9 DEF Goes, Saves
  <2>2. DiskTrue' /\ IndexTrue(mem, vault, clock)'
    BY <1>3, <1>5, <1>6, <2>1 DEF WorldOK, service
  <2>3. /\ run' \in Runs /\ run'.cmd = run.cmd /\ run'.to = run.to /\ run'.inc = fresh
        /\ run'.refused = run.refused /\ run'.park = NoName
        /\ run'.seen = run.seen /\ run'.out = run.out /\ run'.going = run.going
        /\ run'.fresh = [run.fresh EXCEPT ![a] = NoLogin]
    BY <1>2, <1>4, <1>9 DEF Runs
  <2>4. a = run.to /\ \A b \in Accounts \ {a} : run.fresh[b] = NoLogin /\ b \notin run.refused
    BY <1>1, <1>9, NobodyNamed DEF RunTrue, Asked, Asking
  <2>5. run'.refused = {} /\ \A b \in Accounts : run'.fresh[b] = NoLogin
    BY <1>1, <2>3, <2>4 DEF RunTrue, Runs
  <2>6. Asked'
    BY <2>1, <2>5 DEF Asked, Asking
  <2>7. Bound' /\ Reserved' /\ Settling'
    BY <1>1, <1>2, <1>9, <2>1, <2>3, <2>4 DEF RunTrue, Bound, Reserved, Early, Settling, Changing, Asking
  <2> QED BY <2>1, <2>2, <2>3, <2>6, <2>7 DEF RunTrue, Steps
<1> QED BY <1>5, <1>7, <1>8, <1>9 DEF Saves

\* Giving up an answer that could not be written keeps the invariant.
LEMMA RenewLostFits ==
  ASSUME Inv, RenewLost
  PROVE  Inv'
<1> USE DEF Inv, DiskTrue
<1> DEFINE a == run.who
<1> DEFINE without == Discard(mem, mem.parked[a].name)
<1>1. /\ pc = "renewLost" /\ a \in Accounts /\ mem.parked[a] # NoPark
      /\ UNCHANGED <<live, vault, journal, listed, clock, service, crashes, outside>>
  BY DEF RenewLost, RunTrue, Asked, Asking
<1>2. IndexTrue(without, vault, clock) /\ \A b \in Accounts \ {a} : without.parked[b] = mem.parked[b]
  BY <1>1, DropOneFits
<1>3. taken' \subseteq Accounts
  BY DEF RenewLost, Lost, WorldOK
<1>4. (index' = without /\ NoFault) \/ SaveFails
  BY DEF RenewLost
<1>5. \/ Ends
      \/ /\ run.cmd = "renew" /\ mem' = without /\ Goes("ask")
         /\ run' = [run EXCEPT !.fresh[run.who] = NoLogin]
  BY DEF RenewLost
<1> HIDE DEF without
<1>6. /\ BudgetsOK' /\ VaultTrue' /\ ListTrue' /\ JournalTrue(journal, clock)'
      /\ IndexTrue(index, vault, clock)'
  <2>1. BudgetsOK'
    BY <1>1, <1>4, FaultFits DEF SaveFails
  <2> QED BY <1>1, <1>2, <1>4, <2>1 DEF SaveFails, VaultTrue, ListTrue
<1>7. CASE Ends
  <2>1. DiskTrue'
    BY <1>1, <1>3, <1>6, <1>7 DEF Ends, WorldOK, service
  <2> QED BY <1>7, <2>1, EndsFits
<1>8. CASE ~Ends
  <2>1. /\ run.cmd = "renew" /\ mem' = without /\ pc' = "ask" /\ UNCHANGED toolLock
        /\ run' = [run EXCEPT !.fresh[run.who] = NoLogin]
    BY <1>5, <1>8 DEF Goes
  <2>2. DiskTrue' /\ IndexTrue(mem, vault, clock)'
    BY <1>1, <1>2, <1>3, <1>6, <2>1 DEF WorldOK, service
  <2>3. /\ run' \in Runs /\ run'.cmd = run.cmd /\ run'.to = run.to
        /\ run'.refused = run.refused /\ run'.due = run.due
        /\ run'.fresh = [run.fresh EXCEPT ![a] = NoLogin]
    BY <1>1, <2>1 DEF RunTrue, Runs
  <2>4. a \notin run.refused
    BY <1>1 DEF RunTrue, Asked, Asking
  <2>5. Asked'
    BY <1>1, <1>2, <2>1, <2>3, <2>4 DEF RunTrue, Runs, Asked, Asking
  <2>6. Bound' /\ Reserved' /\ Settling'
    BY <1>1, <2>1, <2>3 DEF RunTrue, Bound, Reserved, Early, Settling, Changing, Asking
  <2> QED BY <2>1, <2>2, <2>3, <2>5, <2>6 DEF RunTrue, Steps
<1> QED BY <1>7, <1>8

-----------------------------------------------------------------------------
(* The change itself. *)

\* A step that leaves the index, the vault and the names as they are.
LEMMA SlotFits ==
  ASSUME Inv, live' \in Logins \cup {NoLogin, Torn}, taken' \subseteq Accounts,
         toolLock' \in {"free", "session", "pitboard"}, BudgetsOK',
         UNCHANGED <<vault, index, journal, listed, clock, service>>
  PROVE  DiskTrue'
BY DEF Inv, DiskTrue, WorldOK, VaultTrue, ListTrue, service

\* Taking the tool's locks and reading the slot again keeps the invariant.
LEMMA LockFits ==
  ASSUME Inv, Lock \/ Ready \/ NotReady
  PROVE  Inv'
<1> USE DEF Inv
<1>1. CASE Refuses
  BY <1>1, RefusesFits
<1>2. CASE Breaks("read")
  BY <1>2, BreaksFits
<1>3. CASE Lock /\ ~Refuses
  <2>1. /\ pc = "lock" /\ pc' = "ready" /\ toolLock' \in {"pitboard", toolLock}
        /\ UNCHANGED <<disk, service, mem, run, taken, budgets>>
    BY <1>3 DEF Lock, Goes
  <2>2. DiskTrue' /\ IndexTrue(mem, vault, clock)'
    BY <2>1, SlotFits DEF DiskTrue, RunTrue, disk, service, budgets, WorldOK, BudgetsOK
  <2>3. Bound' /\ Asked' /\ Reserved' /\ Settling'
    BY <2>1 DEF RunTrue, Bound, Asked, Reserved, Early, Settling, Changing, Asking
  <2> QED BY <2>1, <2>2, <2>3 DEF RunTrue, Steps
<1>4. CASE Ready
  <2>1. /\ pc = "ready" /\ pc' = IF run.going = "out" THEN "reserve" ELSE "journal"
        /\ live = run.seen \/ (run.going = "out" /\ Account(live) = run.out)
        /\ run' = [run EXCEPT !.before = live]
        /\ UNCHANGED <<disk, service, toolLock, mem, taken, budgets>>
    BY <1>4 DEF Ready, Goes
  <2>2. /\ run.going = "out" => run.out \in Accounts /\ Account(live) = run.out
        /\ run.seen # Torn
    BY <2>1 DEF RunTrue, Bound, Changing
  <2>3. live \in Logins \cup {NoLogin} /\ (run.going = "out" => live \in Logins)
    BY <2>1, <2>2, NobodyAssumption DEF DiskTrue, WorldOK, NoLogin, Torn, Account
  <2>4. /\ run' \in Runs /\ run'.cmd = run.cmd /\ run'.to = run.to /\ run'.park = run.park
        /\ run'.refused = run.refused /\ run'.fresh = run.fresh /\ run'.inc = run.inc
        /\ run'.seen = run.seen /\ run'.out = run.out /\ run'.going = run.going
        /\ run'.before = live
    BY <2>1, <2>3 DEF RunTrue, Runs
  <2>5. DiskTrue' /\ IndexTrue(mem, vault, clock)'
    BY <2>1, SlotFits DEF DiskTrue, RunTrue, disk, service, budgets, WorldOK, BudgetsOK
  <2>6. Bound' /\ Asked' /\ Settling'
    BY <2>1, <2>4 DEF RunTrue, Bound, Asked, Settling, Changing, Asking
  <2>7. Reserved'
    BY <2>1, <2>2, <2>3, <2>4 DEF RunTrue, Reserved, Early, Changing, Asking
  <2> QED BY <2>1, <2>4, <2>5, <2>6, <2>7 DEF RunTrue, Steps
<1> QED BY <1>1, <1>2, <1>3, <1>4 DEF NotReady

\* Reserving a name for the login going out keeps the invariant.
LEMMA ReserveFits ==
  ASSUME Inv, Reserve
  PROVE  Inv'
<1> USE DEF Inv
<1>1. CASE CannotReserve /\ UNCHANGED <<disk, service, taken, crashes, outside>> /\ Ends
  <2>1. BudgetsOK'
    BY <1>1, CannotReserveFits DEF DiskTrue
  <2>2. DiskTrue'
    BY <1>1, <2>1, SlotFits DEF DiskTrue, disk, service, WorldOK, Ends
  <2> QED BY <1>1, <2>2, EndsFits
<1>2. CASE Reserves(run.out) /\ Goes("journal")
  <2>1. pc = "reserve" /\ pc' = "journal" /\ UNCHANGED <<toolLock, mem>>
    BY <1>2 DEF Goes, Reserves, Reserve
  <2>2. run.going = "out" /\ run.out \in Accounts
    BY <2>1 DEF RunTrue, Reserved, Bound, Changing
  <2>3. /\ DiskTrue' /\ IndexTrue(mem, vault, clock)'
        /\ run'.park \in Names /\ run'.park[1] = run.out /\ run'.park[2] <= clock' /\ Unused'
        /\ run' = [run EXCEPT !.park = run'.park] /\ run' \in Runs
    BY <1>2, <2>1, <2>2, ReservesFits
  <2>4. /\ run'.cmd = run.cmd /\ run'.to = run.to /\ run'.inc = run.inc /\ run'.before = run.before
        /\ run'.refused = run.refused /\ run'.fresh = run.fresh
        /\ run'.seen = run.seen /\ run'.out = run.out /\ run'.going = run.going
    BY <2>3 DEF RunTrue, Runs
  <2>5. Bound' /\ Asked' /\ Settling'
    BY <2>1, <2>4 DEF RunTrue, Bound, Asked, Settling, Changing, Asking
  <2>6. Reserved'
    BY <2>1, <2>2, <2>3, <2>4 DEF RunTrue, Reserved, Early, Changing, Asking
  <2> QED BY <2>1, <2>3, <2>5, <2>6 DEF RunTrue, Steps
<1> QED BY <1>1, <1>2 DEF Reserve

\* Writing the journal keeps the invariant.
LEMMA WriteJournalFits ==
  ASSUME Inv, WriteJournal
  PROVE  Inv'
<1> USE DEF Inv
<1>1. CASE Breaks("journal")
  BY <1>1, BreaksFits
<1>2. CASE ~Breaks("journal")
  <2>1. /\ pc = "journal" /\ pc' = IF run.going = "out" THEN "parkStore" ELSE "install"
        /\ journal' = [from |-> IF run.going = "out" THEN run.out ELSE Nobody, to |-> run.to,
                       park |-> run.park, incoming |-> run.inc.name,
                       fromLogin |-> run.before, toLogin |-> run.inc.login]
        /\ UNCHANGED <<live, vault, index, listed, clock, service, toolLock, mem, run, taken,
                       crashes, faults, outside>>
    BY <1>2 DEF WriteJournal, Goes, NoFault
  <2>2. /\ run.to \in Accounts /\ run.inc \in Parks /\ Account(run.inc.login) = run.to
        /\ IF run.going = "out"
           THEN /\ run.out \in Accounts /\ run.out # run.to
                /\ run.park \in Names /\ run.park[1] = run.out /\ run.park[2] <= clock
           ELSE run.park = NoName
    BY <2>1 DEF RunTrue, Bound, Reserved, Changing
  <2>3. journal' \in Journals
    BY <2>1, <2>2 DEF RunTrue, Runs, Journals, Parks
  <2>4. JournalTrue(journal, clock)'
    BY <2>1, <2>2, <2>3, NobodyAssumption DEF JournalTrue, Parks
  <2>5. DiskTrue' /\ IndexTrue(mem, vault, clock)'
    BY <2>1, <2>4 DEF DiskTrue, RunTrue, WorldOK, BudgetsOK, VaultTrue, ListTrue, service
  <2>6. Bound' /\ Asked' /\ Reserved' /\ Settling'
    BY <2>1, <2>2 DEF RunTrue, Bound, Asked, Reserved, Early, Settling, Changing, Asking, Unused
  <2> QED BY <2>1, <2>5, <2>6 DEF RunTrue, Steps
<1> QED BY <1>1, <1>2

\* Storing the login going out keeps the invariant.
LEMMA ParkStoreFits ==
  ASSUME Inv, ParkStore
  PROVE  Inv'
<1> USE DEF Inv
<1> DEFINE written == [vault EXCEPT ![run.park] = run.before]
<1>1. /\ pc = "parkStore" /\ run.going = "out" /\ run.out \in Accounts /\ Unused
      /\ run.before \in Logins /\ Account(run.before) = run.out
      /\ run.park \in Names /\ run.park[1] = run.out /\ run.park[2] <= clock
  BY DEF ParkStore, RunTrue, Bound, Reserved, Changing
<1>2. /\ vault' \in {vault, written}
      /\ NoFault \/ Fault("write")
      /\ UNCHANGED <<live, index, journal, listed, clock, service, toolLock, mem, run, taken,
                     crashes, outside>>
  BY DEF ParkStore, Goes
<1>3. (pc' = "parkRecord" /\ vault' = written) \/ pc' = "clear"
  BY DEF ParkStore, Goes
<1>4. VaultTrue' /\ IndexTrue(index, vault, clock)' /\ IndexTrue(mem, vault, clock)' /\ BudgetsOK'
  BY <1>1, <1>2, StoringFits, FaultFits DEF DiskTrue
<1>5. DiskTrue'
  BY <1>2, <1>4 DEF DiskTrue, service, WorldOK, ListTrue
<1>6. pc' = "parkRecord" => vault'[run.park] = run.before
  BY <1>1, <1>3 DEF DiskTrue, VaultTrue
<1>7. Bound' /\ Asked' /\ Reserved' /\ Settling'
  BY <1>1, <1>2, <1>3, <1>6 DEF RunTrue, Bound, Asked, Reserved, Early, Settling, Changing, Asking
<1> QED BY <1>2, <1>3, <1>4, <1>5, <1>7 DEF RunTrue, Steps

\* Recording its park keeps the invariant.
LEMMA ParkRecordFits ==
  ASSUME Inv, ParkRecord
  PROVE  Inv'
<1> USE DEF Inv
<1> DEFINE park == [name |-> run.park, login |-> run.before]
<1> DEFINE parked == ParkFor(mem, run.out, park)
<1>1. /\ pc = "parkRecord" /\ run.going = "out" /\ run.out \in Accounts
      /\ run.before \in Logins /\ Account(run.before) = run.out
      /\ run.park \in Names /\ run.park[1] = run.out /\ run.park[2] <= clock
      /\ vault[run.park] = run.before
  BY DEF ParkRecord, RunTrue, Bound, Reserved, Changing
<1>2. IndexTrue(parked, vault, clock)
  <2>1. ParkOK(run.out, park, vault, clock)
    BY <1>1 DEF ParkOK, Parks
  <2> QED BY <1>1, <2>1, ParkForFits DEF RunTrue
<1> HIDE DEF parked
<1>3. UNCHANGED <<live, journal, listed, clock, service, toolLock, run, taken, crashes, outside>>
  BY DEF ParkRecord, Goes
<1>4. CASE Saves(parked) /\ pc' = "reread" /\ UNCHANGED vault
  <2>1. DiskTrue' /\ IndexTrue(mem, vault, clock)'
    BY <1>2, <1>3, <1>4 DEF DiskTrue, Saves, NoFault, service, WorldOK, BudgetsOK, VaultTrue, ListTrue
  <2>2. Bound' /\ Asked' /\ Reserved' /\ Settling'
    BY <1>1, <1>3, <1>4 DEF RunTrue, Bound, Asked, Reserved, Early, Settling, Changing, Asking
  <2> QED BY <1>3, <1>4, <2>1, <2>2 DEF RunTrue, Steps
<1>5. CASE /\ SaveFails /\ pc' = "clear" /\ UNCHANGED mem
           /\ vault' \in {vault, [vault EXCEPT ![run.park] = NoLogin]}
  <2>1. VaultTrue' /\ \A n \in Names : vault'[n] \in {vault[n], NoLogin}
    BY <1>5 DEF DiskTrue, VaultTrue
  <2>2. clock \in Nat
    BY DEF DiskTrue, ListTrue
  <2>3. IndexTrue(index, vault', clock) /\ IndexTrue(mem, vault', clock)
    BY <2>1, <2>2, StoreFits DEF DiskTrue, RunTrue
  <2>4. BudgetsOK'
    BY <1>3, <1>5, FaultFits DEF DiskTrue, SaveFails
  <2>5. DiskTrue' /\ IndexTrue(mem, vault, clock)'
    BY <1>3, <1>5, <2>1, <2>3, <2>4 DEF DiskTrue, SaveFails, service, WorldOK, ListTrue
  <2>6. Bound' /\ Asked' /\ Reserved' /\ Settling'
    BY <1>1, <1>3, <1>5 DEF RunTrue, Bound, Asked, Reserved, Early, Settling, Changing, Asking
  <2> QED BY <1>3, <1>5, <2>5, <2>6 DEF RunTrue, Steps
<1> QED BY <1>4, <1>5 DEF ParkRecord, parked, Goes

\* Past the reread nothing of a change but its accounts and its copies matters.
LEMMA UndoingFits ==
  ASSUME Inv, pc \in Changing \cup {"undoSave", "undoClear"},
         pc' \in {"undoSave", "undoClear", "clear"}, UNCHANGED <<run, journal>>,
         IndexTrue(mem, vault, clock)'
  PROVE  RunTrue'
<1>1. Bound' /\ Asked' /\ Reserved' /\ Settling'
  BY DEF Inv, RunTrue, Bound, Asked, Reserved, Early, Settling, Changing, Asking
<1> QED BY <1>1 DEF Inv, RunTrue, Steps

\* Reading the slot once more before it is replaced keeps the invariant.
LEMMA RereadFits ==
  ASSUME Inv, Reread \/ ParkUnreadable
  PROVE  Inv'
<1> USE DEF Inv
<1>1. CASE ParkUnreadable
  BY <1>1, BreaksFits DEF ParkUnreadable
<1>2. CASE Reread
  <2>1. /\ pc = "reread" /\ run.going = "out" /\ run.park \in Names
        /\ UNCHANGED <<disk, service, run, taken, crashes, outside>>
    BY <1>2 DEF Reread, RunTrue, Reserved
  <2>2. UNCHANGED toolLock /\ mem' \in {mem, Discard(mem, run.park)}
        /\ pc' \in {"install", "undoSave"} /\ (pc' = "install" => mem' = mem)
    BY <1>2 DEF Reread, Goes
  <2>3. BudgetsOK'
    BY <1>2, FaultFits DEF Reread, DiskTrue
  <2>4. IndexTrue(mem', vault, clock)
    BY <2>1, <2>2, DiscardFits DEF RunTrue
  <2>5. DiskTrue' /\ IndexTrue(mem, vault, clock)'
    BY <2>1, <2>2, <2>3, <2>4, SlotFits DEF DiskTrue, disk, service, WorldOK
  <2>6. CASE pc' = "install"
    <3>1. Bound' /\ Asked' /\ Reserved' /\ Settling'
      BY <2>1, <2>2, <2>6 DEF RunTrue, Bound, Asked, Reserved, Early, Settling, Changing, Asking,
                              disk
    <3> QED BY <2>1, <2>5, <2>6, <3>1 DEF RunTrue, Steps
  <2>7. CASE pc' = "undoSave"
    BY <2>1, <2>5, <2>7, UndoingFits DEF Changing, disk
  <2> QED BY <2>2, <2>6, <2>7
<1> QED BY <1>1, <1>2

\* A journal is removed or stays as it was.
LEMMA ClearJournalFits ==
  ASSUME BudgetsOK, JournalTrue(journal, clock), ClearJournal, UNCHANGED <<clock, crashes, outside>>
  PROVE  BudgetsOK' /\ JournalTrue(journal, clock)'
BY FaultFits DEF ClearJournal, JournalTrue, NoJournal, Journals

\* Saving what an undone change left, and removing its journal, keeps the invariant.
LEMMA UndoFits ==
  ASSUME Inv, UndoSave \/ UndoClear
  PROVE  Inv'
<1> USE DEF Inv
<1>1. CASE Breaks("save")
  BY <1>1, BreaksFits
<1>2. CASE UndoSave /\ ~Breaks("save")
  <2>1. /\ pc = "undoSave" /\ pc' = "undoClear" /\ index' = mem /\ mem' = mem
        /\ UNCHANGED <<live, vault, journal, listed, clock, service, toolLock, run, taken,
                       crashes, faults, outside>>
    BY <1>2 DEF UndoSave, Saves, Goes, NoFault
  <2>2. DiskTrue' /\ IndexTrue(mem, vault, clock)'
    BY <2>1 DEF DiskTrue, RunTrue, service, WorldOK, BudgetsOK, VaultTrue, ListTrue
  <2> QED BY <2>1, <2>2, UndoingFits
<1>3. CASE UndoClear
  <2>1. /\ pc = "undoClear" /\ pc' = "purge" /\ run' = [run EXCEPT !.next = "idle"]
        /\ UNCHANGED <<live, vault, index, listed, clock, service, toolLock, mem, taken,
                       crashes, outside>>
    BY <1>3 DEF UndoClear, Goes
  <2>2. BudgetsOK' /\ JournalTrue(journal, clock)'
    BY <1>3, <2>1, ClearJournalFits DEF UndoClear, DiskTrue
  <2>3. DiskTrue' /\ IndexTrue(mem, vault, clock)'
    BY <2>1, <2>2 DEF DiskTrue, RunTrue, service, WorldOK, VaultTrue, ListTrue
  <2>4. /\ run' \in Runs /\ run'.cmd = run.cmd /\ run'.to = run.to /\ run'.next = "idle"
        /\ run'.refused = run.refused /\ run'.fresh = run.fresh
    BY <2>1 DEF RunTrue, Runs
  <2>5. Bound' /\ Asked' /\ Reserved' /\ Settling'
    BY <2>1, <2>4 DEF RunTrue, Bound, Asked, Reserved, Early, Settling, Changing, Asking
  <2> QED BY <2>1, <2>3, <2>4, <2>5 DEF RunTrue, Steps
<1> QED BY <1>1, <1>2, <1>3

\* Installing, and each way it fails, keeps the invariant.
LEMMA InstallFits ==
  ASSUME Inv, Install \/ RolledBack \/ Unverified \/ Corrupted
  PROVE  Inv'
<1> USE DEF Inv
<1>1. /\ pc = "install" /\ run.inc.login \in Logins /\ run.before \in Logins \cup {NoLogin}
      /\ run.going = "out" => run.park \in Names
  BY DEF Install, RolledBack, Unverified, Corrupted, RunTrue, Runs, Reserved, Changing, Parks
<1>2. PICK after \in SUBSET (Logins \cup {NoLogin, Torn}) : Installs(after)
  BY <1>1 DEF Install, RolledBack, Unverified, Corrupted, DiskTrue, WorldOK, CutShort
<1>3. /\ live' \in Logins \cup {NoLogin, Torn} /\ taken' \subseteq Accounts
      /\ UNCHANGED <<vault, index, journal, listed, clock, service, crashes, outside>>
  BY <1>2 DEF Installs, DiskTrue, WorldOK
<1>4. BudgetsOK'
  BY <1>3, FaultFits DEF Install, RolledBack, Unverified, Corrupted, DiskTrue
<1>5. toolLock' \in {"free", "session", "pitboard"}
  BY DEF Install, RolledBack, Unverified, Corrupted, Goes, Ends, DiskTrue, WorldOK
<1>6. DiskTrue'
  BY <1>3, <1>4, <1>5, SlotFits
<1>7. CASE Install
  <2>1. pc' = "holds" /\ UNCHANGED <<mem, run>>
    BY <1>7 DEF Install, Goes
  <2>2. IndexTrue(mem, vault, clock)'
    BY <1>3, <2>1 DEF RunTrue
  <2>3. Bound' /\ Asked' /\ Reserved' /\ Settling'
    BY <1>1, <1>3, <2>1 DEF RunTrue, Bound, Asked, Reserved, Early, Settling, Changing, Asking
  <2> QED BY <1>6, <2>1, <2>2, <2>3 DEF RunTrue, Steps
<1>8. CASE Unverified
  BY <1>6, <1>8, EndsFits DEF Unverified
<1>9. CASE RolledBack \/ Corrupted
  <2>1. /\ pc' \in {"undoSave", "clear"} /\ UNCHANGED run
        /\ mem' = mem \/ (run.going = "out" /\ mem' = Discard(mem, run.park))
    BY <1>9 DEF RolledBack, Corrupted, Goes
  <2>2. IndexTrue(mem, vault, clock)'
    BY <1>1, <1>3, <2>1, DiscardFits DEF RunTrue
  <2> QED BY <1>1, <1>3, <1>6, <2>1, <2>2, UndoingFits DEF Changing
<1> QED BY <1>7, <1>8, <1>9

\* Reading back what was installed keeps the invariant.
LEMMA HoldsFits ==
  ASSUME Inv, Holds
  PROVE  Inv'
<1> USE DEF Inv
<1>1. CASE Breaks("read")
  BY <1>1, BreaksFits
<1>2. CASE ~Breaks("read")
  <2>1. /\ pc = "holds" /\ pc' \in {"record", "clear"}
        /\ UNCHANGED <<disk, service, toolLock, mem, run, taken, budgets>>
    BY <1>2 DEF Holds, Goes
  <2>2. DiskTrue' /\ IndexTrue(mem, vault, clock)'
    BY <2>1, SlotFits DEF DiskTrue, RunTrue, disk, service, budgets, WorldOK, BudgetsOK
  <2>3. Bound' /\ Asked' /\ Reserved' /\ Settling'
    BY <2>1 DEF RunTrue, Bound, Asked, Reserved, Early, Settling, Changing, Asking
  <2> QED BY <2>1, <2>2, <2>3 DEF RunTrue, Steps
<1> QED BY <1>1, <1>2

\* Recording the install keeps the invariant.
LEMMA RecordFits ==
  ASSUME Inv, Record
  PROVE  Inv'
<1> USE DEF Inv
<1>1. CASE Breaks("save")
  BY <1>1, BreaksFits
<1>2. CASE ~Breaks("save")
  <2> DEFINE dropped == Discard(mem, run.inc.name)
  <2> DEFINE recorded == Identified(dropped, run.inc.login)
  <2>1. pc = "record" /\ run.inc.name \in Names /\ run.inc.login \in Logins
    BY DEF Record, RunTrue, Reserved, Changing, Parks
  <2>2. IndexTrue(dropped, vault, clock)
    BY <2>1, DiscardFits DEF RunTrue
  <2> HIDE DEF dropped
  <2>3. IndexTrue(recorded, vault, clock)
    BY <2>1, <2>2, IdentifiedFits
  <2>4. /\ index' = recorded /\ mem' = recorded /\ pc' = "purge"
        /\ toolLock' \in {"free", toolLock} /\ run' = [run EXCEPT !.next = "clear"]
        /\ UNCHANGED <<live, vault, journal, listed, clock, service, taken, crashes, faults, outside>>
    BY <1>2 DEF Record, Saves, NoFault, dropped
  <2> HIDE DEF recorded
  <2>5. DiskTrue' /\ IndexTrue(mem, vault, clock)'
    BY <2>3, <2>4 DEF DiskTrue, WorldOK, BudgetsOK, VaultTrue, ListTrue, service
  <2>6. /\ run' \in Runs /\ run'.cmd = run.cmd /\ run'.to = run.to /\ run'.next = "clear"
        /\ run'.refused = run.refused /\ run'.fresh = run.fresh
    BY <2>4 DEF RunTrue, Runs
  <2>7. Bound' /\ Asked' /\ Reserved' /\ Settling'
    BY <2>1, <2>4, <2>6 DEF RunTrue, Bound, Asked, Reserved, Early, Settling, Changing, Asking
  <2> QED BY <2>4, <2>5, <2>6, <2>7 DEF RunTrue, Steps
<1> QED BY <1>1, <1>2

\* Removing the journal at the end keeps the invariant.
LEMMA ClearFits ==
  ASSUME Inv, Clear
  PROVE  Inv'
<1>1. BudgetsOK' /\ JournalTrue(journal, clock)'
  BY ClearJournalFits DEF Clear, Inv, DiskTrue
<1>2. DiskTrue'
  BY <1>1 DEF Clear, Ends, Inv, DiskTrue, WorldOK, VaultTrue, ListTrue, service
<1> QED BY <1>2, EndsFits DEF Clear

\* Giving up an interrupted switch keeps the invariant.
LEMMA AbandonFits ==
  ASSUME Inv, Abandon
  PROVE  Inv'
<1> USE DEF Inv
<1>1. CASE Breaks("save")
  BY <1>1, BreaksFits
<1>2. CASE ~Breaks("save")
  <2>1. pc = "abandon" /\ journal # NoJournal
    BY DEF Abandon, RunTrue, Settling
  <2>2. IndexTrue(index', vault, clock)
    BY <1>2, <2>1, GivenUpFits DEF Abandon, Saves, DiskTrue, RunTrue
  <2>3. /\ mem' = index' /\ pc' = "clear"
        /\ UNCHANGED <<live, vault, journal, listed, clock, service, toolLock, run, taken>>
    BY <1>2 DEF Abandon, Saves, Goes
  <2>6. BudgetsOK'
    BY <1>2, FaultFits DEF Abandon, Saves, DiskTrue
  <2>4. DiskTrue' /\ IndexTrue(mem, vault, clock)'
    BY <2>2, <2>3, <2>6 DEF DiskTrue, WorldOK, VaultTrue, ListTrue, service
  <2>5. Bound' /\ Asked' /\ Reserved' /\ Settling'
    BY <2>1, <2>3 DEF RunTrue, Bound, Asked, Reserved, Early, Settling, Changing, Asking
  <2> QED BY <2>3, <2>4, <2>5 DEF RunTrue, Steps
<1> QED BY <1>1, <1>2

-----------------------------------------------------------------------------
(* Every step keeps Inv, and what it says holds of every run. *)

\* Every step of the process keeps the invariant.
LEMMA ProcessFits ==
  ASSUME Inv, Process
  PROVE  Inv'
<1>1. CASE Settle
  BY <1>1, ReconcileFits, RepairFits, SweepFits, TwinsFits, PurgeFits DEF Settle
<1>2. CASE Renew
  BY <1>2, AskFits, DropRefusedFits, AnsweredFits, RenewReserveFits, RenewStoreFits,
     RenewRecordFits, RenewLostFits DEF Renew
<1>3. CASE Change
  BY <1>3, LockFits, ReserveFits, WriteJournalFits, ParkStoreFits, ParkRecordFits, RereadFits,
     UndoFits, InstallFits, HoldsFits, RecordFits, ClearFits DEF Change
<1>4. CASE ~Settle /\ ~Renew /\ ~Change
  BY <1>4, AbandonFits, IdentifyFits, IdentifyOtherwiseFits, ForgetFits, ProveFits DEF Process
<1> QED BY <1>1, <1>2, <1>3, <1>4

\* A step that changes nothing keeps the invariant.
LEMMA StutterFits ==
  ASSUME Inv, UNCHANGED vars
  PROVE  Inv'
BY DEF Inv, DiskTrue, RunTrue, WorldOK, BudgetsOK, VaultTrue, ListTrue, Bound, Asked, Reserved,
       Early, Settling, Unused, vars, disk, world, service, process, budgets

\* Whatever the bounds and whatever fails, every step of every command, of
\* recovery and of the tool keeps the index, the journal, the list of names and
\* what the run has read consistent with the vault.
THEOREM InvHolds == Spec => []Inv
<1>1. Inv /\ [Next]_vars => Inv'
  <2> SUFFICES ASSUME Inv, [Next]_vars PROVE Inv'
    OBVIOUS
  <2> QED BY StartFits, ProcessFits, CrashFits, WorldFits, StutterFits DEF Next
<1> QED BY InitFits, <1>1, PTL DEF Spec

\* Every step, whoever takes it and whatever fails, leaves values the code can
\* have: in particular a change never parks, installs or records a slot that is
\* empty or half written (switch/mod.rs, journal.rs).
THEOREM TypeCorrect == Spec => []TypeOK
<1>1. Inv => TypeOK
  BY DEF Inv, DiskTrue, RunTrue, WorldOK, BudgetsOK, VaultTrue, ListTrue, IndexTrue, JournalTrue,
         TypeOK
<1> QED BY InvHolds, <1>1, PTL

\* A park the index offers is its account's, and the vault has that login under
\* its name or nothing (state.rs, park.rs).
THEOREM ParksAreTrue == Spec => []ParksTrue
<1>1. Inv => ParksTrue
  BY DEF Inv, DiskTrue, IndexTrue, ParkOK, ParksTrue
<1> QED BY InvHolds, <1>1, PTL

\* Whoever the record says is in use owns the login it saw (identify.rs, and what
\* journal.rs records of a switch it finishes).
THEOREM InUseIsTrue == Spec => []InUseTrue
<1>1. Inv => InUseTrue
  BY DEF Inv, DiskTrue, IndexTrue, InUseTrue
<1> QED BY InvHolds, <1>1, PTL

-----------------------------------------------------------------------------
(* Accounted. *)

\* An index is derived in a step from the run's where it names every item that is
\* still there, or is the one saved before.
Derived(ix) ==
  ix = index \/ \A n \in Names : vault'[n] # NoLogin /\ IndexNames(mem, n) => IndexNames(ix, n)

\* An index that keeps the names the run has in mind is derived from it.
LEMMA KeepsDerives ==
  ASSUME NEW ix, KeepsNames(mem, ix) \/ ix = mem
  PROVE  Derived(ix)
BY DEF Derived, KeepsNames

\* Where the index saved and the one in mind are derived from the ones before, and
\* what was written is listed, both account for every item.
LEMMA DerivedAccounts ==
  ASSUME Found, Derived(index'), Derived(mem'), listed \subseteq listed',
         \A n \in Names : vault'[n] \in {vault[n], NoLogin} \/ n \in listed'
  PROVE  AccountedIn(index)' /\ AccountedIn(mem)'
BY DEF Found, AccountedIn, Derived

\* Away from the sweep and from writing under a name, that is all there is to keep.
LEMMA FoundKept ==
  ASSUME Found, Derived(index'), Derived(mem'), listed \subseteq listed',
         \A n \in Names : vault'[n] \in {vault[n], NoLogin} \/ n \in listed',
         pc' \notin {"sweep", "sweepList", "renewStore", "parkStore", "journal"}
  PROVE  Found'
BY DerivedAccounts DEF Found

\* A run that ends having saved nothing, or an index derived from its own.
LEMMA FoundOver ==
  ASSUME Found, Ends, Derived(index'), listed \subseteq listed', UNCHANGED vault
  PROVE  Found'
<1>1. Derived(mem') /\ pc' = "idle"
  BY DEF Ends
<1> QED BY <1>1, FoundKept

\* An early return keeps every item accounted for.
LEMMA FoundRefuses ==
  ASSUME Found, Refuses \/ \E op \in Operations : Breaks(op)
  PROVE  Found'
BY FoundOver DEF Refuses, Breaks, disk, Derived

\* Every item is accounted for initially.
LEMMA FoundInit == Init => Found
BY DEF Init, Found, AccountedIn, IndexNames, References

\* Starting, dying and what happens outside keep every item accounted for.
LEMMA FoundOutside ==
  ASSUME Found, World \/ UNCHANGED vars \/ Crash
           \/ \E cmd \in Commands, a \in Accounts \cup {Nobody} : Start(cmd, a)
  PROVE  Found'
<1>1. CASE World \/ UNCHANGED vars
  <2>1. UNCHANGED <<vault, index, listed, pc, mem, run>>
    BY <1>1 DEF World, SessionSends, SessionSaves, LogOut, OutsideSignIn, ServiceRefuses, disk,
                process, vars
  <2> QED BY <2>1 DEF Found, AccountedIn
<1>2. CASE Crash
  BY <1>2, FoundOver DEF Crash, Derived
<1>3. ASSUME NEW cmd \in Commands, NEW a \in Accounts \cup {Nobody}, Start(cmd, a) PROVE Found'
  <2>1. /\ UNCHANGED <<vault, index, listed>> /\ mem' = index
        /\ pc' \in {"twins", "abandon", "reconcile"}
    BY <1>3 DEF Start, disk, Goes
  <2> QED BY <2>1, FoundKept DEF Derived
<1> QED BY <1>1, <1>2, <1>3

\* Settling keeps every item accounted for.
LEMMA FoundSettle ==
  ASSUME Inv, Found, Settle
  PROVE  Found'
<1> USE DEF Inv, DiskTrue, RunTrue
<1>0. CASE \E op \in Operations : Breaks(op)
  BY <1>0, FoundRefuses
<1>1. CASE ReconcileNothing \/ ClearRepaired
  <2>1. /\ UNCHANGED <<vault, index, listed, mem>> /\ pc' = "sweep"
        /\ run' = [run EXCEPT !.todo = listed, !.keep = {}, !.seen = NoLogin]
    BY <1>1 DEF ReconcileNothing, ClearRepaired, ToSweep, Goes, disk
  <2>2. run'.todo = listed
    BY <2>1 DEF Runs
  <2> QED BY <2>1, <2>2 DEF Found, AccountedIn
<1>2. CASE ReconcileTorn \/ ReconcileRead \/ FindTwins \/ NothingDue
  <2>1. UNCHANGED <<vault, index, listed, mem>> /\ pc' \in {"reconcile", "repair", "dropTwins", "purge"}
    BY <1>2 DEF ReconcileTorn, ReconcileRead, FindTwins, NothingDue, Goes, disk
  <2> QED BY <2>1, FoundKept DEF Derived
<1>3. CASE Undetermined
  BY <1>3, FoundRefuses DEF Undetermined, Operations
<1>4. CASE Repair /\ ~Breaks("save")
  <2> DEFINE new == Repaired(mem, journal, OwnerOf(journal, run.seen), run.seen)
  <2>1. journal # NoJournal /\ run.seen \in Logins \cup {NoLogin}
    BY <1>4 DEF Repair, Settling, Runs
  <2>2. KeepsNames(mem, new)
    BY <2>1, RepairedFits
  <2>3. index' = new /\ mem' = new /\ pc' = "clearRepaired" /\ UNCHANGED <<vault, listed>>
    BY <1>4 DEF Repair, Saves, Goes
  <2> HIDE DEF new
  <2> QED BY <2>2, <2>3, KeepsDerives, FoundKept
<1>5. ASSUME NEW n \in Names, Sweep(n) PROVE Found'
  <2> DEFINE back == [name |-> n, login |-> vault[n]]
  <2>1. /\ UNCHANGED <<vault, index, listed>> /\ pc = "sweep" /\ pc' = "sweep" /\ n \in listed
    BY <1>5 DEF Sweep, Goes, disk, Earliest, Settling
  <2>2. n[1] \in Accounts /\ (vault[n] # NoLogin => ParkOK(n[1], back, vault, clock))
    BY <2>1 DEF Names, VaultTrue, ListTrue, ParkOK, Parks
  <2>3. /\ KeepsNames(mem, Discard(mem, n)) /\ IndexNames(Discard(mem, n), n)
    BY DiscardFits
  <2>4. vault[n] # NoLogin => /\ KeepsNames(mem, ParkFor(mem, n[1], back))
                              /\ n[1] \in mem.enrolled => IndexNames(ParkFor(mem, n[1], back), n)
    <3>1. back.name = n
      OBVIOUS
    <3> HIDE DEF back
    <3>2. CASE vault[n] # NoLogin
      <4>1. /\ KeepsNames(mem, ParkFor(mem, n[1], back))
            /\ n[1] \in mem.enrolled => IndexNames(ParkFor(mem, n[1], back), back.name)
        BY <2>2, <3>2, ParkForFits
      <4> QED BY <3>1, <4>1
    <3> QED BY <3>2
  <2>5. KeepsNames(mem, mem')
    <3>1. KeepsNames(mem, mem)
      BY DEF KeepsNames
    <3>2. mem' = mem \/ mem' = Discard(mem, n)
            \/ (vault[n] # NoLogin /\ mem' = ParkFor(mem, n[1], back))
      BY <1>5 DEF Sweep
    <3> QED BY <2>3, <2>4, <3>1, <3>2
  <2>6. \/ /\ vault[n] # NoLogin => IndexNames(mem', n)
           /\ run' = [run EXCEPT !.todo = @ \ {n}]
        \/ run' = [run EXCEPT !.todo = @ \ {n}, !.keep = @ \cup {n}]
    <3>1. \A slot : GivesBack(mem, n, slot) => n[1] \in mem.enrolled
      BY DEF GivesBack
    <3> QED BY <1>5, <2>3, <2>4, <3>1 DEF Sweep
  <2>7. AccountedIn(index)' /\ AccountedIn(mem)'
    BY <2>1, <2>5, KeepsDerives, DerivedAccounts DEF Derived
  <2>8. ASSUME NEW m \in listed, m \notin run'.todo, m \notin run'.keep, vault[m] # NoLogin
        PROVE  IndexNames(mem', m)
    <3>1. run.todo \ {n} = run'.todo /\ run.keep \subseteq run'.keep
      BY <2>6 DEF Runs
    <3>2. CASE m = n
      <4>1. run'.keep = run.keep \cup {n} \/ IndexNames(mem', n)
        BY <2>6, <2>8, <3>2 DEF Runs
      <4> QED BY <2>8, <3>2, <4>1
    <3>3. CASE m # n
      <4>1. m \notin run.todo /\ m \notin run.keep /\ m \in Names
        BY <2>8, <3>1, <3>3 DEF ListTrue
      <4>2. IndexNames(mem, m)
        BY <2>1, <2>8, <4>1 DEF Found
      <4> QED BY <2>5, <4>1, <4>2 DEF KeepsNames
    <3> QED BY <3>2, <3>3
  <2> QED BY <2>1, <2>7, <2>8 DEF Found
<1>6. CASE SweepSave /\ ~Breaks("save")
  <2>1. /\ pc = "sweep" /\ run.todo = {} /\ pc' = "sweepList" /\ index' = mem /\ mem' = mem
        /\ UNCHANGED <<vault, listed, run>>
    BY <1>6 DEF SweepSave, Saves, Goes
  <2> QED BY <2>1 DEF Found, AccountedIn
<1>7. CASE SweepList /\ ~Breaks("list")
  <2>1. /\ pc = "sweepList" /\ pc' = "twins" /\ listed' = run.keep
        /\ UNCHANGED <<vault, index, mem>>
    BY <1>7 DEF SweepList, Goes
  <2> QED BY <2>1 DEF Found, AccountedIn
<1>8. CASE DropTwins /\ ~Breaks("save")
  <2> DEFINE dropped == DiscardAll(mem, Twins(mem, run.seen))
  <2>1. KeepsNames(mem, dropped)
    BY DiscardAllFits DEF Twins
  <2>2. /\ mem' = dropped /\ index' \in {index, dropped} /\ pc' \in {"ask", "purge"}
        /\ UNCHANGED <<vault, listed>>
    BY <1>8 DEF DropTwins, Saves, SaveFails, Goes
  <2> HIDE DEF dropped
  <2> QED BY <2>1, <2>2, KeepsDerives, FoundKept DEF Derived
<1>9. CASE Purge
  <2>1. PICK kept \in SUBSET mem.discarded :
          /\ vault' = [n \in Names |-> IF n \in mem.discarded \ kept THEN NoLogin ELSE vault[n]]
          /\ IF [mem EXCEPT !.discarded = kept] = mem THEN AfterPurge(mem)
             ELSE mem' = [mem EXCEPT !.discarded = kept] /\ Goes("purgeSave") /\ UNCHANGED run
    BY <1>9 DEF Purge
  <2>2. UNCHANGED <<index, listed>>
    BY <1>9 DEF Purge
  <2>3. Derived([mem EXCEPT !.discarded = kept])
    BY <2>1 DEF Derived, IndexNames, References, IndexTrue, Indexes
  <2>4. mem' \in {mem, index, [mem EXCEPT !.discarded = kept]} /\ Derived(mem')
    BY <2>1, <2>2, <2>3, KeepsDerives DEF AfterPurge, Ends, Goes, Derived
  <2>5. pc' \in {"idle", "clear", "identify", "purgeSave"}
    BY <2>1 DEF AfterPurge, Ends, Goes
  <2>6. \A n \in Names : vault'[n] \in {vault[n], NoLogin}
    BY <2>1
  <2> QED BY <2>2, <2>4, <2>5, <2>6, FoundKept DEF Derived
<1>10. CASE PurgeSave
  <2>1. /\ index' \in {index, mem} /\ UNCHANGED <<vault, listed>> /\ mem' \in {mem, index'}
        /\ pc' \in {"idle", "clear", "identify"}
    BY <1>10 DEF PurgeSave, SaveFails, AfterPurge, Ends, Goes
  <2> QED BY <2>1, FoundKept DEF Derived
<1> QED BY <1>0, <1>1, <1>2, <1>3, <1>4, <1>5, <1>6, <1>7, <1>8, <1>9, <1>10 DEF Settle, Operations

\* Renewing keeps every item accounted for.
LEMMA FoundRenew ==
  ASSUME Inv, Found, Renew
  PROVE  Found'
<1> USE DEF Inv, DiskTrue, RunTrue
<1>1. CASE \E a \in Accounts : Ask(a) \/ WriteFresh(a)
  <2>1. UNCHANGED <<vault, index, listed, mem>> /\ pc' \in {"ask", "renewReserve"}
    BY <1>1 DEF Ask, WriteFresh, Goes, disk
  <2> QED BY <2>1, FoundKept DEF Derived
<1>2. CASE NoMoreAnswers
  <2>1. CASE Refuses
    BY <2>1, FoundRefuses
  <2>2. CASE ~Refuses
    <3>1. UNCHANGED <<vault, index, listed, mem>> /\ pc' = "purge"
      BY <1>2, <2>2 DEF NoMoreAnswers, Goes, disk
    <3> QED BY <3>1, FoundKept DEF Derived
  <2> QED BY <2>1, <2>2
<1>3. ASSUME NEW a \in Accounts, DropRefused(a) PROVE Found'
  <2> DEFINE without == Discard(mem, mem.parked[a].name)
  <2>1. mem.parked[a] # NoPark
    BY <1>3 DEF DropRefused, Answered, Asked, Asking
  <2>2. KeepsNames(mem, without)
    BY <2>1, DropOneFits
  <2>3. /\ index' \in {index, without} /\ mem' \in {index', without} /\ pc' \in {"idle", "ask"}
        /\ UNCHANGED <<vault, listed>>
    BY <1>3 DEF DropRefused, Saves, SaveFails, Goes, Ends
  <2> HIDE DEF without
  <2> QED BY <2>2, <2>3, KeepsDerives, FoundKept DEF Derived
<1>4. CASE RenewReserve
  <2>1. CASE Reserves(run.who) /\ Goes("renewStore")
    <3>1. pc' = "renewStore" /\ UNCHANGED <<vault, index, mem>> /\ listed \subseteq listed'
      BY <2>1 DEF Reserves, Goes
    <3>2. run'.park \in listed'
      <4>1. run.who \in Accounts
        BY <1>4 DEF RenewReserve, Asked, Asking
      <4>2. UNCHANGED toolLock
        BY <2>1 DEF Goes
      <4> QED BY <2>1, <4>1, <4>2, ReservesFits
    <3> QED BY <3>1, <3>2 DEF Found, AccountedIn
  <2>2. CASE ~(Reserves(run.who) /\ Goes("renewStore"))
    <3>1. UNCHANGED <<vault, index, listed, mem>> /\ pc' \in {"renewReserve", "renewLost"}
      BY <1>4, <2>2 DEF RenewReserve, TriesAgain, Goes, disk
    <3> QED BY <3>1, FoundKept DEF Derived
  <2> QED BY <2>1, <2>2
<1>5. CASE RenewStore
  <2>1. /\ run.park \in listed /\ UNCHANGED <<index, listed, mem>>
        /\ vault' \in {vault, [vault EXCEPT ![run.park] = run.fresh[run.who]]}
        /\ pc' \in {"renewRecord", "renewReserve", "renewLost"}
    BY <1>5 DEF RenewStore, TriesAgain, Goes, Found
  <2>2. \A n \in Names : vault'[n] \in {vault[n], NoLogin} \/ n \in listed'
    BY <2>1 DEF VaultTrue
  <2>3. Derived(mem)
    BY KeepsDerives
  <2> QED BY <2>1, <2>2, <2>3, FoundKept DEF Derived
<1>6. CASE RenewRecord
  <2> DEFINE a == run.who
  <2> DEFINE fresh == [name |-> run.park, login |-> run.fresh[a]]
  <2> DEFINE without == Discard(mem, mem.parked[a].name)
  <2> DEFINE renewed == ParkFor(without, a, fresh)
  <2>1. /\ a \in Accounts /\ mem.parked[a] # NoPark /\ run.fresh[a] \in Logins
        /\ Account(run.fresh[a]) = a /\ run.park \in Names /\ run.park[1] = a
        /\ run.park[2] <= clock /\ vault[run.park] = run.fresh[a]
    BY <1>6 DEF RenewRecord, Runs, Asked, Asking, Reserved
  <2>2. IndexTrue(without, vault, clock) /\ KeepsNames(mem, without)
    BY <2>1, DropOneFits
  <2>3. ParkOK(a, fresh, vault, clock)
    BY <2>1 DEF ParkOK, Parks
  <2> HIDE DEF without, fresh
  <2>4. KeepsNames(without, renewed)
    BY <2>1, <2>2, <2>3, ParkForFits
  <2>5. /\ index' \in {index, renewed} /\ mem' \in {index', renewed} /\ pc' \in {"idle", "ask", "lock"}
        /\ UNCHANGED <<vault, listed>>
    BY <1>6 DEF RenewRecord, Saves, SaveFails, Goes, Ends, without, fresh
  <2> HIDE DEF renewed
  <2>6. KeepsNames(mem, renewed)
    BY <2>2, <2>4 DEF KeepsNames
  <2> QED BY <2>5, <2>6, KeepsDerives, FoundKept DEF Derived
<1>7. CASE RenewLost
  <2> DEFINE without == Discard(mem, mem.parked[run.who].name)
  <2>1. run.who \in Accounts /\ mem.parked[run.who] # NoPark
    BY <1>7 DEF RenewLost, Asked, Asking
  <2>2. KeepsNames(mem, without)
    BY <2>1, DropOneFits
  <2>3. /\ index' \in {index, without} /\ mem' \in {index', without} /\ pc' \in {"idle", "ask"}
        /\ UNCHANGED <<vault, listed>>
    BY <1>7 DEF RenewLost, SaveFails, Goes, Ends
  <2> HIDE DEF without
  <2> QED BY <2>2, <2>3, KeepsDerives, FoundKept DEF Derived
<1> QED BY <1>1, <1>2, <1>3, <1>4, <1>5, <1>6, <1>7 DEF Renew

\* The steps of a change that write neither the vault nor, but to end, the index.
LEMMA FoundChangeQuiet ==
  ASSUME Inv, Found,
         Lock \/ Ready \/ NotReady \/ Reserve \/ WriteJournal \/ UndoClear \/ Install
           \/ Unverified \/ Corrupted \/ Holds \/ Clear \/ ParkUnreadable \/ UndoSave
  PROVE  Found'
<1>0. CASE Refuses \/ \E op \in Operations : Breaks(op)
  BY <1>0, FoundRefuses
<1> USE DEF Inv, DiskTrue, RunTrue
<1>1. CASE Ready
  <2>1. /\ UNCHANGED <<vault, index, listed, mem>>
        /\ pc' = IF run.going = "out" THEN "reserve" ELSE "journal"
        /\ run'.going = run.going
    BY <1>1 DEF Ready, Goes, disk, Runs
  <2> QED BY <2>1 DEF Found, AccountedIn
<1>2. CASE Reserve /\ ~Ends
  <2>1. /\ pc = "reserve" /\ pc' = "journal" /\ Reserves(run.out) /\ UNCHANGED toolLock
        /\ UNCHANGED <<vault, index, mem>> /\ listed \subseteq listed'
    BY <1>2 DEF Reserve, Reserves, Goes
  <2>2. run'.park \in listed'
    <3>1. run.out \in Accounts
      BY <2>1 DEF Reserved, Bound, Changing
    <3> QED BY <2>1, <3>1, ReservesFits
  <2> QED BY <2>1, <2>2 DEF Found, AccountedIn
<1>3. CASE WriteJournal /\ ~Breaks("journal")
  <2>1. /\ pc = "journal" /\ pc' = IF run.going = "out" THEN "parkStore" ELSE "install"
        /\ UNCHANGED <<vault, index, listed, mem, run>>
    BY <1>3 DEF WriteJournal, Goes
  <2> QED BY <2>1 DEF Found, AccountedIn
<1>4. CASE UndoSave /\ ~Breaks("save")
  <2>1. UNCHANGED <<vault, listed>> /\ pc' = "undoClear" /\ index' = mem /\ mem' = mem
    BY <1>4 DEF UndoSave, Saves, Goes
  <2> QED BY <2>1, FoundKept DEF Derived
<1>5. CASE Ends /\ UNCHANGED <<vault, index, listed>>
  BY <1>5, FoundOver DEF Derived
<1>6. CASE /\ UNCHANGED <<vault, index, listed, mem>>
           /\ pc' \in {"ready", "purge", "holds", "undoSave", "clear", "record"}
  BY <1>6, FoundKept DEF Derived
<1>7. CASE Lock \/ NotReady \/ Holds \/ ParkUnreadable
  BY <1>0, <1>6, <1>7 DEF Lock, NotReady, Holds, ParkUnreadable, Goes, disk, Operations
<1>8. CASE UndoClear \/ Install \/ Corrupted
  BY <1>6, <1>8 DEF UndoClear, Install, Corrupted, Installs, Goes
<1>9. CASE Unverified \/ Clear \/ (Reserve /\ Ends)
  <2>1. Ends /\ UNCHANGED <<vault, index, listed>>
    BY <1>9 DEF Unverified, Clear, Reserve, Installs, Reserves, Goes, Ends, disk
  <2> QED BY <1>5, <2>1
<1> QED BY <1>0, <1>1, <1>2, <1>3, <1>4, <1>7, <1>8, <1>9 DEF Operations

\* A change keeps every item accounted for.
LEMMA FoundChange ==
  ASSUME Inv, Found, Change
  PROVE  Found'
<1> USE DEF Inv, DiskTrue, RunTrue
<1>1. CASE ParkStore
  <2>1. /\ run.park \in listed /\ UNCHANGED <<index, listed, mem>>
        /\ vault' \in {vault, [vault EXCEPT ![run.park] = run.before]}
        /\ pc' \in {"parkRecord", "clear"}
    BY <1>1 DEF ParkStore, Goes, Found
  <2>2. \A n \in Names : vault'[n] \in {vault[n], NoLogin} \/ n \in listed'
    BY <2>1 DEF VaultTrue
  <2> QED BY <2>1, <2>2, FoundKept, KeepsDerives DEF Derived
<1>2. CASE ParkRecord
  <2> DEFINE park == [name |-> run.park, login |-> run.before]
  <2> DEFINE parked == ParkFor(mem, run.out, park)
  <2>1. /\ run.out \in Accounts /\ run.before \in Logins /\ Account(run.before) = run.out
        /\ run.park \in Names /\ run.park[1] = run.out /\ run.park[2] <= clock
        /\ vault[run.park] = run.before
    BY <1>2 DEF ParkRecord, Bound, Reserved, Changing
  <2>2. ParkOK(run.out, park, vault, clock)
    BY <2>1 DEF ParkOK, Parks
  <2>3. KeepsNames(mem, parked)
    BY <2>1, <2>2, ParkForFits
  <2>4. /\ mem' \in {mem, parked} /\ index' \in {index, parked} /\ pc' \in {"reread", "clear"}
        /\ vault' \in {vault, [vault EXCEPT ![run.park] = NoLogin]} /\ UNCHANGED listed
    BY <1>2 DEF ParkRecord, Saves, SaveFails, Goes
  <2> HIDE DEF parked
  <2>5. \A n \in Names : vault'[n] \in {vault[n], NoLogin}
    BY <2>4 DEF VaultTrue
  <2> QED BY <2>3, <2>4, <2>5, KeepsDerives, FoundKept DEF Derived
<1>3. CASE Reread \/ RolledBack
  <2>1. /\ UNCHANGED <<vault, index, listed>> /\ pc' \in {"install", "undoSave", "clear"}
        /\ mem' = mem \/ (run.park \in Names /\ mem' = Discard(mem, run.park))
    BY <1>3 DEF Reread, RolledBack, Installs, Goes, disk, Reserved
  <2>2. run.park \in Names => KeepsNames(mem, Discard(mem, run.park))
    BY DiscardFits
  <2> QED BY <2>1, <2>2, KeepsDerives, FoundKept DEF Derived
<1>4. CASE Record
  <2>1. CASE Breaks("save")
    BY <2>1, FoundRefuses DEF Operations
  <2>2. CASE ~Breaks("save")
    <3> DEFINE dropped == Discard(mem, run.inc.name)
    <3> DEFINE recorded == Identified(dropped, run.inc.login)
    <3>1. run.inc.name \in Names /\ run.inc.login \in Logins
      BY <1>4 DEF Record, Reserved, Changing, Parks
    <3>2. IndexTrue(dropped, vault, clock) /\ KeepsNames(mem, dropped)
      BY <3>1, DiscardFits
    <3> HIDE DEF dropped
    <3>3. KeepsNames(dropped, recorded)
      BY <3>1, <3>2, IdentifiedFits
    <3>4. index' = recorded /\ mem' = recorded /\ pc' = "purge" /\ UNCHANGED <<vault, listed>>
      BY <1>4, <2>2 DEF Record, Saves, dropped
    <3> HIDE DEF recorded
    <3>5. KeepsNames(mem, recorded)
      BY <3>2, <3>3 DEF KeepsNames
    <3> QED BY <3>4, <3>5, KeepsDerives, FoundKept
  <2> QED BY <2>1, <2>2
<1> QED BY <1>1, <1>2, <1>3, <1>4, FoundChangeQuiet DEF Change

\* Telling whose login it is, forgetting and giving up keep every item accounted for.
LEMMA FoundRest ==
  ASSUME Inv, Found,
         Abandon \/ Identify \/ IdentifyFails \/ IdentifyRefused \/ Forget \/ Prove \/ NotProved
  PROVE  Found'
<1> USE DEF Inv, DiskTrue, RunTrue
<1>0. CASE Refuses \/ \E op \in Operations : Breaks(op)
  BY <1>0, FoundRefuses
<1>1. CASE Abandon /\ ~Breaks("save")
  <2>1. KeepsNames(mem, index')
    BY <1>1, GivenUpFits DEF Abandon, Saves, Settling
  <2>2. mem' = index' /\ pc' = "clear" /\ UNCHANGED <<vault, listed>>
    BY <1>1 DEF Abandon, Saves, Goes
  <2> QED BY <2>1, <2>2, KeepsDerives, FoundKept
<1>2. CASE Identify
  <2> DEFINE found == Identified(mem, live)
  <2>1. KeepsNames(mem, found)
    BY <1>2, IdentifiedFits DEF Identify, Told
  <2>2. /\ index' \in {index, found} /\ mem' \in {index', found}
        /\ pc' \in {"idle", "forget", "prove"} /\ UNCHANGED <<vault, listed>>
    BY <1>2 DEF Identify, SaveFails, Goes, Ends
  <2> HIDE DEF found
  <2> QED BY <2>1, <2>2, KeepsDerives, FoundKept DEF Derived
<1>3. CASE (IdentifyFails \/ IdentifyRefused \/ Prove \/ NotProved) /\ ~Refuses
  <2>1. UNCHANGED <<vault, index, listed, mem>> /\ pc' \in {"forget", "prove", "lock", "ask"}
    BY <1>3 DEF IdentifyFails, IdentifyRefused, Prove, NotProved, Goes, disk
  <2> QED BY <2>1, FoundKept DEF Derived
<1>4. CASE Forget /\ ~Breaks("save")
  <2> DEFINE without == Removed(mem, run.to)
  <2>1. KeepsNames(mem, without)
    BY <1>4, RemovedFits DEF Forget, Bound
  <2>2. index' = without /\ mem' = without /\ pc' = "purge" /\ UNCHANGED <<vault, listed>>
    BY <1>4 DEF Forget, Saves, Goes
  <2> HIDE DEF without
  <2> QED BY <2>1, <2>2, KeepsDerives, FoundKept
<1> QED BY <1>0, <1>1, <1>2, <1>3, <1>4 DEF Operations

\* Killed anywhere, whatever failed before, a run leaves no item in the vault that
\* the index or the list of names does not lead a later run to (park.rs, pending.rs).
THEOREM EveryItemAccounted == Spec => []Accounted
<1>1. Inv /\ Found /\ [Next]_vars => Found'
  <2> SUFFICES ASSUME Inv, Found, [Next]_vars PROVE Found'
    OBVIOUS
  <2> QED BY FoundOutside, FoundSettle, FoundRenew, FoundChange, FoundRest DEF Next, Process
<1>2. Found => Accounted
  BY DEF Found, AccountedIn, Accounted
<1> QED BY InvHolds, FoundInit, <1>1, <1>2, PTL DEF Spec

-----------------------------------------------------------------------------
(* The tool's locks. *)

\* Nobody holds the tool's lock initially.
LEMMA LockedInit == Init => Locked
BY DEF Init, Locked, Writing

\* A step away from the writing steps that leaves the lock alone, or ends the run, keeps
\* who holds it true.
LEMMA LockedFree ==
  ASSUME Locked, UNCHANGED sess, toolLock' = toolLock \/ Ends,
         pc' \notin Writing \cup {"ready", "holds", "record"}
  PROVE  Locked'
<1>1. Locking => (sess # NoRenewal => toolLock = "session")
  BY DEF Locked
<1>2. Locking => (sess' # NoRenewal => toolLock' = "session")
  BY <1>1 DEF Ends
<1> QED BY <1>2 DEF Locked

\* The steps of a change keep who holds the tool's lock, and what it guards, true.
LEMMA LockedWrites ==
  ASSUME Inv, Locked, Change
  PROVE  Locked'
<1>1. CASE Lock \/ Ready \/ NotReady
  BY <1>1 DEF Lock, Ready, NotReady, Refuses, Breaks, Goes, Ends, Locked, Writing, disk, service,
              Inv, RunTrue, Runs
<1>2. CASE Reserve \/ WriteJournal
  <2>1. run'.before = run.before \/ Ends
    BY <1>2 DEF Reserve, WriteJournal, Breaks, Reserves, Goes, Inv, RunTrue, Runs
  <2> QED BY <1>2, <2>1 DEF Reserve, WriteJournal, Breaks, Reserves, Goes, Ends, Locked, Writing,
                            disk, service
<1>3. CASE ParkStore \/ ParkRecord
  BY <1>3 DEF ParkStore, ParkRecord, Goes, Locked, Writing, service
<1>4. CASE Reread \/ ParkUnreadable
  BY <1>4 DEF Reread, ParkUnreadable, Breaks, Goes, Ends, Locked, Writing, disk, service
<1>5. CASE Install \/ RolledBack \/ Unverified \/ Corrupted
  BY <1>5 DEF Install, RolledBack, Unverified, Corrupted, Installs, Goes, Ends, Locked, Writing,
              service
<1>6. CASE Holds
  BY <1>6 DEF Holds, Breaks, Goes, Ends, Locked, Writing, disk, service
<1>7. CASE Record
  BY <1>7 DEF Record, Breaks, Ends, Locked, Writing, disk, service
<1>8. CASE UndoSave \/ UndoClear \/ Clear
  BY <1>8, LockedFree DEF UndoSave, UndoClear, Clear, Breaks, Goes, Writing, disk, service, Ends
<1> QED BY <1>1, <1>2, <1>3, <1>4, <1>5, <1>6, <1>7, <1>8 DEF Change

\* Every step keeps who holds the tool's lock true.
LEMMA LockedKept ==
  ASSUME Inv, Locked, [Next]_vars
  PROVE  Locked'
<1>1. CASE World
  BY <1>1 DEF World, SessionSends, SessionSaves, LogOut, OutsideSignIn, ServiceRefuses, Locked,
              disk, process, NoRenewal, NoLogin, Inv, DiskTrue, WorldOK, Writing
<1>2. CASE Settle
  BY <1>2, LockedFree
     DEF Settle, ReconcileNothing, ReconcileTorn, ReconcileRead, Undetermined, Repair,
         ClearRepaired, Sweep, SweepSave, SweepList, FindTwins, NothingDue, DropTwins, Purge, PurgeSave,
         AfterPurge, ToSweep, Goes, Refuses, Breaks, Ends, Writing, disk, service
<1>3. CASE Renew
  BY <1>3, LockedFree
     DEF Renew, Ask, DropRefused, WriteFresh, NoMoreAnswers, RenewReserve, RenewStore, RenewRecord,
         RenewLost, Reserves, TriesAgain, Goes, Refuses, Ends, Writing, disk, service
<1>4. CASE Change
  BY <1>4, LockedWrites
<1>5. CASE Abandon \/ Identify \/ IdentifyFails \/ IdentifyRefused \/ Forget \/ Prove \/ NotProved
  BY <1>5, LockedFree
     DEF Abandon, Identify, IdentifyFails, IdentifyRefused, Forget, Prove, NotProved, Goes,
         Refuses, Breaks, Ends, Writing, disk, service
<1>6. CASE Crash \/ \E cmd \in Commands, a \in Accounts \cup {Nobody} : Start(cmd, a)
  BY <1>6, LockedFree DEF Crash, Start, Goes, Ends, Writing, disk, service
<1>7. CASE UNCHANGED vars
  BY <1>7 DEF Locked, vars, disk, world, service, process
<1> QED BY <1>1, <1>2, <1>3, <1>4, <1>5, <1>6, <1>7 DEF Next, Process

\* Claude Code's locks: nothing but a login the switch read, or an empty slot a
\* sign-out left, is under what it installs (switch/mod.rs, lock.rs).
THEOREM LocksGuardTheSlot == Spec => WritesOverWhatItRead
<1>1. Locked /\ Inv => [(Locking /\ pc = "install" /\ live' # live)
                           => live \in {run.before, NoLogin}]_vars
  BY DEF Locked, Writing
<1>2. Inv /\ Locked /\ [Next]_vars => Locked'
  BY LockedKept
<1> QED BY InvHolds, LockedInit, <1>1, <1>2, PTL DEF Spec, WritesOverWhatItRead

-----------------------------------------------------------------------------
(* Codex: no login parked and signed in at once, once nothing is left to do. *)

\* A login the service has given so far.
Known(l, given) == l \in Logins => l[2] <= given[l[1]]

\* Parks only of enrolled accounts.
Enrolls(ix) == \A a \in Accounts : ix.parked[a] # NoPark => a \in ix.enrolled

\* Every login held but by the slot and by a session.
Copies ==
  {vault[n] : n \in Names} \cup {index.parked[a].login : a \in Accounts}
    \cup {mem.parked[a].login : a \in Accounts} \cup {run.fresh[a] : a \in Accounts}
    \cup {journal.fromLogin, journal.toLogin, run.before, run.inc.login}

\* Every login held was issued, a session's answer is nobody else's yet, and nothing
\* is under a name not reserved, nor under the one going out until it is parked.
Dated ==
  /\ \A l \in Copies \cup {live, sess.fresh} : Known(l, issued)
  /\ sess.fresh \in Logins => sess.fresh \notin Copies \cup {live}
  /\ \A n \in Names : vault[n] # NoLogin => n[2] <= clock
  /\ pc \in {"journal", "parkStore"} /\ run.going = "out" => vault[run.park] = NoLogin

\* The login signed in is not parked.
Apart(ix) == \A a \in Accounts : ix.parked[a].login = live => live \notin Logins

\* Steps of a change from the journal written to the slot recorded.
Journaled == {"parkStore", "parkRecord", "reread", "install", "holds", "record"}

\* Steps with the login going in at hand.
Incoming == {"lock", "ready", "reserve", "journal"} \cup Journaled

\* Steps a journal may be there at.
Unsettled ==
  pc \in {"idle", "reconcile", "repair", "clearRepaired", "abandon", "undoSave", "undoClear",
          "clear"} \cup Journaled
    \/ (pc \in {"purge", "purgeSave"} /\ run.next = "clear")

\* Only enrolled accounts have parks, the index in mind is the saved one but where it is
\* about to be saved, and nothing goes on over a journal.
Coherent ==
  /\ Enrolls(index) /\ Enrolls(mem)
  /\ pc \notin {"sweep", "undoSave", "purgeSave"} => mem = index
  /\ ~Unsettled => journal = NoJournal
  /\ run.going # "refused"

\* The login signed in is parked only while a journal says so.
Parted ==
  (journal = NoJournal
     \/ pc \notin {"idle", "reconcile", "repair", "abandon", "reread", "install", "holds", "record"})
  => Apart(index) /\ Apart(mem)

\* Then it is one of the journal's two logins, under the name the journal has for it.
TwinNamed(ix) ==
  /\ ix.parked[journal.to].login = journal.toLogin => ix.parked[journal.to].name = journal.incoming
  /\ \A a \in Accounts : ix.parked[a].login = live /\ live \in Logins =>
       /\ \/ ix.parked[a].name = journal.park /\ live = journal.fromLogin
          \/ ix.parked[a].name = journal.incoming /\ live = journal.toLogin
       /\ vault[ix.parked[a].name] # NoLogin

JournalParted ==
  journal # NoJournal =>
    /\ journal.fromLogin # journal.toLogin
    /\ journal.park # NoName => vault[journal.park] \in {NoLogin, journal.fromLogin}
    /\ vault[journal.incoming] \in {NoLogin, journal.toLogin}
    /\ TwinNamed(index) /\ TwinNamed(mem)

\* What a run goes by as it repairs, renews and changes.
RunParted ==
  /\ pc = "repair" => live = run.seen \/ live \notin Copies \cap Logins
  /\ pc \in Asking => \A a \in Accounts : run.fresh[a] = live => live \notin Logins
  /\ pc \in Incoming => index.parked[run.to] = run.inc /\ vault[run.inc.name] = run.inc.login
  /\ pc \in Incoming \ {"lock", "ready"} => run.before # run.inc.login
  /\ pc \in Journaled =>
       /\ journal # NoJournal /\ journal.to = run.to /\ journal.park = run.park
       /\ journal.incoming = run.inc.name
       /\ journal.fromLogin = run.before /\ journal.toLogin = run.inc.login
  /\ pc \in {"reread", "install"} => live # run.inc.login
  /\ pc \in {"holds", "record"} => live # run.before \/ live \notin Logins

Twinless == Dated /\ Coherent /\ Parted /\ JournalParted /\ RunParted

\* Codex, and nothing has failed.
Moving == ~Locking /\ faults = 0

-----------------------------------------------------------------------------
(* How an index is made of another. *)

\* Parks are dropped, and one may be recorded.
Adds(ix, iy, p) == Enrolls(iy) /\ \A a \in Accounts : iy.parked[a] \in {ix.parked[a], NoPark, p}

\* An index adds nothing to itself.
LEMMA AddsItself ==
  ASSUME NEW ix, Enrolls(ix)
  PROVE  Adds(ix, ix, NoPark)
BY DEF Adds

\* A discard drops the parks under one name and nothing else.
LEMMA DiscardAdds ==
  ASSUME NEW ix, NEW n, ix \in Indexes, Enrolls(ix)
  PROVE  /\ Adds(ix, Discard(ix, n), NoPark)
         /\ \A a \in Accounts : Discard(ix, n).parked[a] =
              IF ix.parked[a].name = n THEN NoPark ELSE ix.parked[a]
         /\ Discard(ix, n).enrolled = ix.enrolled
BY DEF Indexes, Discard, LetGo, Adds, Enrolls

\* Parking adds the one park, for an account enrolled.
LEMMA ParkForAdds ==
  ASSUME NEW ix, NEW a \in Accounts, NEW p, ix \in Indexes, Enrolls(ix)
  PROVE  Adds(ix, ParkFor(ix, a, p), p) /\ ParkFor(ix, a, p).enrolled = ix.enrolled
<1> DEFINE with == [ix EXCEPT !.parked[a] = p]
<1>1. CASE a \notin ix.enrolled
  BY <1>1 DEF ParkFor, Adds, Enrolls
<1>2. CASE a \in ix.enrolled
  <2>1. /\ with.parked = [ix.parked EXCEPT ![a] = p] /\ with.enrolled = ix.enrolled
        /\ with.discarded = ix.discarded
    BY DEF Indexes
  <2>2. \A b \in Accounts : with.parked[b] = IF b = a THEN p ELSE ix.parked[b]
    BY <2>1 DEF Indexes
  <2>3. PICK old : old = ix.parked[a].name
    OBVIOUS
  <2>4. ParkFor(ix, a, p) = with \/ ParkFor(ix, a, p) = Discard(with, old)
    BY <1>2, <2>3 DEF ParkFor
  <2>5. /\ Discard(with, old).enrolled = with.enrolled
        /\ \A b \in Accounts : Discard(with, old).parked[b] =
             IF with.parked[b].name = old THEN NoPark ELSE with.parked[b]
    BY DEF Discard, LetGo, Indexes
  <2> HIDE DEF with
  <2> QED BY <1>2, <2>1, <2>2, <2>4, <2>5 DEF Adds, Enrolls
<1> QED BY <1>1, <1>2

\* Forgetting an account drops its park.
LEMMA RemovedAdds ==
  ASSUME NEW ix, NEW a \in Accounts, ix \in Indexes, Enrolls(ix)
  PROVE  Adds(ix, Removed(ix, a), NoPark)
BY DEF Indexes, Removed, Discard, LetGo, Adds, Enrolls

\* Discarding many names only drops parks.
LEMMA DiscardAllAdds ==
  ASSUME NEW ix, NEW ns, ix \in Indexes, Enrolls(ix)
  PROVE  Adds(ix, DiscardAll(ix, ns), NoPark)
BY DEF Indexes, DiscardAll, Adds, Enrolls

\* Recording whose the login is touches no park.
LEMMA IdentifiedAdds ==
  ASSUME NEW ix, NEW l, ix \in Indexes, Enrolls(ix)
  PROVE  Adds(ix, Identified(ix, l), NoPark) /\ Identified(ix, l).parked = ix.parked
BY DEF Indexes, Identified, Adds, Enrolls

\* Parks dropped before or after one is recorded are dropped all the same.
LEMMA AddsOn ==
  ASSUME NEW ix, NEW iy, NEW iz, NEW p, \/ Adds(ix, iy, NoPark) /\ Adds(iy, iz, p)
                                        \/ Adds(ix, iy, p) /\ Adds(iy, iz, NoPark)
  PROVE  Adds(ix, iz, p)
BY DEF Adds

\* The login signed in stays apart where it is let be and not the one recorded.
LEMMA AddsApart ==
  ASSUME NEW ix, NEW iy, NEW p, Apart(ix), Adds(ix, iy, p), p.login = live => live \notin Logins
  PROVE  Apart(iy)
BY NobodyNamed DEF Apart, Adds, NoPark

\* No parks but those there were and the one recorded.
LEMMA AddsCopies ==
  ASSUME NEW iy, NEW p, Adds(mem, iy, p)
  PROVE  \A a \in Accounts : iy.parked[a].login \in Copies \cup {NoLogin, p.login}
BY DEF Adds, Copies, NoPark

\* What is held after a step, part by part.
LEMMA CopiesOver ==
  ASSUME NEW S, \A n \in Names : vault'[n] \in S,
         \A a \in Accounts : /\ index'.parked[a].login \in S /\ mem'.parked[a].login \in S
                            /\ run'.fresh[a] \in S,
         journal'.fromLogin \in S, journal'.toLogin \in S, run'.before \in S, run'.inc.login \in S
  PROVE  Copies' \subseteq S
<1> SUFFICES ASSUME NEW l \in Copies' PROVE l \in S
  OBVIOUS
<1>1. \/ \E n \in Names : l = vault'[n]
      \/ \E a \in Accounts : l = index'.parked[a].login \/ l = mem'.parked[a].login \/ l = run'.fresh[a]
      \/ l \in {journal'.fromLogin, journal'.toLogin, run'.before, run'.inc.login}
  BY DEF Copies
<1> QED BY <1>1

\* What is held after a step that makes nothing up was issued.
LEMMA DatedOver ==
  ASSUME Dated, Copies' \subseteq Copies \cup {live, NoLogin},
         live' \in Copies \cup {live, NoLogin, Torn}, UNCHANGED <<sess, issued>>,
         \A n \in Names : vault'[n] # NoLogin => n[2] <= clock',
         pc' \in {"journal", "parkStore"} /\ run'.going = "out" => vault'[run'.park] = NoLogin
  PROVE  Dated'
<1> DEFINE S == Copies \cup {live, NoLogin, Torn}
<1>1. \A l \in S \cup {sess.fresh} : Known(l, issued)
  BY NobodyNamed DEF Dated, Known
<1>2. sess.fresh \in Logins => sess.fresh \notin S
  BY NobodyNamed DEF Dated
<1>3. Copies' \cup {live'} \subseteq S
  OBVIOUS
<1>4. sess'.fresh = sess.fresh /\ issued' = issued
  OBVIOUS
<1> HIDE DEF S
<1>5. \A l \in Copies' \cup {live', sess'.fresh} : Known(l, issued')
  BY <1>1, <1>3, <1>4
<1>6. sess'.fresh \in Logins => sess'.fresh \notin Copies' \cup {live'}
  BY <1>2, <1>3, <1>4
<1> QED BY <1>5, <1>6 DEF Dated

\* A step of a run with no journal left behind it, that lets the slot be and records
\* nothing that is signed in.
LEMMA FreeStep ==
  ASSUME Inv, Twinless, Apart(index), Apart(mem), journal' = NoJournal,
         UNCHANGED <<live, sess, issued>>,
         NEW iy, NEW p, Adds(mem, iy, p), p.login \in Copies \cup {live, NoLogin},
         p.login = live => live \notin Logins,
         index' \in {index, iy}, mem' \in {index', iy},
         pc' \in {"sweep", "purgeSave"} \/ mem' = index',
         \A n \in Names : vault'[n] \in Copies \cup {NoLogin} /\ (vault'[n] # NoLogin => n[2] <= clock'),
         \A a \in Accounts : run'.fresh[a] \in Copies \cup {NoLogin},
         run'.before \in Copies \cup {live, NoLogin},
         run'.inc.login \in Copies \cup {live, NoLogin},
         run'.going # "refused", pc' \notin Journaled \cup {"repair"},
         pc' = "journal" /\ run'.going = "out" => vault'[run'.park] = NoLogin,
         pc' \in Asking => \A a \in Accounts : run'.fresh[a] = live => live \notin Logins,
         pc' \in {"lock", "ready", "reserve", "journal"} =>
           index'.parked[run'.to] = run'.inc /\ vault'[run'.inc.name] = run'.inc.login,
         pc' \in {"reserve", "journal"} => run'.before # run'.inc.login
  PROVE  Twinless'
<1>1. /\ \A a \in Accounts : index.parked[a].login \in Copies /\ mem.parked[a].login \in Copies
  BY DEF Copies
<1>2. \A a \in Accounts : iy.parked[a].login \in Copies \cup {live, NoLogin}
  BY AddsCopies
<1>3. \A a \in Accounts : /\ index'.parked[a].login \in Copies \cup {live, NoLogin}
                          /\ mem'.parked[a].login \in Copies \cup {live, NoLogin}
  BY <1>1, <1>2
<1>4. journal'.fromLogin = NoLogin /\ journal'.toLogin = NoLogin
  BY DEF NoJournal
<1>5. Copies' \subseteq Copies \cup {live, NoLogin}
  <2> DEFINE S == Copies \cup {live, NoLogin}
  <2>1. /\ \A n \in Names : vault'[n] \in S
        /\ \A a \in Accounts : /\ index'.parked[a].login \in S /\ mem'.parked[a].login \in S
                              /\ run'.fresh[a] \in S
        /\ journal'.fromLogin \in S /\ journal'.toLogin \in S
        /\ run'.before \in S /\ run'.inc.login \in S
    BY <1>3, <1>4
  <2> HIDE DEF S
  <2>2. Copies' \subseteq S
    BY <2>1, CopiesOver
  <2> QED BY <2>2 DEF S
<1>6. Dated'
  <2>1. pc' \in {"journal", "parkStore"} /\ run'.going = "out" => vault'[run'.park] = NoLogin
    BY DEF Journaled
  <2> QED BY <1>5, <2>1, DatedOver DEF Twinless
<1>7. Enrolls(index) /\ Enrolls(mem) /\ Enrolls(iy) /\ Apart(iy)
  BY AddsApart DEF Twinless, Coherent, Adds
<1>8. Coherent'
  BY <1>7 DEF Coherent, Enrolls
<1>9. Parted' /\ JournalParted'
  BY <1>7 DEF Parted, JournalParted, Apart
<1>10. RunParted'
  BY DEF RunParted, Journaled, Incoming
<1> QED BY <1>6, <1>8, <1>9, <1>10 DEF Twinless

-----------------------------------------------------------------------------
(* The tool, the person and the service; starting and dying. *)

\* The login issued next is nobody's yet, and what was issued stays so.
LEMMA FreshUnknown ==
  ASSUME Inv, NEW a \in Accounts, Issues(a)
  PROVE  /\ Fresh(a) \in Logins /\ Account(Fresh(a)) = a /\ ~Known(Fresh(a), issued)
         /\ Known(Fresh(a), issued') /\ \A b \in Accounts : issued[b] <= issued'[b]
         /\ \A l \in Logins : Known(l, issued) => l # Fresh(a) /\ Known(l, issued')
<1>1. Fresh(a) \in Logins /\ Account(Fresh(a)) = a
  BY FreshFits DEF Inv, DiskTrue
<1>2. Fresh(a)[1] = a /\ Fresh(a)[2] = issued[a] + 1
  BY DEF Fresh
<1>3. /\ issued[a] \in Nat /\ issued'[a] = issued[a] + 1
      /\ \A b \in Accounts : issued[b] \in Nat /\ issued'[b] \in Nat /\ issued[b] <= issued'[b]
  BY SwitchBounds DEF Inv, DiskTrue, WorldOK, Issues
<1>4. ~Known(Fresh(a), issued) /\ Known(Fresh(a), issued')
  BY <1>1, <1>2, <1>3 DEF Known
<1>5. \A l \in Logins : Known(l, issued) => l # Fresh(a) /\ Known(l, issued')
  <2> SUFFICES ASSUME NEW l \in Logins, Known(l, issued) PROVE l # Fresh(a) /\ Known(l, issued')
    OBVIOUS
  <2>1. l[1] \in Accounts /\ l[2] \in Nat
    BY SwitchBounds DEF Logins
  <2> QED BY <1>3, <1>4, <2>1 DEF Known
<1> QED BY <1>1, <1>3, <1>4, <1>5

\* Nothing held is the login issued next.
LEMMA FreshUncopied ==
  ASSUME Inv, Dated, NEW a \in Accounts, Issues(a)
  PROVE  /\ Fresh(a) \in Logins \ (Copies \cup {live, sess.fresh})
         /\ \A l \in Copies \cup {live, sess.fresh, Fresh(a), NoLogin} : Known(l, issued')
<1>1. /\ Fresh(a) \in Logins /\ Account(Fresh(a)) = a /\ ~Known(Fresh(a), issued)
      /\ Known(Fresh(a), issued')
      /\ \A l \in Logins : Known(l, issued) => l # Fresh(a) /\ Known(l, issued')
  BY FreshUnknown
<1>2. \A l \in Copies \cup {live, sess.fresh} : Known(l, issued)
  BY DEF Dated
<1>3. \A l : l \notin Logins => Known(l, issued')
  BY DEF Known
<1> HIDE DEF Known
<1> QED BY <1>1, <1>2, <1>3, NobodyNamed

\* The slot is let be, emptied, or given a login found nowhere else.
LEMMA SlotMoves ==
  ASSUME Inv, Twinless, UNCHANGED <<vault, index, journal, listed, clock, process>>,
         live' = live \/ live' \notin Copies \cap Logins, Dated'
  PROVE  Twinless'
<1>1. Copies' = Copies
  BY DEF Copies, process
<1>2. /\ \A a \in Accounts : /\ index.parked[a].login \in Copies /\ mem.parked[a].login \in Copies
                             /\ run.fresh[a] \in Copies
      /\ {journal.fromLogin, journal.toLogin, run.before, run.inc.login} \subseteq Copies
  BY DEF Copies
<1>3. \A ix \in {index, mem} : Apart(ix) => Apart(ix)'
  BY <1>2 DEF Apart
<1>4. Coherent'
  BY DEF Twinless, Coherent, Unsettled, process, Enrolls
<1>5. Parted'
  BY <1>3 DEF Twinless, Parted, process, Apart
<1>6. \A ix \in {index, mem} : journal # NoJournal => (TwinNamed(ix) => TwinNamed(ix)')
  BY <1>2 DEF TwinNamed
<1>7. JournalParted'
  BY <1>2 DEF Twinless, JournalParted, process, TwinNamed
<1>8. RunParted'
  <2>1. (pc = "repair" => live = run.seen \/ live \notin Copies \cap Logins)'
    BY <1>1 DEF Twinless, RunParted, process
  <2>2. (pc \in Asking => \A a \in Accounts : run.fresh[a] = live => live \notin Logins)'
    BY <1>2 DEF Twinless, RunParted, process
  <2>3. (pc \in Incoming => index.parked[run.to] = run.inc /\ vault[run.inc.name] = run.inc.login)'
    BY DEF Twinless, RunParted, process
  <2>4. (/\ pc \in Incoming \ {"lock", "ready"} => run.before # run.inc.login
         /\ pc \in Journaled =>
              /\ journal # NoJournal /\ journal.to = run.to /\ journal.park = run.park
              /\ journal.incoming = run.inc.name
              /\ journal.fromLogin = run.before /\ journal.toLogin = run.inc.login)'
    BY DEF Twinless, RunParted, process
  <2>5. (pc \in {"reread", "install"} => live # run.inc.login)'
    <3>1. SUFFICES ASSUME pc \in {"reread", "install"} PROVE live' # run.inc.login
      BY DEF process
    <3>2. run.inc.login \in Logins
      BY <3>1 DEF Inv, RunTrue, Reserved, Changing, Parks
    <3> QED BY <1>2, <3>1, <3>2 DEF Twinless, RunParted
  <2>6. (pc \in {"holds", "record"} => live # run.before \/ live \notin Logins)'
    BY <1>2 DEF Twinless, RunParted, process
  <2> QED BY <2>1, <2>2, <2>3, <2>4, <2>5, <2>6 DEF RunParted
<1> QED BY <1>4, <1>5, <1>7, <1>8 DEF Twinless

\* Whatever the tool, the person and the service do, only a login found nowhere else
\* comes into the slot.
LEMMA WorldTwinless ==
  ASSUME Inv, Twinless, ~Locking, World
  PROVE  Twinless'
<1>0. Dated
  BY DEF Twinless
<1>1. UNCHANGED <<vault, index, journal, listed, clock, process>>
  BY DEF World, SessionSends, SessionSaves, LogOut, OutsideSignIn, ServiceRefuses, disk
<1>2. Copies' = Copies
  BY <1>1 DEF Copies, process
<1>3. /\ \A n \in Names : vault'[n] # NoLogin => n[2] <= clock'
      /\ pc' \in {"journal", "parkStore"} /\ run'.going = "out" => vault'[run'.park] = NoLogin
  BY <1>0, <1>1 DEF Dated, process
<1>4. CASE SessionSends
  <2>1. PICK a \in Accounts : Issues(a) /\ sess'.fresh = Fresh(a)
    <3>1. Account(live) \in Accounts
      BY <1>4 DEF SessionSends, Inv, DiskTrue, WorldOK, Account, Logins
    <3> QED BY <1>4, <3>1 DEF SessionSends
  <2>2. live' = live
    BY <1>4 DEF SessionSends, disk
  <2>3. Dated'
    BY <1>0, <1>2, <1>3, <2>1, <2>2, FreshUncopied DEF Dated
  <2> QED BY <1>1, <2>2, <2>3, SlotMoves
<1>5. CASE SessionSaves
  <2>1. live' \in {live, sess.fresh} /\ sess' = NoRenewal /\ issued' = issued
    BY <1>5 DEF SessionSaves
  <2>2. sess'.fresh = NoLogin
    BY <2>1 DEF NoRenewal
  <2>3. live' = live \/ live' \notin Copies \cap Logins
    BY <1>0, <2>1 DEF Dated
  <2>4. Dated'
    BY <1>0, <1>2, <1>3, <2>1, <2>2, NobodyNamed DEF Dated, Known
  <2> QED BY <1>1, <2>3, <2>4, SlotMoves
<1>6. CASE LogOut
  <2>1. live' = NoLogin /\ UNCHANGED <<sess, issued>>
    BY <1>6 DEF LogOut
  <2>2. Dated'
    BY <1>0, <1>2, <1>3, <2>1, NobodyNamed DEF Dated, Known
  <2> QED BY <1>1, <2>1, <2>2, NobodyNamed, SlotMoves
<1>7. ASSUME NEW a \in Accounts, OutsideSignIn(a) PROVE Twinless'
  <2>1. Issues(a) /\ live' = Fresh(a) /\ sess' = sess
    BY <1>7 DEF OutsideSignIn
  <2>2. Dated'
    BY <1>0, <1>2, <1>3, <2>1, FreshUncopied DEF Dated
  <2>3. live' \notin Copies
    BY <1>0, <2>1, FreshUncopied
  <2> QED BY <1>1, <2>2, <2>3, SlotMoves
<1>8. ASSUME NEW l \in Logins, ServiceRefuses(l) PROVE Twinless'
  <2>1. UNCHANGED <<live, sess, issued>>
    BY <1>8 DEF ServiceRefuses, disk
  <2>2. Dated'
    BY <1>0, <1>2, <1>3, <2>1 DEF Dated
  <2> QED BY <1>1, <2>1, <2>2, SlotMoves
<1> QED BY <1>4, <1>5, <1>6, <1>7, <1>8 DEF World

\* A run that stops where it is, and one killed.
LEMMA StopsTwinless ==
  ASSUME Inv, Twinless, Ends, UNCHANGED <<vault, index, journal, clock, sess, issued>>,
         live' \in {live, Torn}
  PROVE  Twinless'
<1>1. pc' = "idle" /\ run' = NoRun /\ mem' = index
  BY DEF Ends
<1>2. Dated'
  <2>1. Copies' \subseteq Copies \cup {live, NoLogin}
    <3> DEFINE S == Copies \cup {live, NoLogin}
    <3>1. /\ \A n \in Names : vault'[n] \in S
          /\ \A a \in Accounts : index'.parked[a].login \in S /\ mem'.parked[a].login \in S
          /\ journal'.fromLogin \in S /\ journal'.toLogin \in S
      BY <1>1 DEF Copies
    <3>2. /\ \A a \in Accounts : run'.fresh[a] \in S
          /\ run'.before \in S /\ run'.inc.login \in S
      BY <1>1 DEF NoRun, NoPark
    <3> HIDE DEF S
    <3>3. Copies' \subseteq S
      BY <3>1, <3>2, CopiesOver
    <3> QED BY <3>3 DEF S
  <2>2. \A n \in Names : vault'[n] # NoLogin => n[2] <= clock'
    BY DEF Twinless, Dated
  <2> QED BY <1>1, <2>1, <2>2, DatedOver DEF Twinless
<1>3. Coherent'
  BY <1>1 DEF Twinless, Coherent, Unsettled, Enrolls, NoRun
<1>4. Parted'
  BY <1>1, NobodyNamed DEF Twinless, Parted, Apart
<1>5. JournalParted'
  BY <1>1, NobodyNamed DEF Twinless, JournalParted, TwinNamed
<1>6. RunParted'
  BY <1>1 DEF RunParted, Asking, Incoming, Journaled
<1> QED BY <1>2, <1>3, <1>4, <1>5, <1>6 DEF Twinless

\* Starting a command.
LEMMA StartTwinless ==
  ASSUME Inv, Twinless, NEW cmd \in Commands, NEW a \in Accounts \cup {Nobody}, Start(cmd, a)
  PROVE  Twinless'
<1>1. /\ pc = "idle" /\ mem' = index /\ run' = [NoRun EXCEPT !.cmd = cmd, !.to = a]
      /\ pc' \in {"twins", "abandon", "reconcile"} /\ (pc' = "twins" => journal = NoJournal)
      /\ UNCHANGED <<live, vault, index, journal, clock, sess, issued>>
  BY DEF Start, Goes, disk, service
<1>2. /\ run'.before = NoLogin /\ run'.inc = NoPark /\ run'.going = "out"
      /\ \A b \in Accounts : run'.fresh[b] = NoLogin
  BY <1>1 DEF NoRun
<1>3. Dated'
  <2>1. Copies' \subseteq Copies \cup {live, NoLogin}
    <3> DEFINE S == Copies \cup {live, NoLogin}
    <3>1. /\ \A n \in Names : vault'[n] \in S
          /\ \A b \in Accounts : index'.parked[b].login \in S /\ mem'.parked[b].login \in S
          /\ journal'.fromLogin \in S /\ journal'.toLogin \in S
      BY <1>1 DEF Copies
    <3>2. /\ \A b \in Accounts : run'.fresh[b] \in S
          /\ run'.before \in S /\ run'.inc.login \in S
      BY <1>2 DEF NoPark
    <3> HIDE DEF S
    <3>3. Copies' \subseteq S
      BY <3>1, <3>2, CopiesOver
    <3> QED BY <3>3 DEF S
  <2>2. \A n \in Names : vault'[n] # NoLogin => n[2] <= clock'
    BY <1>1 DEF Twinless, Dated
  <2> QED BY <1>1, <2>1, <2>2, DatedOver DEF Twinless
<1>4. Coherent'
  BY <1>1, <1>2 DEF Twinless, Coherent, Unsettled, Enrolls
<1>5. Parted'
  BY <1>1 DEF Twinless, Parted, Apart
<1>6. JournalParted'
  BY <1>1 DEF Twinless, JournalParted, TwinNamed
<1>7. RunParted'
  BY <1>1 DEF RunParted, Asking, Incoming, Journaled
<1> QED BY <1>3, <1>4, <1>5, <1>6, <1>7 DEF Twinless

-----------------------------------------------------------------------------
(* Settling. *)

\* Where nothing fails, nothing breaks.
LEMMA NothingFails ==
  ASSUME faults = 0, faults' = 0
  PROVE  \A op : ~Fault(op) /\ ~Breaks(op) /\ ~SaveFails
BY DEF Fault, Breaks, SaveFails

\* An early return.
LEMMA RefusesTwinless ==
  ASSUME Inv, Twinless, Refuses
  PROVE  Twinless'
BY StopsTwinless DEF Refuses, disk, service

\* A step away from a change, with no journal left behind it, that touches no item.
LEMMA FreeRun ==
  ASSUME Inv, Twinless, Apart(index), Apart(mem), journal' = NoJournal,
         UNCHANGED <<live, clock, sess, issued>>,
         \A n \in Names : vault'[n] \in {vault[n], NoLogin},
         NEW iy, NEW p, Adds(mem, iy, p), p.login \in Copies \cup {NoLogin},
         p.login = live => live \notin Logins,
         index' \in {index, iy}, mem' \in {index', iy},
         pc' \in {"sweep", "purgeSave"} \/ mem' = index',
         \A a \in Accounts : run'.fresh[a] \in {run.fresh[a], NoLogin},
         run'.before \in {run.before, NoLogin}, run'.inc \in {run.inc, NoPark},
         run'.going # "refused", pc' \notin Incoming \cup {"repair"},
         pc' \in Asking => \A a \in Accounts : run'.fresh[a] = live => live \notin Logins
  PROVE  Twinless'
<1>1. /\ \A n \in Names : /\ vault[n] \in Copies
      /\ \A a \in Accounts : run.fresh[a] \in Copies
      /\ run.before \in Copies /\ run.inc.login \in Copies
  BY DEF Copies
<1>2. \A n \in Names : vault'[n] \in Copies \cup {NoLogin} /\ (vault'[n] # NoLogin => n[2] <= clock')
  BY <1>1 DEF Twinless, Dated
<1>3. /\ \A a \in Accounts : run'.fresh[a] \in Copies \cup {NoLogin}
      /\ run'.before \in Copies \cup {live, NoLogin} /\ run'.inc.login \in Copies \cup {live, NoLogin}
  BY <1>1 DEF NoPark
<1>4. pc' \notin Journaled \cup {"repair", "lock", "ready", "reserve", "journal"}
  BY DEF Incoming
<1> QED BY <1>2, <1>3, <1>4, FreeStep

\* A step that leaves the journal where it is, and nothing parked that is signed in.
LEMMA ApartStep ==
  ASSUME Inv, Twinless, journal # NoJournal, UNCHANGED <<journal, live, clock, sess, issued>>,
         \A n \in Names : vault'[n] \in {vault[n], NoLogin},
         NEW iy, NEW p, Adds(mem, iy, p), p.login \in Copies \cup {NoLogin},
         p.login # journal.toLogin,
         index' \in {index, iy}, mem' \in {index', iy},
         Apart(index'), Apart(mem'),
         pc' \in {"undoSave", "purgeSave"} \/ mem' = index',
         \/ pc' \in {"clearRepaired", "clear", "undoSave", "undoClear"}
         \/ pc' \in {"purge", "purgeSave"} /\ run'.next = "clear",
         \A a \in Accounts : run'.fresh[a] \in {run.fresh[a], NoLogin},
         run'.before = run.before, run'.inc = run.inc, run'.going # "refused"
  PROVE  Twinless'
<1> DEFINE S == Copies \cup {live, NoLogin}
<1>1. /\ \A n \in Names : vault'[n] \in S
      /\ \A a \in Accounts : run'.fresh[a] \in S
      /\ run'.before \in S /\ run'.inc.login \in S
      /\ journal'.fromLogin \in S /\ journal'.toLogin \in S
  BY DEF Copies
<1>2. \A a \in Accounts : index'.parked[a].login \in S /\ mem'.parked[a].login \in S
  <2>1. \A a \in Accounts : iy.parked[a].login \in S
    BY AddsCopies
  <2>2. \A a \in Accounts : index.parked[a].login \in S
    BY DEF Copies
  <2> QED BY <2>1, <2>2
<1>3. Copies' \subseteq S
  <2> HIDE DEF S
  <2> QED BY <1>1, <1>2, CopiesOver
<1>4. Dated'
  <2>1. \A n \in Names : vault'[n] # NoLogin => n[2] <= clock'
    BY DEF Twinless, Dated
  <2> QED BY <1>3, <2>1, DatedOver DEF Twinless
<1>5. Enrolls(index) /\ Enrolls(mem) /\ Enrolls(iy)
  BY DEF Twinless, Coherent, Adds
<1>6. Coherent'
  BY <1>5 DEF Coherent, Unsettled, Enrolls
<1>7. Parted'
  BY DEF Parted, Apart
<1>8. JournalParted'
  <2>1. /\ TwinNamed(index) /\ TwinNamed(mem) /\ journal.fromLogin # journal.toLogin
        /\ journal.park # NoName => vault[journal.park] \in {NoLogin, journal.fromLogin}
        /\ vault[journal.incoming] \in {NoLogin, journal.toLogin}
    BY DEF Twinless, JournalParted
  <2>2. /\ journal.to \in Accounts /\ journal.toLogin # NoLogin /\ journal.incoming \in Names
        /\ journal.park # NoName => journal.park \in Names
    BY NobodyNamed DEF Inv, DiskTrue, JournalTrue, Journals
  <2>3. iy.parked[journal.to].login = journal.toLogin
          => iy.parked[journal.to].name = journal.incoming
    BY <2>1, <2>2 DEF Adds, NoPark, TwinNamed
  <2>4. /\ \A ix \in {index', mem'} : /\ ix.parked[journal.to].login = journal.toLogin
                                          => ix.parked[journal.to].name = journal.incoming
                                      /\ \A a \in Accounts : ix.parked[a].login = live => live \notin Logins
    BY <2>1, <2>3 DEF TwinNamed, Apart
  <2>5. TwinNamed(index)' /\ TwinNamed(mem)'
    BY <2>4 DEF TwinNamed
  <2>6. /\ journal.park # NoName => vault'[journal.park] \in {NoLogin, journal.fromLogin}
        /\ vault'[journal.incoming] \in {NoLogin, journal.toLogin}
    BY <2>1, <2>2
  <2> QED BY <2>1, <2>5, <2>6 DEF JournalParted
<1>9. RunParted'
  BY DEF RunParted, Asking, Incoming, Journaled
<1> QED BY <1>4, <1>6, <1>7, <1>8, <1>9 DEF Twinless

\* A login parked is its account's, under a name of its account's.
LEMMA ParkedOwn ==
  ASSUME Inv, NEW ix \in {index, mem}, NEW a \in Accounts, ix.parked[a].login \in Logins
  PROVE  /\ ix.parked[a] # NoPark /\ ix.parked[a].name \in Names /\ ix.parked[a].name[1] = a
         /\ Account(ix.parked[a].login) = a
         /\ vault[ix.parked[a].name] \in {ix.parked[a].login, NoLogin}
BY NobodyNamed DEF Inv, DiskTrue, RunTrue, IndexTrue, ParkOK, Parks, NoPark

\* Reading what an interrupted switch left, and the slot.
LEMMA ReconcileTwinless ==
  ASSUME Inv, Twinless, faults = 0, faults' = 0,
         ReconcileNothing \/ ReconcileTorn \/ ReconcileRead \/ Undetermined
  PROVE  Twinless'
<1>1. CASE ReconcileNothing
  <2>1. /\ pc = "reconcile" /\ journal = NoJournal /\ pc' = "sweep"
        /\ run' = [run EXCEPT !.todo = listed, !.keep = {}, !.seen = NoLogin]
        /\ UNCHANGED <<live, vault, index, journal, clock, sess, issued, mem>>
    BY <1>1 DEF ReconcileNothing, ToSweep, Goes, disk, service
  <2>2. run'.fresh = run.fresh /\ run'.before = run.before /\ run'.inc = run.inc /\ run'.going = run.going
    BY <2>1 DEF Inv, RunTrue, Runs
  <2>3. Apart(index) /\ Apart(mem) /\ Adds(mem, mem, NoPark) /\ run'.going # "refused"
    BY <2>1, <2>2, AddsItself DEF Twinless, Parted, Coherent
  <2>4. NoPark.login = NoLogin /\ NoLogin \notin Logins
    BY NobodyNamed DEF NoPark
  <2>5. pc' \notin Incoming \cup Asking \cup {"repair"}
    BY <2>1 DEF Incoming, Journaled, Asking
  <2> QED BY <2>1, <2>2, <2>3, <2>4, <2>5, FreeRun
<1>2. CASE ReconcileTorn
  <2>1. /\ pc = "reconcile" /\ pc' = "reconcile" /\ journal # NoJournal
        /\ live' = vault[journal.incoming] /\ live' # NoLogin
        /\ UNCHANGED <<vault, index, journal, clock, sess, issued, mem, run>>
    BY <1>2 DEF ReconcileTorn, Goes, service
  <2>2. journal.incoming \in Names /\ journal.to \in Accounts /\ Account(journal.toLogin) = journal.to
    BY <2>1 DEF Inv, DiskTrue, JournalTrue
  <2>3. live' = journal.toLogin
    BY <2>1 DEF Twinless, JournalParted
  <2>4. Copies' = Copies /\ live' \in Copies
    BY <2>1, <2>2 DEF Copies
  <2>5. Dated'
    <3>1. \A n \in Names : vault'[n] # NoLogin => n[2] <= clock'
      BY <2>1 DEF Twinless, Dated
    <3> QED BY <2>1, <2>4, <3>1, DatedOver DEF Twinless
  <2>6. Coherent' /\ Parted' /\ RunParted'
    BY <2>1 DEF Twinless, Coherent, Enrolls, Unsettled, Parted, RunParted, Asking, Incoming, Journaled
  <2>7. ASSUME NEW ix \in {index, mem}, NEW a \in Accounts, ix.parked[a].login = live', live' \in Logins
        PROVE  ix.parked[a].name = journal.incoming
    <3>1. a = journal.to
      BY <2>2, <2>3, <2>7, ParkedOwn
    <3> QED BY <2>1, <2>3, <2>7, <3>1 DEF Twinless, JournalParted, TwinNamed
  <2>8. JournalParted'
    BY <2>1, <2>3, <2>7 DEF Twinless, JournalParted, TwinNamed
  <2> QED BY <2>5, <2>6, <2>8 DEF Twinless
<1>3. CASE ReconcileRead
  <2>1. /\ pc = "reconcile" /\ pc' = "repair" /\ journal # NoJournal
        /\ run' = [run EXCEPT !.seen = live]
        /\ UNCHANGED <<live, vault, index, journal, clock, sess, issued, mem>>
    BY <1>3 DEF ReconcileRead, Goes, disk, service
  <2>2. /\ run'.fresh = run.fresh /\ run'.before = run.before /\ run'.inc = run.inc
        /\ run'.going = run.going /\ run'.seen = live /\ run'.next = run.next
    BY <2>1 DEF Inv, RunTrue, Runs
  <2>3. Copies' = Copies
    BY <2>1, <2>2 DEF Copies
  <2>4. Dated'
    <3>1. \A n \in Names : vault'[n] # NoLogin => n[2] <= clock'
      BY <2>1 DEF Twinless, Dated
    <3> QED BY <2>1, <2>3, <3>1, DatedOver DEF Twinless
  <2>5. Coherent'
    BY <2>1, <2>2 DEF Twinless, Coherent, Enrolls, Unsettled
  <2>6. Parted' /\ JournalParted'
    BY <2>1 DEF Twinless, Parted, JournalParted, TwinNamed
  <2>7. RunParted'
    BY <2>1, <2>2 DEF RunParted, Asking, Incoming, Journaled
  <2> QED BY <2>4, <2>5, <2>6, <2>7 DEF Twinless
<1>4. CASE Undetermined
  BY <1>4, NothingFails, RefusesTwinless DEF Undetermined
<1> QED BY <1>1, <1>2, <1>3, <1>4

\* Finishing or undoing an interrupted switch leaves nothing parked that is signed in.
LEMMA RepairedApart ==
  ASSUME Inv, Twinless, pc = "repair",
         NEW iy, iy = Repaired(mem, journal, OwnerOf(journal, run.seen), run.seen)
  PROVE  /\ Apart(iy)
         /\ \E p : Adds(mem, iy, p) /\ p.login \in Copies \cup {NoLogin} /\ p.login # journal.toLogin
<1> DEFINE owner == OwnerOf(journal, run.seen)
<1> DEFINE parked == IF Replaces(journal) THEN NoLogin ELSE vault[journal.park]
<1> DEFINE offered == [name |-> journal.park, login |-> parked]
<1> DEFINE first == IF parked = NoLogin THEN mem
                    ELSE IF owner = journal.from THEN Discard(mem, journal.park)
                    ELSE IF References(mem, journal.park) THEN mem
                    ELSE IF journal.from \in mem.enrolled
                         THEN ParkFor(mem, journal.from, offered)
                    ELSE Discard(mem, journal.park)
<1> DEFINE second == [first EXCEPT !.inUse = [owner |-> journal.to, login |-> run.seen]]
<1> DEFINE third == [first EXCEPT !.inUse = [owner |-> Nobody, login |-> NoLogin]]
<1>1. /\ journal # NoJournal /\ journal.to \in Accounts /\ journal.from # journal.to
      /\ journal.incoming \in Names /\ journal.toLogin \in Logins
      /\ Account(journal.toLogin) = journal.to
      /\ journal.park # NoName => journal.park \in Names /\ journal.park[1] = journal.from
                                    /\ journal.from \in Accounts
  BY DEF Inv, DiskTrue, RunTrue, Settling, JournalTrue, Journals, Names
<1>2. /\ journal.fromLogin # journal.toLogin /\ TwinNamed(mem)
      /\ journal.park # NoName => vault[journal.park] \in {NoLogin, journal.fromLogin}
      /\ Enrolls(mem)
  BY <1>1 DEF Twinless, JournalParted, Coherent
<1>3. IndexTrue(mem, vault, clock) /\ mem \in Indexes /\ VaultTrue
  BY DEF Inv, DiskTrue, RunTrue, IndexTrue
<1>4. parked \in {NoLogin, journal.fromLogin} /\ parked \in Copies \cup {NoLogin}
  BY <1>1, <1>2 DEF Replaces, Copies
<1>5. parked # NoLogin => /\ journal.park # NoName /\ parked = vault[journal.park]
                          /\ ParkOK(journal.from, offered, vault, clock)
  BY <1>1, NobodyNamed DEF Replaces, VaultTrue, ParkOK, Parks, Inv, DiskTrue, JournalTrue
<1>6. offered.login = parked
  OBVIOUS
<1>7. Adds(mem, first, offered) /\ first.enrolled = mem.enrolled /\ IndexTrue(first, vault, clock)
  <2>1. Adds(mem, mem, offered)
    BY <1>2 DEF Adds
  <2>2. CASE parked = NoLogin
    BY <1>3, <2>1, <2>2
  <2>3. CASE parked # NoLogin
    <3>1. PICK o : o = offered
      OBVIOUS
    <3>2. /\ journal.park \in Names /\ journal.from \in Accounts
          /\ ParkOK(journal.from, o, vault, clock)
      BY <1>1, <1>5, <2>3, <3>1
    <3>3. /\ Adds(mem, Discard(mem, journal.park), NoPark)
          /\ Discard(mem, journal.park).enrolled = mem.enrolled
          /\ IndexTrue(Discard(mem, journal.park), vault, clock)
      BY <1>2, <1>3, <3>2, DiscardAdds, DiscardFits
    <3>4. Adds(mem, Discard(mem, journal.park), offered)
      BY <3>3 DEF Adds
    <3>5. /\ Adds(mem, ParkFor(mem, journal.from, o), o)
          /\ ParkFor(mem, journal.from, o).enrolled = mem.enrolled
          /\ IndexTrue(ParkFor(mem, journal.from, o), vault, clock)
      <4>1. IndexTrue(ParkFor(mem, journal.from, o), vault, clock)
        BY <1>3, <3>2, ParkForFits
      <4>2. /\ Adds(mem, ParkFor(mem, journal.from, o), o)
            /\ ParkFor(mem, journal.from, o).enrolled = mem.enrolled
        BY <1>2, <1>3, <3>2, ParkForAdds
      <4> QED BY <4>1, <4>2
    <3>6. first \in {mem, Discard(mem, journal.park), ParkFor(mem, journal.from, o)}
      BY <3>1
    <3> HIDE DEF first, offered
    <3> QED BY <1>3, <2>1, <3>1, <3>3, <3>4, <3>5, <3>6
  <2> QED BY <2>2, <2>3
<1>8. iy = IF owner # journal.to THEN first
           ELSE IF journal.to \in mem.enrolled THEN Discard(second, journal.incoming)
           ELSE third
  BY DEF Repaired
<1>9. owner = journal.from /\ parked # NoLogin => first = Discard(mem, journal.park)
  OBVIOUS
<1>10. parked = NoLogin => first = mem
  OBVIOUS
<1> HIDE DEF first
<1>11. /\ second.parked = first.parked /\ third.parked = first.parked
       /\ second.enrolled = first.enrolled /\ third.enrolled = first.enrolled
       /\ second.discarded = first.discarded
  BY <1>7 DEF IndexTrue, Indexes
<1>12. /\ \A a \in Accounts : Discard(second, journal.incoming).parked[a] =
                 IF second.parked[a].name = journal.incoming THEN NoPark ELSE second.parked[a]
       /\ Discard(second, journal.incoming).enrolled = second.enrolled
  BY DEF Discard, LetGo
<1> HIDE DEF second, third
<1>13. /\ iy.enrolled = mem.enrolled
       /\ \A a \in Accounts : iy.parked[a] = first.parked[a] \/ iy.parked[a] = NoPark
  BY <1>7, <1>8, <1>11, <1>12
<1>14. Adds(mem, iy, offered)
  BY <1>7, <1>13 DEF Adds, Enrolls
<1>15. \A a \in Accounts : iy.parked[a].login \in Copies \cup {NoLogin}
  BY <1>4, <1>6, <1>14, AddsCopies
<1>16. Apart(iy)
  <2> SUFFICES ASSUME NEW a \in Accounts, iy.parked[a].login = live, live \in Logins PROVE FALSE
    BY DEF Apart
  <2>1. live = run.seen /\ iy.parked[a] # NoPark /\ iy.parked[a] = first.parked[a]
    BY <1>13, <1>15, NobodyNamed DEF Twinless, RunParted, NoPark
  <2>2. CASE live = journal.fromLogin
    <3>1. owner = journal.from /\ owner # journal.to
      BY <1>1, <1>2, <2>1, <2>2 DEF OwnerOf
    <3>2. parked = NoLogin => iy = mem
      BY <1>8, <1>10, <3>1
    <3>3. parked # NoLogin => iy = Discard(mem, journal.park)
      BY <1>8, <1>9, <3>1
    <3>4. \A b \in Accounts : Discard(mem, journal.park).parked[b] =
             IF mem.parked[b].name = journal.park THEN NoPark ELSE mem.parked[b]
      BY <1>2, <1>3, DiscardAdds
    <3>5. iy.parked[a] = mem.parked[a]
      BY <2>1, <3>2, <3>3, <3>4
    <3>6. mem.parked[a].name = journal.park /\ vault[journal.park] # NoLogin /\ journal.park \in Names
      BY <1>2, <2>2, <3>5, ParkedOwn DEF TwinNamed
    <3>7. parked # NoLogin
      BY <3>6, NobodyNamed DEF Replaces
    <3> QED BY <2>1, <3>3, <3>4, <3>6, <3>7
  <2>3. CASE live = journal.toLogin
    <3>1. owner = journal.to
      BY <2>1, <2>3 DEF OwnerOf
    <3>2. first.parked[a] = mem.parked[a]
      BY <1>2, <1>4, <1>6, <1>7, <2>1, <2>3, NobodyNamed DEF Adds
    <3>3. mem.parked[a].login = live /\ Account(live) = a /\ a = journal.to
      BY <1>1, <2>1, <2>3, <3>2, ParkedOwn
    <3>4. first.parked[a].name = journal.incoming
      BY <1>2, <2>3, <3>2, <3>3 DEF TwinNamed
    <3>5. CASE journal.to \in mem.enrolled
      BY <1>8, <1>11, <1>12, <2>1, <3>1, <3>4, <3>5
    <3>6. CASE journal.to \notin mem.enrolled
      BY <1>7, <2>1, <3>3, <3>6 DEF Adds, Enrolls
    <3> QED BY <3>5, <3>6
  <2>4. CASE live \notin {journal.fromLogin, journal.toLogin}
    <3>1. iy.parked[a] = mem.parked[a]
      BY <1>4, <1>6, <1>14, <2>1, <2>4, NobodyNamed DEF Adds
    <3> QED BY <1>2, <2>4, <3>1 DEF TwinNamed
  <2> QED BY <2>2, <2>3, <2>4
<1>17. parked # journal.toLogin
  BY <1>1, <1>2, <1>4, NobodyNamed
<1> QED BY <1>4, <1>6, <1>14, <1>16, <1>17

\* The same where nothing is recorded.
LEMMA FreeDrops ==
  ASSUME Inv, Twinless, Apart(index), Apart(mem), journal' = NoJournal,
         UNCHANGED <<live, clock, sess, issued>>,
         \A n \in Names : vault'[n] \in {vault[n], NoLogin},
         NEW iy, Adds(mem, iy, NoPark),
         index' \in {index, iy}, mem' \in {index', iy},
         pc' \in {"sweep", "purgeSave"} \/ mem' = index',
         \A a \in Accounts : run'.fresh[a] \in {run.fresh[a], NoLogin},
         run'.before \in {run.before, NoLogin}, run'.inc \in {run.inc, NoPark},
         run'.going # "refused", pc' \notin Incoming \cup {"repair"},
         pc' \in Asking => \A a \in Accounts : run'.fresh[a] = live => live \notin Logins
  PROVE  Twinless'
<1>1. NoPark.login = NoLogin /\ NoLogin \notin Logins
  BY NobodyNamed DEF NoPark
<1> QED BY <1>1, FreeRun

\* Between settling and a change there is no journal, and nothing parked is signed in.
LEMMA SettledApart ==
  ASSUME Inv, Twinless, ~Unsettled
  PROVE  /\ journal = NoJournal /\ Apart(index) /\ Apart(mem)
         /\ Enrolls(mem) /\ Adds(mem, mem, NoPark)
         /\ mem \in Indexes /\ IndexTrue(mem, vault, clock)
         /\ run \in Runs /\ run.going # "refused"
         /\ pc \notin {"sweep", "purgeSave", "undoSave"} => mem = index
BY AddsItself DEF Twinless, Parted, Coherent, Inv, RunTrue, IndexTrue

\* The interrupted switch is finished or undone, and its journal removed.
LEMMA RepairTwinless ==
  ASSUME Inv, Twinless, faults = 0, faults' = 0, Repair \/ ClearRepaired
  PROVE  Twinless'
<1>1. CASE Repair
  <2>1. PICK iy : iy = Repaired(mem, journal, OwnerOf(journal, run.seen), run.seen)
    OBVIOUS
  <2>2. /\ pc = "repair" /\ pc' = "clearRepaired" /\ index' = iy /\ mem' = iy
        /\ UNCHANGED <<vault, run>>
        /\ UNCHANGED <<journal, live, clock, sess, issued>>
    BY <1>1, <2>1, NothingFails DEF Repair, Saves, Goes, service
  <2>3. journal # NoJournal
    BY <2>2 DEF Inv, RunTrue, Settling
  <2>4. /\ Apart(iy)
        /\ \E p : Adds(mem, iy, p) /\ p.login \in Copies \cup {NoLogin} /\ p.login # journal.toLogin
    BY <2>1, <2>2, RepairedApart
  <2>5. PICK p : Adds(mem, iy, p) /\ p.login \in Copies \cup {NoLogin} /\ p.login # journal.toLogin
    BY <2>4
  <2>6. run.going # "refused"
    BY DEF Twinless, Coherent
  <2>7. Apart(index') /\ Apart(mem')
    BY <2>2, <2>4
  <2> QED BY <2>2, <2>3, <2>5, <2>6, <2>7, ApartStep
<1>2. CASE ClearRepaired
  <2>1. /\ pc = "clearRepaired" /\ journal' = NoJournal /\ pc' = "sweep"
        /\ run' = [run EXCEPT !.todo = listed, !.keep = {}, !.seen = NoLogin]
        /\ UNCHANGED <<live, vault, index, clock, sess, issued, mem>>
    BY <1>2, NothingFails DEF ClearRepaired, ClearJournal, ToSweep, Goes, service
  <2>2. run'.fresh = run.fresh /\ run'.before = run.before /\ run'.inc = run.inc /\ run'.going = run.going
    BY <2>1 DEF Inv, RunTrue, Runs
  <2>3. Apart(index) /\ Apart(mem) /\ Adds(mem, mem, NoPark) /\ run'.going # "refused"
    BY <2>1, <2>2, AddsItself DEF Twinless, Parted, Coherent
  <2>5. pc' \notin Incoming \cup Asking \cup {"repair"}
    BY <2>1 DEF Incoming, Journaled, Asking
  <2> QED BY <2>1, <2>2, <2>3, <2>5, FreeDrops
<1> QED BY <1>1, <1>2

\* Names written down are given back or deleted, and never the login signed in given back.
LEMMA SweepTwinless ==
  ASSUME Inv, Twinless, ~Locking, faults = 0, faults' = 0,
         SweepSave \/ SweepList \/ \E n \in Names : Sweep(n)
  PROVE  Twinless'
<1>0. pc \in {"sweep", "sweepList"}
  BY DEF SweepSave, SweepList, Sweep
<1>1. /\ journal = NoJournal /\ Apart(index) /\ Apart(mem)
      /\ Enrolls(mem) /\ Adds(mem, mem, NoPark) /\ mem \in Indexes /\ IndexTrue(mem, vault, clock)
      /\ run \in Runs /\ run.going # "refused"
      /\ pc # "sweep" => mem = index
  BY <1>0, SettledApart DEF Unsettled, Journaled
<1>2. {"sweep", "sweepList", "twins"} \cap (Incoming \cup Asking \cup {"repair"}) = {}
  BY DEF Incoming, Journaled, Asking
<1>3. ASSUME NEW n \in Names, Sweep(n) PROVE Twinless'
  <2>1. /\ pc' = "sweep"
        /\ UNCHANGED <<live, vault, index, journal, clock, sess, issued>>
    BY <1>3 DEF Sweep, Goes, disk, service
  <2>2. \/ run' = [run EXCEPT !.todo = @ \ {n}]
        \/ run' = [run EXCEPT !.todo = @ \ {n}, !.keep = @ \cup {n}]
    BY <1>3 DEF Sweep
  <2>3. run'.fresh = run.fresh /\ run'.before = run.before /\ run'.inc = run.inc /\ run'.going = run.going
    BY <1>1, <2>2 DEF Runs
  <2>4. \/ mem' = mem
        \/ mem' = Discard(mem, n)
        \/ /\ mem' = ParkFor(mem, n[1], [name |-> n, login |-> vault[n]])
           /\ ~LiveTwin(vault[n], live)
    BY <1>3, NothingFails DEF Sweep, TwinRead, GivesBack
  <2>5. CASE mem' = mem \/ mem' = Discard(mem, n)
    <3>1. Adds(mem, mem', NoPark)
      BY <1>1, <2>5, DiscardAdds
    <3>2. PICK iy : iy = mem'
      OBVIOUS
    <3> QED BY <1>1, <1>2, <2>1, <2>3, <3>1, <3>2, FreeDrops
  <2>6. CASE /\ mem' = ParkFor(mem, n[1], [name |-> n, login |-> vault[n]])
             /\ ~LiveTwin(vault[n], live)
    <3>1. PICK p : p = [name |-> n, login |-> vault[n]]
      OBVIOUS
    <3>2. PICK iy : iy = ParkFor(mem, n[1], p)
      OBVIOUS
    <3>3. n[1] \in Accounts
      BY DEF Names
    <3>4. Adds(mem, iy, p)
      BY <1>1, <3>2, <3>3, ParkForAdds
    <3>5. p.login \in Copies /\ (p.login = live => live \notin Logins)
      BY <2>6, <3>1 DEF Copies, LiveTwin
    <3>6. mem' = iy
      BY <2>6, <3>1, <3>2
    <3> QED BY <1>1, <1>2, <2>1, <2>3, <3>4, <3>5, <3>6, FreeRun
  <2> QED BY <2>4, <2>5, <2>6
<1>4. CASE SweepSave
  <2>1. /\ pc' = "sweepList" /\ index' = mem /\ mem' = mem /\ run' = run
        /\ UNCHANGED <<live, vault, journal, clock, sess, issued>>
    BY <1>4, NothingFails DEF SweepSave, Saves, Goes, service
  <2> QED BY <1>1, <1>2, <2>1, FreeDrops
<1>5. CASE SweepList
  <2>1. /\ pc' = "twins" /\ pc = "sweepList"
        /\ UNCHANGED <<live, vault, index, journal, clock, sess, issued, mem, run>>
    BY <1>5, NothingFails DEF SweepList, Goes, service
  <2> QED BY <1>1, <1>2, <2>1, FreeDrops
<1> QED BY <1>3, <1>4, <1>5

\* Parked copies of the login signed in are looked for and dropped.
LEMMA TwinsTwinless ==
  ASSUME Inv, Twinless, faults = 0, faults' = 0, FindTwins \/ NothingDue \/ DropTwins
  PROVE  Twinless'
<1>0. pc \in {"twins", "dropTwins"}
  BY DEF FindTwins, NothingDue, DropTwins
<1>1. /\ journal = NoJournal /\ Apart(index) /\ Apart(mem)
      /\ Enrolls(mem) /\ Adds(mem, mem, NoPark) /\ mem \in Indexes
      /\ run \in Runs /\ run.going # "refused" /\ mem = index
  BY <1>0, SettledApart DEF Unsettled, Journaled
<1>2. {"dropTwins", "purge", "ask"} \cap (Incoming \cup {"repair"}) = {}
  BY DEF Incoming, Journaled
<1>3. \A a \in Accounts : run.fresh[a] = NoLogin
  BY <1>0 DEF Inv, RunTrue, Asked, Asking
<1>4. CASE FindTwins \/ NothingDue
  <2>1. /\ pc' \in {"dropTwins", "purge"}
        /\ UNCHANGED <<live, vault, index, journal, clock, sess, issued, mem>>
        /\ \/ \E seen \in {live, NoLogin} : run' = [run EXCEPT !.seen = seen, !.next = "entry"]
           \/ run' = [run EXCEPT !.next = "idle"]
    BY <1>4 DEF FindTwins, NothingDue, Goes, disk, service
  <2>2. run'.fresh = run.fresh /\ run'.before = run.before /\ run'.inc = run.inc /\ run'.going = run.going
    BY <1>1, <2>1 DEF Runs
  <2> QED BY <1>1, <1>2, <1>3, <2>1, <2>2, NobodyNamed, FreeDrops
<1>5. CASE DropTwins
  <2>1. PICK iy : iy = DiscardAll(mem, Twins(mem, run.seen))
    OBVIOUS
  <2>2. /\ pc' \in {"ask", "purge"} /\ index' = iy /\ mem' = iy
        /\ UNCHANGED <<live, vault, journal, clock, sess, issued>>
        /\ \E due : run' = [run EXCEPT !.due = due, !.seen = NoLogin]
    BY <1>5, <2>1, NothingFails DEF DropTwins, Saves, Goes, service
  <2>3. run'.fresh = run.fresh /\ run'.before = run.before /\ run'.inc = run.inc /\ run'.going = run.going
    BY <1>1, <2>2 DEF Runs
  <2>4. Adds(mem, iy, NoPark)
    BY <1>1, <2>1, DiscardAllAdds
  <2> QED BY <1>1, <1>2, <1>3, <2>2, <2>3, <2>4, NobodyNamed, FreeDrops
<1> QED BY <1>4, <1>5

\* What is listed to be deleted goes, whether or not a journal is yet to be removed.
LEMMA PurgeTwinless ==
  ASSUME Inv, Twinless, faults = 0, faults' = 0, Purge \/ PurgeSave
  PROVE  Twinless'
<1>1. PICK iy : /\ iy = IF Purge THEN [mem EXCEPT !.discarded = {}] ELSE mem
                /\ index' \in {index, iy} /\ mem' \in {index', iy}
                /\ pc' = "purgeSave" \/ mem' = index'
  <2>1. CASE Purge
    <3>1. /\ pc = "purge" /\ UNCHANGED index
          /\ IF [mem EXCEPT !.discarded = {}] = mem THEN AfterPurge(mem)
             ELSE mem' = [mem EXCEPT !.discarded = {}] /\ Goes("purgeSave") /\ UNCHANGED run
      BY <2>1, NothingFails DEF Purge
    <3>2. mem = index
      BY <3>1 DEF Twinless, Coherent
    <3> QED BY <2>1, <3>1, <3>2 DEF AfterPurge, Goes, Ends
  <2>2. CASE ~Purge
    <3>1. pc = "purgeSave" /\ index' = mem /\ AfterPurge(mem)
      BY <2>2, NothingFails DEF PurgeSave
    <3> QED BY <2>2, <3>1 DEF AfterPurge, Goes, Ends
  <2> QED BY <2>1, <2>2
<1>2. /\ \A n \in Names : vault'[n] \in {vault[n], NoLogin}
      /\ UNCHANGED <<live, journal, clock, sess, issued>> /\ pc \in {"purge", "purgeSave"}
  BY DEF Purge, PurgeSave, service
<1>3. \/ pc' = "purgeSave" /\ run' = run
      \/ run.next = "clear" /\ pc' = "clear" /\ run' = run
      \/ run.next # "clear" /\ pc' = "identify" /\ run' = [run EXCEPT !.next = "idle"]
      \/ run.next # "clear" /\ pc' = "idle" /\ run' = NoRun
  <2>1. AfterPurge(mem) \/ (Goes("purgeSave") /\ UNCHANGED run)
    BY DEF Purge, PurgeSave
  <2> QED BY <2>1 DEF AfterPurge, Goes, Ends
<1>4. mem \in Indexes /\ run \in Runs /\ Enrolls(mem) /\ Apart(mem) /\ Apart(index) /\ run.going # "refused"
  BY <1>2 DEF Inv, RunTrue, IndexTrue, Twinless, Coherent, Parted
<1>5. Adds(mem, iy, NoPark) /\ Apart(iy)
  <2>1. iy.parked = mem.parked /\ iy.enrolled = mem.enrolled
    BY <1>1, <1>4 DEF Indexes
  <2> QED BY <1>4, <2>1 DEF Adds, Enrolls, Apart
<1>6. /\ \A a \in Accounts : run'.fresh[a] \in {run.fresh[a], NoLogin}
      /\ run'.before \in {run.before, NoLogin} /\ run'.inc \in {run.inc, NoPark}
      /\ run'.going # "refused"
  BY <1>3, <1>4 DEF Runs, NoRun
<1>7. pc' \in {"purgeSave", "clear", "identify", "idle"}
  BY <1>3
<1>8. pc' \notin Incoming \cup Asking \cup {"repair"}
  BY <1>7 DEF Incoming, Journaled, Asking
<1>9. CASE journal = NoJournal
  BY <1>1, <1>2, <1>4, <1>5, <1>6, <1>7, <1>8, <1>9, FreeDrops
<1>10. CASE journal # NoJournal
  <2>1. run.next = "clear"
    BY <1>2, <1>10 DEF Twinless, Coherent, Unsettled, Journaled
  <2>2. run' = run /\ pc' \in {"purgeSave", "clear"}
    BY <1>3, <2>1
  <2>3. Apart(index') /\ Apart(mem')
    BY <1>1, <1>4, <1>5
  <2>4. NoPark.login = NoLogin /\ NoPark.login # journal.toLogin
    BY <1>10, NobodyNamed DEF NoPark, Inv, DiskTrue, JournalTrue
  <2> QED BY <1>1, <1>2, <1>4, <1>5, <1>10, <2>1, <2>2, <2>3, <2>4, ApartStep
<1> QED BY <1>9, <1>10

\* Settling leaves nothing parked that is signed in.
LEMMA SettleTwinless ==
  ASSUME Inv, Twinless, ~Locking, faults = 0, faults' = 0, Settle
  PROVE  Twinless'
BY ReconcileTwinless, RepairTwinless, SweepTwinless, TwinsTwinless, PurgeTwinless DEF Settle

-----------------------------------------------------------------------------
(* Identifying, forgetting, proving and renewing. *)

\* Whose login is signed in is recorded, or an account forgotten.
LEMMA IdentifyTwinless ==
  ASSUME Inv, Twinless, ~Locking, faults = 0, faults' = 0,
         Identify \/ IdentifyFails \/ IdentifyRefused \/ Forget
  PROVE  Twinless'
<1>0. pc \in {"identify", "forget"}
  BY DEF Identify, IdentifyFails, IdentifyRefused, Forget
<1>1. /\ journal = NoJournal /\ Apart(index) /\ Apart(mem)
      /\ Enrolls(mem) /\ Adds(mem, mem, NoPark) /\ mem \in Indexes
      /\ run \in Runs /\ run.going # "refused" /\ mem = index
  BY <1>0, SettledApart DEF Unsettled, Journaled
<1>2. {"idle", "forget", "prove", "purge"} \cap (Incoming \cup Asking \cup {"repair"}) = {}
  BY DEF Incoming, Journaled, Asking
<1>3. CASE Identify
  <2>1. PICK iy : iy = Identified(mem, live)
    OBVIOUS
  <2>2. /\ index' = iy
        /\ \/ Ends
           \/ /\ mem' = iy /\ pc' \in {"forget", "prove"}
              /\ run' = [run EXCEPT !.seen = live, !.out = Account(live),
                                    !.going = IF live = NoLogin THEN "nothing" ELSE "out"]
        /\ UNCHANGED <<live, vault, journal, clock, sess, issued>>
    BY <1>3, <2>1, NothingFails DEF Identify, Goes, service
  <2>3. mem' = iy /\ pc' \in {"idle", "forget", "prove"}
    BY <2>2 DEF Ends
  <2>4. /\ \A a \in Accounts : run'.fresh[a] \in {run.fresh[a], NoLogin}
        /\ run'.before \in {run.before, NoLogin} /\ run'.inc \in {run.inc, NoPark}
        /\ run'.going # "refused"
    <3>1. CASE Ends
      BY <3>1 DEF Ends, NoRun
    <3>2. CASE ~Ends
      <4>1. PICK o, g : /\ run' = [run EXCEPT !.seen = live, !.out = o, !.going = g]
                        /\ g \in {"nothing", "out"}
        BY <2>2, <3>2
      <4> QED BY <1>1, <4>1 DEF Runs
    <3> QED BY <3>1, <3>2
  <2>5. Adds(mem, iy, NoPark)
    BY <1>1, <2>1, IdentifiedAdds
  <2> QED BY <1>1, <1>2, <2>2, <2>3, <2>4, <2>5, FreeDrops
<1>4. CASE IdentifyFails
  <2>1. CASE Refuses
    BY <2>1, RefusesTwinless
  <2>2. CASE ~Refuses
    <3>1. /\ pc' = "forget"
          /\ UNCHANGED <<live, vault, index, journal, clock, sess, issued, mem, run>>
      BY <1>4, <2>2 DEF IdentifyFails, Goes, disk, service
    <3> QED BY <1>1, <1>2, <3>1, FreeDrops
  <2> QED BY <2>1, <2>2
<1>5. CASE IdentifyRefused
  BY <1>5 DEF IdentifyRefused, Told
<1>6. CASE Forget
  <2>1. PICK iy : iy = Removed(mem, run.to)
    OBVIOUS
  <2>2. /\ index' = iy /\ mem' = iy /\ pc' = "purge" /\ run' = run
        /\ UNCHANGED <<live, vault, journal, clock, sess, issued>>
    BY <1>6, <2>1, NothingFails DEF Forget, Saves, Goes, service
  <2>3. run.to \in Accounts
    BY <1>6 DEF Forget, Inv, RunTrue, Bound
  <2>4. Adds(mem, iy, NoPark)
    BY <1>1, <2>1, <2>3, RemovedAdds
  <2> QED BY <1>1, <1>2, <2>2, <2>4, FreeDrops
<1> QED BY <1>3, <1>4, <1>5, <1>6

\* The login going in is at hand, as recorded, or is to be renewed first.
LEMMA ProveTwinless ==
  ASSUME Inv, Twinless, Prove \/ NotProved
  PROVE  Twinless'
<1>0. CASE NotProved
  BY <1>0, RefusesTwinless DEF NotProved
<1>1. CASE Prove
  <2>1. /\ journal = NoJournal /\ Apart(index) /\ Apart(mem)
        /\ Enrolls(mem) /\ Adds(mem, mem, NoPark) /\ mem \in Indexes
        /\ run \in Runs /\ run.going # "refused" /\ mem = index
    BY <1>1, SettledApart DEF Unsettled, Journaled, Prove
  <2>2. /\ run.to \in Accounts /\ \A a \in Accounts : run.fresh[a] = NoLogin
        /\ vault[mem.parked[run.to].name] = mem.parked[run.to].login
    BY <1>1 DEF Prove, Inv, RunTrue, Bound, Asked, Asking, Changing, Loads
  <2>3. /\ UNCHANGED <<live, vault, index, journal, clock, sess, issued, mem>>
        /\ \/ pc' = "lock" /\ run' = [run EXCEPT !.inc = mem.parked[run.to]]
           \/ pc' = "ask" /\ run' = [run EXCEPT !.due = {run.to}]
    BY <1>1 DEF Prove, Goes, disk, service
  <2>4. CASE pc' = "ask" /\ run' = [run EXCEPT !.due = {run.to}]
    <3>1. run'.fresh = run.fresh /\ run'.before = run.before /\ run'.inc = run.inc /\ run'.going = run.going
      BY <2>1, <2>4 DEF Runs
    <3>2. pc' \notin Incoming \cup {"repair"}
      BY <2>4 DEF Incoming, Journaled
    <3> QED BY <2>1, <2>2, <2>3, <3>1, <3>2, NobodyNamed, FreeDrops
  <2>5. CASE pc' = "lock" /\ run' = [run EXCEPT !.inc = mem.parked[run.to]]
    <3>1. /\ run'.fresh = run.fresh /\ run'.before = run.before /\ run'.going = run.going
          /\ run'.inc = mem.parked[run.to] /\ run'.to = run.to
      BY <2>1, <2>5 DEF Runs
    <3>2. /\ \A n \in Names : vault[n] \in Copies /\ (vault[n] # NoLogin => n[2] <= clock)
          /\ \A a \in Accounts : run.fresh[a] \in Copies /\ mem.parked[a].login \in Copies
          /\ run.before \in Copies
      BY DEF Copies, Twinless, Dated
    <3>3. NoPark.login = NoLogin /\ NoLogin \notin Logins
      BY NobodyNamed DEF NoPark
    <3>4. pc' \notin Journaled \cup Asking \cup {"repair"}
      BY <2>5 DEF Journaled, Asking
    <3> QED BY <2>1, <2>2, <2>3, <2>5, <3>1, <3>2, <3>3, <3>4, FreeStep
  <2> QED BY <2>3, <2>4, <2>5
<1> QED BY <1>0, <1>1

\* While answers are asked for and written, there is no journal.
LEMMA AskingApart ==
  ASSUME Inv, Twinless, pc \in Asking
  PROVE  /\ journal = NoJournal /\ Apart(index) /\ Apart(mem)
         /\ Enrolls(mem) /\ Adds(mem, mem, NoPark)
         /\ mem \in Indexes /\ IndexTrue(mem, vault, clock)
         /\ run \in Runs /\ run.going # "refused" /\ mem = index
         /\ \A a \in Accounts : run.fresh[a] = live => live \notin Logins
         /\ \A n \in Names : vault[n] \in Copies /\ (vault[n] # NoLogin => n[2] <= clock)
         /\ \A a \in Accounts : run.fresh[a] \in Copies /\ mem.parked[a].login \in Copies
         /\ run.before \in Copies /\ run.inc.login \in Copies
         /\ Asking \cap (Incoming \cup Journaled \cup {"repair", "sweep", "purgeSave"}) = {}
<1>1. ~Unsettled
  BY DEF Unsettled, Journaled, Asking
<1>2. pc \notin {"sweep", "purgeSave", "undoSave"}
  BY DEF Asking
<1> QED BY <1>1, <1>2, SettledApart DEF Twinless, Dated, RunParted, Copies, Asking, Incoming, Journaled

\* The answer the service gives is nowhere else.
LEMMA AskTwinless ==
  ASSUME Inv, Twinless, NEW a \in Accounts, Ask(a)
  PROVE  Twinless'
<1>1. pc = "ask" /\ pc' = "ask" /\ pc \in Asking
  BY DEF Ask, Asking
<1>2. /\ journal = NoJournal /\ Apart(index) /\ Apart(mem)
      /\ Enrolls(mem) /\ Adds(mem, mem, NoPark) /\ mem \in Indexes
      /\ run \in Runs /\ run.going # "refused" /\ mem = index
      /\ \A b \in Accounts : run.fresh[b] = live => live \notin Logins
      /\ Asking \cap (Incoming \cup Journaled \cup {"repair", "sweep", "purgeSave"}) = {}
  BY <1>1, AskingApart
<1>3. UNCHANGED <<live, vault, index, journal, clock, sess, mem>>
  BY DEF Ask, disk
<1>4. CASE /\ Issues(a) /\ run' = [run EXCEPT !.due = @ \ {a}, !.fresh[a] = Fresh(a)]
  <2>1. /\ Fresh(a) \in Logins \ (Copies \cup {live, sess.fresh})
        /\ \A l \in Copies \cup {live, sess.fresh, Fresh(a), NoLogin} : Known(l, issued')
    BY <1>4, FreshUncopied DEF Twinless
  <2>2. /\ run'.before = run.before /\ run'.inc = run.inc /\ run'.going = run.going
        /\ \A b \in Accounts : run'.fresh[b] = IF b = a THEN Fresh(a) ELSE run.fresh[b]
    BY <1>2, <1>4 DEF Runs
  <2>3. Copies' \subseteq Copies \cup {Fresh(a)}
    <3> DEFINE S == Copies \cup {Fresh(a)}
    <3>1. /\ \A n \in Names : vault'[n] \in S
          /\ \A b \in Accounts : index'.parked[b].login \in S /\ mem'.parked[b].login \in S
          /\ journal'.fromLogin \in S /\ journal'.toLogin \in S
      BY <1>3 DEF Copies
    <3>2. /\ \A b \in Accounts : run'.fresh[b] \in S
          /\ run'.before \in S /\ run'.inc.login \in S
      BY <2>2 DEF Copies
    <3> HIDE DEF S
    <3>3. Copies' \subseteq S
      BY <3>1, <3>2, CopiesOver
    <3> QED BY <3>3 DEF S
  <2>4. Dated'
    <3>1. /\ \A n \in Names : vault'[n] # NoLogin => n[2] <= clock'
          /\ sess.fresh \in Logins => sess.fresh \notin Copies \cup {live}
      BY <1>3 DEF Twinless, Dated
    <3>2. \A l \in Copies' \cup {live', sess'.fresh} : Known(l, issued')
      BY <1>3, <2>1, <2>3
    <3>3. sess'.fresh \in Logins => sess'.fresh \notin Copies' \cup {live'}
      BY <1>3, <2>1, <2>3, <3>1
    <3> QED BY <1>1, <3>1, <3>2, <3>3 DEF Dated
  <2>5. Coherent'
    BY <1>1, <1>2, <1>3, <2>2 DEF Twinless, Coherent, Enrolls
  <2>6. Parted' /\ JournalParted'
    BY <1>2, <1>3 DEF Parted, JournalParted, Apart
  <2>7. RunParted'
    BY <1>1, <1>2, <1>3, <2>1, <2>2 DEF RunParted, Incoming, Journaled
  <2> QED BY <2>4, <2>5, <2>6, <2>7 DEF Twinless
<1>5. CASE /\ issued' = issued
           /\ \/ run' = [run EXCEPT !.due = @ \ {a}]
              \/ run' = [run EXCEPT !.due = @ \ {a}, !.refused = @ \cup {a}]
  <2>1. run'.fresh = run.fresh /\ run'.before = run.before /\ run'.inc = run.inc /\ run'.going = run.going
    BY <1>2, <1>5 DEF Runs
  <2> QED BY <1>1, <1>2, <1>3, <1>5, <2>1, FreeDrops
<1> QED BY <1>4, <1>5 DEF Ask

\* A park refused for good is dropped, and an answer chosen to be written.
LEMMA AnsweredTwinless ==
  ASSUME Inv, Twinless, faults = 0, faults' = 0,
         NoMoreAnswers \/ \E a \in Accounts : DropRefused(a) \/ WriteFresh(a)
  PROVE  Twinless'
<1>1. pc = "ask" /\ pc \in Asking
  BY DEF NoMoreAnswers, DropRefused, WriteFresh, Answered, Asking
<1>2. /\ journal = NoJournal /\ Apart(index) /\ Apart(mem)
      /\ Enrolls(mem) /\ Adds(mem, mem, NoPark) /\ mem \in Indexes
      /\ run \in Runs /\ run.going # "refused" /\ mem = index
      /\ \A b \in Accounts : run.fresh[b] = live => live \notin Logins
      /\ Asking \cap (Incoming \cup Journaled \cup {"repair", "sweep", "purgeSave"}) = {}
  BY <1>1, AskingApart
<1>3. {"idle", "ask", "purge", "renewReserve"} \cap (Incoming \cup {"repair"}) = {}
  BY DEF Incoming, Journaled
<1>4. ASSUME NEW a \in Accounts, DropRefused(a) PROVE Twinless'
  <2>1. PICK iy : iy = Discard(mem, mem.parked[a].name)
    OBVIOUS
  <2>2. /\ index' = iy
        /\ \/ mem' = iy /\ pc' = "ask" /\ run' = [run EXCEPT !.refused = @ \ {a}]
           \/ mem' = index' /\ pc' = "idle" /\ run' = NoRun
        /\ UNCHANGED <<live, vault, journal, clock, sess, issued>>
    BY <1>4, <2>1, NothingFails DEF DropRefused, Saves, Goes, Ends, service
  <2>3. /\ \A b \in Accounts : run'.fresh[b] \in {run.fresh[b], NoLogin}
        /\ run'.before \in {run.before, NoLogin} /\ run'.inc \in {run.inc, NoPark}
        /\ run'.going # "refused"
        /\ pc' \in Asking => run'.fresh = run.fresh
    BY <1>2, <2>2 DEF Runs, NoRun, Asking
  <2>4. Adds(mem, iy, NoPark)
    BY <1>2, <2>1, DiscardAdds
  <2> QED BY <1>2, <1>3, <2>2, <2>3, <2>4, FreeDrops
<1>5. CASE NoMoreAnswers \/ \E a \in Accounts : WriteFresh(a)
  <2>1. CASE Refuses
    BY <2>1, RefusesTwinless
  <2>2. CASE ~Refuses
    <3>1. /\ pc' \in {"purge", "renewReserve"}
          /\ \/ run' = [run EXCEPT !.next = "idle"]
             \/ \E a \in Accounts : run' = [run EXCEPT !.who = a, !.second = FALSE]
          /\ UNCHANGED <<live, vault, index, journal, clock, sess, issued, mem>>
      BY <1>5, <2>2 DEF NoMoreAnswers, WriteFresh, Goes, disk, service
    <3>2. run'.fresh = run.fresh /\ run'.before = run.before /\ run'.inc = run.inc /\ run'.going = run.going
      BY <1>2, <3>1 DEF Runs
    <3> QED BY <1>2, <1>3, <3>1, <3>2, FreeDrops
  <2> QED BY <2>1, <2>2
<1> QED BY <1>4, <1>5

\* An answer is stored under a name of its own.
LEMMA RenewStoreTwinless ==
  ASSUME Inv, Twinless, faults = 0, faults' = 0, RenewReserve \/ RenewStore
  PROVE  Twinless'
<1>1. pc \in {"renewReserve", "renewStore"} /\ pc \in Asking
  BY DEF RenewReserve, RenewStore, Asking
<1>2. /\ journal = NoJournal /\ Apart(index) /\ Apart(mem)
      /\ Enrolls(mem) /\ Adds(mem, mem, NoPark) /\ mem \in Indexes
      /\ run \in Runs /\ run.going # "refused" /\ mem = index
      /\ \A b \in Accounts : run.fresh[b] = live => live \notin Logins
      /\ \A n \in Names : vault[n] \in Copies /\ (vault[n] # NoLogin => n[2] <= clock)
      /\ \A b \in Accounts : run.fresh[b] \in Copies
      /\ run.before \in Copies /\ run.inc.login \in Copies
      /\ Asking \cap (Incoming \cup Journaled \cup {"repair", "sweep", "purgeSave"}) = {}
  BY <1>1, AskingApart
<1>3. CASE TriesAgain /\ UNCHANGED <<disk, service, mem>>
  <2>1. /\ pc' \in {"renewLost", "renewReserve"}
        /\ run' \in {run, [run EXCEPT !.second = TRUE]}
        /\ UNCHANGED <<live, vault, index, journal, clock, sess, issued, mem>>
    BY <1>3 DEF TriesAgain, Goes, disk, service
  <2>2. run'.fresh = run.fresh /\ run'.before = run.before /\ run'.inc = run.inc /\ run'.going = run.going
    BY <1>2, <2>1 DEF Runs
  <2>3. pc' \notin Incoming \cup {"repair"}
    BY <2>1 DEF Incoming, Journaled
  <2> QED BY <1>2, <2>1, <2>2, <2>3, FreeDrops
<1>4. CASE RenewReserve /\ Reserves(run.who) /\ Goes("renewStore")
  <2>1. /\ pc' = "renewStore" /\ clock' = clock + 1
        /\ run' = [run EXCEPT !.park = <<run.who, clock + 1>>]
        /\ UNCHANGED <<live, vault, index, journal, sess, issued, mem>>
    BY <1>4 DEF Reserves, Goes, service
  <2>2. run'.fresh = run.fresh /\ run'.before = run.before /\ run'.inc = run.inc /\ run'.going = run.going
    BY <1>2, <2>1 DEF Runs
  <2>3. clock \in Nat /\ \A n \in Names : n[2] \in Nat
    BY SwitchBounds DEF Inv, DiskTrue, ListTrue, Names
  <2>4. \A n \in Names : vault'[n] \in Copies \cup {NoLogin} /\ (vault'[n] # NoLogin => n[2] <= clock')
    BY <1>2, <2>1, <2>3
  <2>5. NoPark.login = NoLogin /\ NoLogin \notin Logins
    BY NobodyNamed DEF NoPark
  <2>6. pc' \notin Journaled \cup {"repair", "lock", "ready", "reserve", "journal"}
    BY <2>1 DEF Journaled
  <2> QED BY <1>2, <2>1, <2>2, <2>4, <2>5, <2>6, FreeStep
<1>5. CASE RenewStore
  <2>1. /\ pc = "renewStore" /\ pc' = "renewRecord" /\ run' = run
        /\ vault' = [vault EXCEPT ![run.park] = run.fresh[run.who]]
        /\ UNCHANGED <<live, index, journal, clock, sess, issued, mem>>
    BY <1>5, NothingFails DEF RenewStore, Goes, service
  <2>2. run.park \in Names /\ run.park[2] <= clock /\ run.who \in Accounts
    BY <2>1 DEF Inv, RunTrue, Reserved, Asked, Asking
  <2>3. \A n \in Names : vault'[n] \in Copies \cup {NoLogin} /\ (vault'[n] # NoLogin => n[2] <= clock')
    BY <1>2, <2>1, <2>2 DEF Inv, DiskTrue, VaultTrue
  <2>5. NoPark.login = NoLogin /\ NoLogin \notin Logins
    BY NobodyNamed DEF NoPark
  <2>6. pc' \notin Journaled \cup {"repair", "lock", "ready", "reserve", "journal"}
    BY <2>1 DEF Journaled
  <2> QED BY <1>2, <2>1, <2>3, <2>5, <2>6, FreeStep
<1> QED BY <1>3, <1>4, <1>5, NothingFails DEF RenewReserve, RenewStore

\* The answer is recorded in place of the park it renews, and goes in, or is given up.
LEMMA RenewRecordTwinless ==
  ASSUME Inv, Twinless, faults = 0, faults' = 0, RenewRecord \/ RenewLost
  PROVE  Twinless'
<1>1. pc \in {"renewRecord", "renewLost"} /\ pc \in Asking
  BY DEF RenewRecord, RenewLost, Asking
<1>2. /\ journal = NoJournal /\ Apart(index) /\ Apart(mem)
      /\ Enrolls(mem) /\ Adds(mem, mem, NoPark) /\ mem \in Indexes
      /\ run \in Runs /\ run.going # "refused" /\ mem = index
      /\ \A b \in Accounts : run.fresh[b] = live => live \notin Logins
      /\ \A n \in Names : vault[n] \in Copies /\ (vault[n] # NoLogin => n[2] <= clock)
      /\ \A b \in Accounts : run.fresh[b] \in Copies /\ mem.parked[b].login \in Copies
      /\ run.before \in Copies /\ run.inc.login \in Copies
      /\ Asking \cap (Incoming \cup Journaled \cup {"repair", "sweep", "purgeSave"}) = {}
  BY <1>1, AskingApart
<1>3. run.who \in Accounts /\ mem.parked[run.who] # NoPark /\ run.fresh[run.who] # NoLogin
  BY <1>1 DEF Inv, RunTrue, Asked, Asking
<1>4. PICK without : without = Discard(mem, mem.parked[run.who].name)
  OBVIOUS
<1>5. /\ Adds(mem, without, NoPark) /\ without.parked[run.who] = NoPark
      /\ without.enrolled = mem.enrolled /\ run.who \in mem.enrolled
  BY <1>2, <1>3, <1>4, DiscardAdds DEF Enrolls
<1>6. CASE RenewLost
  <2>1. /\ index' = without
        /\ \/ mem' = without /\ pc' = "ask" /\ run' = [run EXCEPT !.fresh[run.who] = NoLogin]
           \/ mem' = index' /\ pc' = "idle" /\ run' = NoRun
        /\ UNCHANGED <<live, vault, journal, clock, sess, issued>>
    BY <1>4, <1>6, NothingFails DEF RenewLost, Goes, Ends, service
  <2>2. /\ \A b \in Accounts : run'.fresh[b] \in {run.fresh[b], NoLogin}
        /\ run'.before \in {run.before, NoLogin} /\ run'.inc \in {run.inc, NoPark}
        /\ run'.going # "refused"
    BY <1>2, <2>1 DEF Runs, NoRun
  <2>3. pc' \notin Incoming \cup {"repair"}
    BY <2>1 DEF Incoming, Journaled
  <2> QED BY <1>2, <1>5, <2>1, <2>2, <2>3, NobodyNamed, FreeDrops
<1>7. CASE RenewRecord
  <2>1. PICK p : p = [name |-> run.park, login |-> run.fresh[run.who]]
    OBVIOUS
  <2>2. PICK iy : iy = ParkFor(without, run.who, p)
    OBVIOUS
  <2>3. PICK done : done = [run EXCEPT !.fresh[run.who] = NoLogin, !.park = NoName]
    OBVIOUS
  <2>4. /\ pc = "renewRecord" /\ index' = iy /\ mem' = iy
        /\ \/ run.cmd = "renew" /\ run' = done /\ pc' = "ask"
           \/ run.cmd # "renew" /\ run' = [done EXCEPT !.inc = p] /\ pc' = "lock"
        /\ UNCHANGED <<live, vault, journal, clock, sess, issued>>
    BY <1>4, <1>7, <2>1, <2>2, <2>3, NothingFails DEF RenewRecord, Saves, Goes, service
  <2>5. /\ done \in Runs /\ done.before = run.before /\ done.inc = run.inc /\ done.going = run.going
        /\ \A b \in Accounts : done.fresh[b] \in {run.fresh[b], NoLogin}
        /\ done.to = run.to
    <3>1. PICK f : f = [run.fresh EXCEPT ![run.who] = NoLogin]
      OBVIOUS
    <3>2. /\ f \in [Accounts -> Logins \cup {NoLogin}]
          /\ \A b \in Accounts : f[b] \in {run.fresh[b], NoLogin}
      BY <1>2, <3>1 DEF Runs
    <3>3. done = [run EXCEPT !.fresh = f, !.park = NoName]
      BY <1>2, <2>3, <3>1 DEF Runs
    <3> QED BY <1>2, <3>2, <3>3 DEF Runs
  <2>6. without \in Indexes
    <3>1. IndexTrue(mem, vault, clock)
      BY DEF Inv, RunTrue
    <3>2. mem.parked[run.who].name \in Names
      BY <1>3, <3>1 DEF IndexTrue, ParkOK, Parks
    <3> QED BY <1>4, <3>1, <3>2, DiscardFits DEF IndexTrue
  <2>7. Adds(without, iy, p) /\ Enrolls(without)
    BY <1>3, <1>5, <2>2, <2>6, ParkForAdds DEF Adds
  <2>8. Adds(mem, iy, p)
    BY <1>5, <2>7, AddsOn
  <2>9. iy.parked[run.who] = p
    BY <1>3, <1>5, <2>2, <2>6 DEF ParkFor, Indexes, NoPark
  <2>10. p.login \in Copies /\ p.login = run.fresh[run.who] /\ (p.login = live => live \notin Logins)
    BY <1>2, <1>3, <2>1
  <2>11. vault[p.name] = p.login
    BY <2>1, <2>4 DEF Inv, RunTrue, Reserved
  <2>12. run.cmd # "renew" => run.who = run.to
    BY <1>1, <1>3 DEF Inv, RunTrue, Asked
  <2>13. /\ \A b \in Accounts : run'.fresh[b] \in {run.fresh[b], NoLogin}
         /\ run'.before = run.before /\ run'.going = run.going /\ run'.to = run.to
         /\ run'.inc = IF pc' = "lock" THEN p ELSE run.inc
    BY <2>4, <2>5 DEF Runs
  <2>14. pc' \notin Journaled \cup {"repair"} /\ pc' \in {"ask", "lock"}
    BY <2>4 DEF Journaled
  <2>15. \A b \in Accounts : run'.fresh[b] \in Copies \cup {NoLogin}
    BY <1>2, <2>13
  <2>16. pc' \in Asking => \A b \in Accounts : run'.fresh[b] = live => live \notin Logins
    BY <1>2, <2>13, NobodyNamed
  <2>17. pc' = "lock" => index'.parked[run'.to] = run'.inc /\ vault'[run'.inc.name] = run'.inc.login
    BY <2>4, <2>9, <2>11, <2>12, <2>13
  <2>18. run'.inc.login \in Copies
    BY <1>2, <2>10, <2>13
  <2> QED BY <1>2, <2>4, <2>8, <2>10, <2>13, <2>14, <2>15, <2>16, <2>17, <2>18, FreeStep
<1> QED BY <1>6, <1>7

\* Renewing leaves nothing parked that is signed in.
LEMMA RenewTwinless ==
  ASSUME Inv, Twinless, faults = 0, faults' = 0, Renew
  PROVE  Twinless'
BY AskTwinless, AnsweredTwinless, RenewStoreTwinless, RenewRecordTwinless DEF Renew

-----------------------------------------------------------------------------
(* The change itself, and giving a journal up. *)

\* What a change goes by, from its locks on.
LEMMA ChangeApart ==
  ASSUME Inv, Twinless, pc \in Incoming
  PROVE  /\ run.to \in Accounts /\ run.inc \in Parks /\ run.inc.login \in Logins
         /\ run.inc.name \in Names /\ run.inc.name[1] = run.to /\ Account(run.inc.login) = run.to
         /\ mem = index /\ mem.parked[run.to] = run.inc /\ vault[run.inc.name] = run.inc.login
         /\ mem \in Indexes /\ IndexTrue(mem, vault, clock) /\ Enrolls(mem) /\ Adds(mem, mem, NoPark)
         /\ run \in Runs /\ run.going # "refused"
         /\ run.going = "out" => run.out \in Accounts /\ run.out # run.to
         /\ \A n \in Names : vault[n] \in Copies /\ (vault[n] # NoLogin => n[2] <= clock)
         /\ \A a \in Accounts : run.fresh[a] \in Copies /\ mem.parked[a].login \in Copies
         /\ run.before \in Copies /\ run.inc.login \in Copies
<1>1. /\ run.to \in Accounts /\ run.inc \in Parks /\ mem = index /\ index.parked[run.to] = run.inc
      /\ vault[run.inc.name] = run.inc.login /\ Account(run.inc.login) = run.to
      /\ run.going = "out" => run.out \in Accounts /\ run.out # run.to
  BY DEF Incoming, Journaled, Inv, RunTrue, Bound, Reserved, Changing, Twinless, Coherent, RunParted
<1>2. /\ run.inc.login \in Logins /\ run.inc.name \in Names
  BY <1>1 DEF Parks
<1>3. run.inc.name[1] = run.to
  BY <1>1, <1>2, ParkedOwn
<1>4. /\ mem \in Indexes /\ IndexTrue(mem, vault, clock) /\ run \in Runs
      /\ Enrolls(mem) /\ run.going # "refused"
  BY DEF Inv, RunTrue, IndexTrue, Twinless, Coherent
<1> QED BY <1>1, <1>2, <1>3, <1>4, AddsItself DEF Twinless, Dated, Copies

\* Before the journal is written there is none, and nothing parked is signed in.
LEMMA BeforeJournal ==
  ASSUME Inv, Twinless, pc \in {"lock", "ready", "reserve", "journal"}
  PROVE  journal = NoJournal /\ Apart(index) /\ Apart(mem) /\ live # run.inc.login
<1>1. journal = NoJournal /\ Apart(index) /\ Apart(mem)
  BY SettledApart DEF Unsettled, Journaled
<1>2. run.to \in Accounts /\ run.inc.login \in Logins /\ mem.parked[run.to] = run.inc
  BY ChangeApart DEF Incoming
<1> QED BY <1>1, <1>2 DEF Apart

\* Locks, the read under them, and the name for the login going out.
LEMMA LockTwinless ==
  ASSUME Inv, Twinless, faults = 0, faults' = 0, Lock \/ Ready \/ NotReady \/ Reserve
  PROVE  Twinless'
<1>0. pc \in {"lock", "ready", "reserve"} /\ pc \in Incoming
  BY DEF Lock, Ready, NotReady, Reserve, Incoming
<1>1. journal = NoJournal /\ Apart(index) /\ Apart(mem) /\ live # run.inc.login
  BY <1>0, BeforeJournal
<1>2. /\ run.to \in Accounts /\ run.inc \in Parks /\ run.inc.login \in Logins
      /\ mem = index /\ mem.parked[run.to] = run.inc /\ vault[run.inc.name] = run.inc.login
      /\ Adds(mem, mem, NoPark) /\ run \in Runs /\ run.going # "refused"
      /\ run.going = "out" => run.out \in Accounts
      /\ \A n \in Names : vault[n] \in Copies /\ (vault[n] # NoLogin => n[2] <= clock)
      /\ \A a \in Accounts : run.fresh[a] \in Copies
      /\ run.before \in Copies /\ run.inc.login \in Copies
  BY <1>0, ChangeApart
<1>3. NoPark.login = NoLogin /\ NoLogin \notin Logins
  BY NobodyNamed DEF NoPark
<1>4. {"ready", "reserve", "journal"} \cap (Journaled \cup Asking \cup {"repair"}) = {}
  BY DEF Journaled, Asking
<1>5. CASE Refuses \/ (Ends /\ UNCHANGED <<disk, service>>)
  BY <1>5, RefusesTwinless, StopsTwinless DEF disk, service
<1>6. CASE Lock /\ ~Refuses
  <2>1. /\ pc' = "ready"
        /\ UNCHANGED <<live, vault, index, journal, clock, sess, issued, mem, run>>
    BY <1>6 DEF Lock, Goes, disk, service
  <2> QED BY <1>1, <1>2, <1>3, <1>4, <2>1, FreeStep
<1>7. CASE Ready
  <2>1. /\ run' = [run EXCEPT !.before = live]
        /\ pc' = IF run.going = "out" THEN "reserve" ELSE "journal"
        /\ UNCHANGED <<live, vault, index, journal, clock, sess, issued, mem>>
    BY <1>7 DEF Ready, Goes, disk, service
  <2>2. /\ run'.fresh = run.fresh /\ run'.before = live /\ run'.inc = run.inc /\ run'.going = run.going
        /\ run'.to = run.to
    BY <1>2, <2>1 DEF Runs
  <2> QED BY <1>1, <1>2, <1>3, <1>4, <2>1, <2>2, FreeStep
<1>8. CASE Reserve /\ ~Ends
  <2>1. /\ clock' = clock + 1 /\ run' = [run EXCEPT !.park = <<run.out, clock + 1>>]
        /\ pc' = "journal" /\ pc = "reserve" /\ clock < MaxNames
        /\ UNCHANGED <<live, vault, index, journal, sess, issued, mem>>
    BY <1>8, NothingFails DEF Reserve, Reserves, Goes, service
  <2>2. /\ run'.fresh = run.fresh /\ run'.before = run.before /\ run'.inc = run.inc
        /\ run'.going = run.going /\ run'.to = run.to /\ run'.park = <<run.out, clock + 1>>
    BY <1>2, <2>1 DEF Runs
  <2>3. clock \in Nat /\ \A n \in Names : n[2] \in Nat
    BY SwitchBounds DEF Inv, DiskTrue, ListTrue, Names
  <2>4. \A n \in Names : vault'[n] \in Copies \cup {NoLogin} /\ (vault'[n] # NoLogin => n[2] <= clock')
    BY <1>2, <2>1, <2>3
  <2>5. run'.going = "out" => vault'[run'.park] = NoLogin
    <3> SUFFICES ASSUME run.going = "out" PROVE vault[<<run.out, clock + 1>>] = NoLogin
      BY <2>1, <2>2
    <3>1. <<run.out, clock + 1>> \in Names
      BY <1>2, <2>1, <2>3, SwitchBounds DEF Names
    <3> QED BY <1>2, <2>3, <3>1
  <2>6. run'.before # run'.inc.login
    BY <2>1, <2>2 DEF Twinless, RunParted, Incoming
  <2> QED BY <1>1, <1>2, <1>3, <1>4, <2>1, <2>2, <2>4, <2>5, <2>6, FreeStep
<1>9. CASE NotReady
  BY <1>5, <1>9, NothingFails DEF NotReady
<1>10. CASE Reserve /\ Ends
  <2>1. UNCHANGED <<disk, service>>
    BY <1>10 DEF Reserve, Goes, Ends
  <2> QED BY <1>5, <1>10, <2>1
<1> QED BY <1>5, <1>6, <1>7, <1>8, <1>9, <1>10

\* The journal names the login going out, which nobody has parked, and the one going in.
LEMMA WriteJournalTwinless ==
  ASSUME Inv, Twinless, faults = 0, faults' = 0, WriteJournal
  PROVE  Twinless'
<1>0. pc = "journal" /\ pc \in Incoming /\ pc \in Incoming \ {"lock", "ready"}
  BY DEF WriteJournal, Incoming
<1>1. journal = NoJournal /\ Apart(index) /\ Apart(mem) /\ live # run.inc.login
  BY <1>0, BeforeJournal
<1>2. /\ run.to \in Accounts /\ run.inc \in Parks /\ run.inc.login \in Logins
      /\ mem = index /\ mem.parked[run.to] = run.inc /\ vault[run.inc.name] = run.inc.login
      /\ run \in Runs /\ run.going # "refused"
      /\ \A n \in Names : vault[n] \in Copies /\ (vault[n] # NoLogin => n[2] <= clock)
      /\ \A a \in Accounts : run.fresh[a] \in Copies /\ mem.parked[a].login \in Copies
      /\ run.before \in Copies /\ run.inc.login \in Copies
  BY <1>0, ChangeApart
<1>3. /\ journal'.to = run.to /\ journal'.park = run.park /\ journal'.incoming = run.inc.name
      /\ journal'.fromLogin = run.before /\ journal'.toLogin = run.inc.login
      /\ pc' = IF run.going = "out" THEN "parkStore" ELSE "install"
      /\ UNCHANGED <<live, vault, index, clock, sess, issued, mem, run>>
  BY NothingFails DEF WriteJournal, Goes, service
<1>4. journal' # NoJournal
  BY <1>2, <1>3, NobodyAssumption DEF NoJournal
<1>5. /\ run.before # run.inc.login
      /\ run.going = "out" => vault[run.park] = NoLogin
      /\ run.going # "out" => run.park = NoName
  BY <1>0 DEF Twinless, RunParted, Dated, Inv, RunTrue, Reserved
<1>6. Copies' \subseteq Copies
  <2> DEFINE S == Copies
  <2>1. /\ \A n \in Names : vault'[n] \in S
        /\ \A a \in Accounts : /\ index'.parked[a].login \in S /\ mem'.parked[a].login \in S
                              /\ run'.fresh[a] \in S
        /\ journal'.fromLogin \in S /\ journal'.toLogin \in S
        /\ run'.before \in S /\ run'.inc.login \in S
    BY <1>2, <1>3
  <2> HIDE DEF S
  <2>2. Copies' \subseteq S
    BY <2>1, CopiesOver
  <2> QED BY <2>2 DEF S
<1>7. Dated'
  <2>1. /\ \A n \in Names : vault'[n] # NoLogin => n[2] <= clock'
        /\ pc' \in {"journal", "parkStore"} /\ run'.going = "out" => vault'[run'.park] = NoLogin
    BY <1>2, <1>3, <1>5
  <2> QED BY <1>3, <1>6, <2>1, DatedOver DEF Twinless
<1>8. Coherent'
  BY <1>2, <1>3 DEF Twinless, Coherent, Unsettled, Journaled, Enrolls
<1>9. Parted' /\ JournalParted'
  BY <1>1, <1>2, <1>3, <1>5 DEF Parted, JournalParted, TwinNamed, Apart
<1>10. RunParted'
  BY <1>1, <1>2, <1>3, <1>4, <1>5 DEF RunParted, Asking
<1> QED BY <1>7, <1>8, <1>9, <1>10 DEF Twinless

\* The journal is the run's own while it changes what it names.
LEMMA OwnApart ==
  ASSUME Inv, Twinless, pc \in Journaled
  PROVE  /\ journal # NoJournal /\ journal.to = run.to /\ journal.park = run.park
         /\ journal.incoming = run.inc.name
         /\ journal.fromLogin = run.before /\ journal.toLogin = run.inc.login
         /\ run.before # run.inc.login /\ TwinNamed(index) /\ TwinNamed(mem) /\ pc \in Incoming
         /\ run.park # NoName => vault[run.park] \in {NoLogin, run.before}
BY DEF Twinless, RunParted, JournalParted, Journaled, Incoming

\* The login going out is stored, then recorded, under the name the journal has for it.
LEMMA ParkTwinless ==
  ASSUME Inv, Twinless, faults = 0, faults' = 0, ParkStore \/ ParkRecord
  PROVE  Twinless'
<1>0. pc \in {"parkStore", "parkRecord"} /\ pc \in Journaled
  BY DEF ParkStore, ParkRecord, Journaled
<1>1. /\ journal # NoJournal /\ journal.to = run.to /\ journal.park = run.park
      /\ journal.incoming = run.inc.name
      /\ journal.fromLogin = run.before /\ journal.toLogin = run.inc.login
      /\ run.before # run.inc.login /\ TwinNamed(index) /\ TwinNamed(mem) /\ pc \in Incoming
  BY <1>0, OwnApart
<1>2. /\ run.to \in Accounts /\ run.inc \in Parks /\ run.inc.login \in Logins
      /\ run.inc.name \in Names /\ run.inc.name[1] = run.to
      /\ mem = index /\ mem.parked[run.to] = run.inc /\ vault[run.inc.name] = run.inc.login
      /\ mem \in Indexes /\ IndexTrue(mem, vault, clock) /\ Enrolls(mem)
      /\ run \in Runs /\ run.going # "refused"
      /\ \A n \in Names : vault[n] \in Copies /\ (vault[n] # NoLogin => n[2] <= clock)
      /\ \A a \in Accounts : run.fresh[a] \in Copies /\ mem.parked[a].login \in Copies
      /\ run.before \in Copies /\ run.inc.login \in Copies
  BY <1>1, ChangeApart
<1>3. Apart(index) /\ Apart(mem) /\ live # run.inc.login
  BY <1>0, <1>2 DEF Twinless, Parted, Apart
<1>4. /\ run.out \in Accounts /\ run.out # run.to /\ run.park \in Names /\ run.park[1] = run.out
      /\ run.park[2] <= clock /\ run.before \in Logins /\ Account(run.before) = run.out
      /\ run.park # run.inc.name
  BY <1>0, <1>2 DEF Inv, RunTrue, Reserved, Bound, Changing
<1>5. CASE ParkStore
  <2>1. /\ vault' = [vault EXCEPT ![run.park] = run.before] /\ pc' = "parkRecord"
        /\ UNCHANGED <<live, index, journal, clock, sess, issued, mem, run>>
    BY <1>5, NothingFails DEF ParkStore, Goes, service
  <2>2. \A n \in Names : vault'[n] = IF n = run.park THEN run.before ELSE vault[n]
    BY <1>4, <2>1 DEF Inv, DiskTrue, VaultTrue
  <2>3. Copies' \subseteq Copies
    <3> DEFINE S == Copies
    <3>1. /\ \A n \in Names : vault'[n] \in S
          /\ \A a \in Accounts : /\ index'.parked[a].login \in S /\ mem'.parked[a].login \in S
                                /\ run'.fresh[a] \in S
          /\ journal'.fromLogin \in S /\ journal'.toLogin \in S
          /\ run'.before \in S /\ run'.inc.login \in S
      BY <1>1, <1>2, <2>1, <2>2
    <3> HIDE DEF S
    <3>2. Copies' \subseteq S
      BY <3>1, CopiesOver
    <3> QED BY <3>2 DEF S
  <2>4. Dated'
    <3>1. /\ \A n \in Names : vault'[n] # NoLogin => n[2] <= clock'
          /\ pc' \in {"journal", "parkStore"} /\ run'.going = "out" => vault'[run'.park] = NoLogin
      BY <1>2, <1>4, <2>1, <2>2
    <3> QED BY <2>1, <2>3, <3>1, DatedOver DEF Twinless
  <2>5. Coherent'
    <3>1. Enrolls(index) /\ Enrolls(mem) /\ mem = index /\ run.going # "refused"
      BY <1>2
    <3>2. Enrolls(index)' /\ Enrolls(mem)'
      BY <2>1, <3>1 DEF Enrolls
    <3> QED BY <2>1, <3>1, <3>2 DEF Coherent, Unsettled, Journaled
  <2>6. Apart(index)' /\ Apart(mem)'
    BY <1>3, <2>1 DEF Apart
  <2>7. TwinNamed(index)' /\ TwinNamed(mem)'
    <3>1. \A a \in Accounts : ~(mem.parked[a].login = live /\ live \in Logins)
      BY <1>3 DEF Apart
    <3> QED BY <1>1, <1>2, <2>1, <3>1 DEF TwinNamed
  <2>8. Parted' /\ JournalParted'
    BY <1>1, <1>2, <1>4, <2>1, <2>2, <2>6, <2>7 DEF Parted, JournalParted
  <2>9. RunParted'
    BY <1>1, <1>2, <1>3, <1>4, <2>1, <2>2 DEF RunParted, Asking
  <2> QED BY <2>4, <2>5, <2>8, <2>9 DEF Twinless
<1>6. CASE ParkRecord
  <2>1. PICK p : p = [name |-> run.park, login |-> run.before]
    OBVIOUS
  <2>2. PICK iy : iy = ParkFor(mem, run.out, p)
    OBVIOUS
  <2>3. /\ index' = iy /\ mem' = iy /\ pc' = "reread"
        /\ UNCHANGED <<live, vault, journal, clock, sess, issued, run>>
    BY <1>6, <2>1, <2>2, NothingFails DEF ParkRecord, Saves, Goes, service
  <2>4. vault[run.park] = run.before
    BY <1>6 DEF ParkRecord, Inv, RunTrue, Reserved
  <2>5. ParkOK(run.out, p, vault, clock)
    BY <1>4, <2>1, <2>4 DEF ParkOK, Parks
  <2>6. iy.parked[run.to] = run.inc
    BY <1>2, <1>4, <2>2, <2>5, ParkForOthers
  <2>7. Adds(mem, iy, p)
    BY <1>2, <1>4, <2>2, ParkForAdds
  <2>8. p.name = run.park /\ p.login = run.before
    BY <2>1
  <2>9. Copies' \subseteq Copies \cup {live, NoLogin}
    <3> DEFINE S == Copies \cup {live, NoLogin}
    <3>1. \A a \in Accounts : iy.parked[a].login \in S
      BY <1>2, <2>7, <2>8, AddsCopies
    <3>2. /\ \A n \in Names : vault'[n] \in S
          /\ \A a \in Accounts : /\ index'.parked[a].login \in S /\ mem'.parked[a].login \in S
                                /\ run'.fresh[a] \in S
          /\ journal'.fromLogin \in S /\ journal'.toLogin \in S
          /\ run'.before \in S /\ run'.inc.login \in S
      BY <1>1, <1>2, <2>3, <3>1
    <3> HIDE DEF S
    <3>3. Copies' \subseteq S
      BY <3>2, CopiesOver
    <3> QED BY <3>3 DEF S
  <2>10. Dated'
    <3>1. \A n \in Names : vault'[n] # NoLogin => n[2] <= clock'
      BY <1>2, <2>3
    <3> QED BY <2>3, <2>9, <3>1, DatedOver DEF Twinless
  <2>11. Coherent'
    BY <1>1, <1>2, <2>3, <2>7 DEF Coherent, Unsettled, Journaled, Adds, Enrolls
  <2>12. ASSUME NEW a \in Accounts, iy.parked[a].login = live, live \in Logins
         PROVE  /\ iy.parked[a].name = journal.park /\ live = journal.fromLogin
                /\ vault[iy.parked[a].name] # NoLogin
    <3>1. iy.parked[a] = p
      BY <1>3, <2>7, <2>12, NobodyNamed DEF Adds, Apart, NoPark
    <3> QED BY <1>1, <2>4, <2>8, <2>12, <3>1, NobodyNamed
  <2>13. TwinNamed(index)' /\ TwinNamed(mem)'
    BY <1>1, <2>3, <2>6, <2>12 DEF TwinNamed
  <2>14. Parted' /\ JournalParted'
    BY <1>1, <2>3, <2>13 DEF Twinless, Parted, JournalParted
  <2>15. RunParted'
    BY <1>1, <1>2, <1>3, <2>3, <2>6 DEF RunParted, Asking
  <2> QED BY <2>10, <2>11, <2>14, <2>15 DEF Twinless
<1> QED BY <1>5, <1>6

\* A step of a change that goes on over the slot and the journal as they are.
LEMMA GoesOn ==
  ASSUME Inv, Twinless, pc \in Journaled,
         UNCHANGED <<live, vault, index, journal, clock, sess, issued, mem, run>>,
         \/ pc = "reread" /\ pc' = "install"
         \/ pc = "holds" /\ pc' = "record"
  PROVE  Twinless'
<1>1. Dated'
  <2>1. Copies' = Copies
    BY DEF Copies
  <2>2. \A n \in Names : vault'[n] # NoLogin => n[2] <= clock'
    BY DEF Twinless, Dated
  <2> QED BY <2>1, <2>2, DatedOver DEF Twinless
<1>2. Coherent' /\ Parted' /\ JournalParted'
  BY DEF Twinless, Coherent, Unsettled, Journaled, Enrolls, Parted, Apart, JournalParted, TwinNamed,
         RunParted
<1>3. RunParted'
  BY DEF Twinless, RunParted, Asking, Incoming, Journaled
<1> QED BY <1>1, <1>2, <1>3 DEF Twinless

\* Where the login read has moved, none parked is signed in; the journal is removed then.
LEMMA UndoTwinless ==
  ASSUME Inv, Twinless, faults = 0, faults' = 0, Reread \/ ParkUnreadable \/ UndoSave \/ UndoClear
  PROVE  Twinless'
<1>0. mem \in Indexes /\ Enrolls(mem) /\ run \in Runs /\ run.going # "refused" /\ Adds(mem, mem, NoPark)
  BY AddsItself DEF Inv, RunTrue, IndexTrue, Twinless, Coherent
<1>1. CASE Reread
  <2>0. pc = "reread" /\ pc \in Journaled
    BY <1>1 DEF Reread, Journaled
  <2>1. /\ journal # NoJournal /\ journal.fromLogin = run.before /\ journal.toLogin = run.inc.login
        /\ TwinNamed(index) /\ TwinNamed(mem) /\ live # run.inc.login
    BY <2>0, OwnApart DEF Twinless, RunParted
  <2>2. UNCHANGED <<live, vault, index, journal, clock, sess, issued, run>>
    BY <1>1 DEF Reread, disk, service
  <2>3. CASE live = run.before /\ pc' = "install" /\ UNCHANGED mem
    BY <2>0, <2>2, <2>3, GoesOn
  <2>4. CASE live # run.before /\ pc' = "undoSave" /\ mem' \in {mem, Discard(mem, run.park)}
    <3>1. Apart(index) /\ Apart(mem)
      BY <2>1, <2>4 DEF Apart, TwinNamed
    <3>2. PICK iy : iy = mem'
      OBVIOUS
    <3>3. Adds(mem, iy, NoPark)
      BY <1>0, <2>4, <3>2, DiscardAdds
    <3>4. NoPark.login = NoLogin /\ NoLogin \notin Logins /\ NoPark.login # journal.toLogin
      BY <2>1, NobodyNamed DEF NoPark, Inv, DiskTrue, JournalTrue
    <3>5. Apart(iy)
      BY <3>1, <3>3, <3>4, AddsApart
    <3>6. UNCHANGED <<journal, live, clock, sess, issued>> /\ Apart(index') /\ Apart(mem')
      BY <2>2, <3>1, <3>2, <3>5
    <3> QED BY <1>0, <2>1, <2>2, <2>4, <3>2, <3>3, <3>4, <3>6, ApartStep
  <2> QED BY <1>1, <2>3, <2>4, NothingFails DEF Reread, Goes
<1>2. CASE ParkUnreadable
  BY <1>2, NothingFails DEF ParkUnreadable
<1>3. CASE UndoSave
  <2>1. /\ pc = "undoSave" /\ pc' = "undoClear" /\ index' = mem /\ mem' = mem
        /\ UNCHANGED <<live, vault, journal, clock, sess, issued, run>>
    BY <1>3, NothingFails DEF UndoSave, Saves, Goes, service
  <2>2. Apart(index) /\ Apart(mem)
    BY <2>1 DEF Twinless, Parted
  <2>3. CASE journal = NoJournal
    <3>1. pc' \notin Incoming \cup Asking \cup {"repair"}
      BY <2>1 DEF Incoming, Journaled, Asking
    <3> QED BY <1>0, <2>1, <2>2, <2>3, <3>1, FreeDrops
  <2>4. CASE journal # NoJournal
    <3>1. NoPark.login = NoLogin /\ NoPark.login # journal.toLogin
      BY <2>4, NobodyNamed DEF NoPark, Inv, DiskTrue, JournalTrue
    <3>2. UNCHANGED <<journal, live, clock, sess, issued>> /\ Apart(index') /\ Apart(mem')
      BY <2>1, <2>2
    <3> QED BY <1>0, <2>1, <2>4, <3>1, <3>2, ApartStep
  <2> QED BY <2>3, <2>4
<1>4. CASE UndoClear
  <2>1. /\ pc = "undoClear" /\ pc' = "purge" /\ journal' = NoJournal
        /\ run' = [run EXCEPT !.next = "idle"]
        /\ UNCHANGED <<live, vault, index, clock, sess, issued, mem>>
    BY <1>4, NothingFails DEF UndoClear, ClearJournal, Goes, service
  <2>2. Apart(index) /\ Apart(mem) /\ mem = index
    BY <2>1 DEF Twinless, Parted, Coherent
  <2>3. run'.fresh = run.fresh /\ run'.before = run.before /\ run'.inc = run.inc /\ run'.going = run.going
    BY <1>0, <2>1 DEF Runs
  <2>4. pc' \notin Incoming \cup Asking \cup {"repair"}
    BY <2>1 DEF Incoming, Journaled, Asking
  <2> QED BY <1>0, <2>1, <2>2, <2>3, <2>4, FreeDrops
<1> QED BY <1>1, <1>2, <1>3, <1>4

\* The login going in is in the slot, and parked under the name the journal has for it.
LEMMA InstallTwinless ==
  ASSUME Inv, Twinless, faults = 0, faults' = 0, Install \/ RolledBack \/ Unverified \/ Corrupted
  PROVE  Twinless'
<1>0. Install
  BY NothingFails DEF RolledBack, Unverified, Corrupted
<1>1. /\ pc = "install" /\ pc \in Journaled /\ pc' = "holds" /\ live' = run.inc.login
      /\ UNCHANGED <<vault, index, journal, clock, sess, issued, mem, run>>
  BY <1>0 DEF Install, Installs, Goes, service, Journaled
<1>2. /\ journal # NoJournal /\ journal.to = run.to /\ journal.park = run.park
      /\ journal.incoming = run.inc.name
      /\ journal.fromLogin = run.before /\ journal.toLogin = run.inc.login
      /\ run.before # run.inc.login /\ TwinNamed(index) /\ TwinNamed(mem) /\ pc \in Incoming
  BY <1>1, OwnApart
<1>3. /\ run.to \in Accounts /\ run.inc.login \in Logins /\ Account(run.inc.login) = run.to
      /\ mem = index /\ mem.parked[run.to] = run.inc /\ vault[run.inc.name] = run.inc.login
      /\ run.inc.login \in Copies
  BY <1>2, ChangeApart
<1>4. Dated'
  <2>1. Copies' = Copies
    BY <1>1 DEF Copies
  <2>2. \A n \in Names : vault'[n] # NoLogin => n[2] <= clock'
    BY <1>1 DEF Twinless, Dated
  <2> QED BY <1>1, <1>3, <2>1, <2>2, DatedOver DEF Twinless
<1>5. Coherent'
  BY <1>1, <1>2 DEF Twinless, Coherent, Unsettled, Journaled, Enrolls
<1>6. ASSUME NEW a \in Accounts, mem.parked[a].login = run.inc.login
      PROVE  mem.parked[a] = run.inc
  BY <1>3, <1>6, ParkedOwn
<1>7. TwinNamed(index)' /\ TwinNamed(mem)'
  BY <1>1, <1>2, <1>3, <1>6, NobodyNamed DEF TwinNamed
<1>8. Parted' /\ JournalParted'
  BY <1>1, <1>2, <1>7 DEF Twinless, Parted, JournalParted
<1>9. RunParted'
  BY <1>1, <1>2, <1>3 DEF RunParted, Asking
<1> QED BY <1>4, <1>5, <1>8, <1>9 DEF Twinless

\* What went in is recorded and its park dropped; what did not stay is left as it is.
LEMMA RecordTwinless ==
  ASSUME Inv, Twinless, faults = 0, faults' = 0, Holds \/ Record
  PROVE  Twinless'
<1>0. pc \in {"holds", "record"} /\ pc \in Journaled
  BY DEF Holds, Record, Journaled
<1>1. /\ journal # NoJournal /\ journal.to = run.to
      /\ journal.incoming = run.inc.name
      /\ journal.fromLogin = run.before /\ journal.toLogin = run.inc.login
      /\ TwinNamed(index) /\ TwinNamed(mem) /\ pc \in Incoming
  BY <1>0, OwnApart
<1>2. /\ run.inc.login \in Logins /\ run.inc.name \in Names
      /\ mem = index /\ mem \in Indexes /\ IndexTrue(mem, vault, clock) /\ Enrolls(mem)
      /\ Adds(mem, mem, NoPark) /\ run \in Runs /\ run.going # "refused"
  BY <1>1, ChangeApart
<1>3. NoPark.login = NoLogin /\ NoLogin \notin Logins /\ NoPark.login # journal.toLogin
  BY <1>1, <1>2, NobodyNamed DEF NoPark
<1>4. CASE Holds
  <2>1. /\ UNCHANGED <<live, vault, index, journal, clock, sess, issued, mem, run>>
        /\ pc = "holds"
        /\ pc' = "record" \/ (pc' = "clear" /\ live = NoLogin)
    BY <1>4, NothingFails DEF Holds, Goes, disk, service
  <2>2. CASE pc' = "record"
    BY <1>0, <2>1, <2>2, GoesOn
  <2>3. CASE pc' = "clear" /\ live = NoLogin
    <3>1. Apart(index') /\ Apart(mem')
      BY <1>3, <2>1, <2>3 DEF Apart
    <3>2. UNCHANGED <<journal, live, clock, sess, issued>>
      BY <2>1
    <3> QED BY <1>1, <1>2, <1>3, <2>1, <2>3, <3>1, <3>2, ApartStep
  <2> QED BY <2>1, <2>2, <2>3
<1>5. CASE Record
  <2>1. PICK dropped : dropped = Discard(mem, run.inc.name)
    OBVIOUS
  <2>2. PICK iy : iy = Identified(dropped, run.inc.login)
    OBVIOUS
  <2>3. /\ pc = "record" /\ pc' = "purge" /\ index' = iy /\ mem' = iy
        /\ run' = [run EXCEPT !.next = "clear"]
        /\ UNCHANGED <<live, vault, clock, sess, issued>>
        /\ UNCHANGED <<journal, live, clock, sess, issued>>
    BY <1>5, <2>1, <2>2, NothingFails DEF Record, Saves, service
  <2>4. /\ run'.fresh = run.fresh /\ run'.before = run.before /\ run'.inc = run.inc
        /\ run'.going = run.going /\ run'.next = "clear"
    BY <1>2, <2>3 DEF Runs
  <2>5. /\ Adds(mem, dropped, NoPark) /\ dropped \in Indexes
        /\ \A a \in Accounts : dropped.parked[a] =
             IF mem.parked[a].name = run.inc.name THEN NoPark ELSE mem.parked[a]
    BY <1>2, <2>1, DiscardAdds, DiscardFits DEF IndexTrue
  <2>6. Adds(dropped, iy, NoPark) /\ iy.parked = dropped.parked
    BY <2>2, <2>5, IdentifiedAdds DEF Adds
  <2>7. Adds(mem, iy, NoPark)
    BY <2>5, <2>6, AddsOn
  <2>8. Apart(iy)
    <3> SUFFICES ASSUME NEW a \in Accounts, iy.parked[a].login = live, live \in Logins PROVE FALSE
      BY DEF Apart
    <3>1. mem.parked[a].login = live /\ mem.parked[a].name # run.inc.name
      BY <1>3, <2>5, <2>6
    <3>2. live = run.before
      BY <1>1, <3>1 DEF TwinNamed
    <3> QED BY <1>0, <3>2 DEF Twinless, RunParted
  <2>9. Apart(index') /\ Apart(mem')
    BY <2>3, <2>8
  <2> QED BY <1>1, <1>2, <1>3, <2>3, <2>4, <2>7, <2>9, ApartStep
<1> QED BY <1>4, <1>5

\* The journal goes once nothing parked is signed in.
LEMMA ClearTwinless ==
  ASSUME Inv, Twinless, faults = 0, faults' = 0, Clear
  PROVE  Twinless'
<1>1. /\ pc = "clear" /\ pc' = "idle" /\ journal' = NoJournal /\ run' = NoRun /\ mem' = index'
      /\ UNCHANGED <<live, vault, index, clock, sess, issued>>
  BY NothingFails DEF Clear, ClearJournal, Ends, service
<1>2. Apart(index) /\ Apart(mem) /\ Enrolls(mem) /\ Adds(mem, mem, NoPark)
  BY <1>1, AddsItself DEF Twinless, Parted, Coherent
<1>3. /\ \A a \in Accounts : run'.fresh[a] = NoLogin
      /\ run'.before = NoLogin /\ run'.inc = NoPark /\ run'.going # "refused"
  BY <1>1 DEF NoRun
<1>4. pc' \notin Incoming \cup Asking \cup {"repair"}
  BY <1>1 DEF Incoming, Journaled, Asking
<1> QED BY <1>1, <1>2, <1>3, <1>4, FreeDrops

\* A change leaves nothing parked that is signed in.
LEMMA ChangeTwinless ==
  ASSUME Inv, Twinless, faults = 0, faults' = 0, Change
  PROVE  Twinless'
BY LockTwinless, WriteJournalTwinless, ParkTwinless, UndoTwinless, InstallTwinless, RecordTwinless,
   ClearTwinless DEF Change

\* A journal given up keeps every copy it names but one of the login signed in.
LEMMA AbandonTwinless ==
  ASSUME Inv, Twinless, ~Locking, faults = 0, faults' = 0, Abandon
  PROVE  Twinless'
<1>1. PICK parked : parked = IF Replaces(journal) THEN NoLogin ELSE vault[journal.park]
  OBVIOUS
<1>2. PICK incoming : incoming = vault[journal.incoming]
  OBVIOUS
<1>3. PICK iy : iy = GivenUp(mem, journal, parked, incoming, live)
  OBVIOUS
<1>4. /\ pc = "abandon" /\ pc' = "clear" /\ index' = iy /\ mem' = iy
      /\ UNCHANGED <<vault, run>> /\ UNCHANGED <<journal, live, clock, sess, issued>>
  BY <1>1, <1>2, <1>3, NothingFails DEF Abandon, Saves, Goes, service
<1>5. /\ journal # NoJournal /\ journal.from # journal.to
      /\ journal.incoming \in Names /\ journal.toLogin \in Logins
      /\ journal.park # NoName => journal.park \in Names /\ journal.from \in Accounts
  BY <1>4 DEF Inv, DiskTrue, RunTrue, Settling, JournalTrue, Journals, Names
<1>6. /\ journal.fromLogin # journal.toLogin /\ TwinNamed(mem)
      /\ journal.park # NoName => vault[journal.park] \in {NoLogin, journal.fromLogin}
      /\ vault[journal.incoming] \in {NoLogin, journal.toLogin}
      /\ Enrolls(mem) /\ run.going # "refused"
  BY <1>5 DEF Twinless, JournalParted, Coherent
<1>7. mem \in Indexes /\ IndexTrue(mem, vault, clock)
  BY DEF Inv, RunTrue, IndexTrue
<1>8. parked \in {NoLogin, journal.fromLogin} /\ parked \in Copies \cup {NoLogin}
  BY <1>1, <1>5, <1>6 DEF Replaces, Copies
<1>9. PICK p : p = [name |-> journal.park, login |-> parked]
  OBVIOUS
<1>10. PICK first : first = IF LiveTwin(parked, live) THEN Discard(mem, journal.park)
                            ELSE IF parked # NoLogin THEN ParkFor(mem, journal.from, p)
                            ELSE mem
  OBVIOUS
<1>11. iy = IF LiveTwin(incoming, live) THEN Discard(first, journal.incoming) ELSE first
  BY <1>3, <1>9, <1>10 DEF GivenUp
<1>12. parked # NoLogin => journal.park \in Names /\ journal.from \in Accounts
  BY <1>1, <1>5 DEF Replaces
<1>13. /\ Adds(mem, mem, NoPark) /\ Adds(mem, mem, p)
  BY <1>6 DEF Adds
<1>14. /\ Adds(mem, Discard(mem, journal.park), NoPark)
       /\ \A a \in Accounts : Discard(mem, journal.park).parked[a] =
             IF mem.parked[a].name = journal.park THEN NoPark ELSE mem.parked[a]
  BY <1>6, <1>7, DiscardAdds
<1>15. Adds(mem, first, p) /\ first \in Indexes /\ Enrolls(first)
  <2>1. CASE LiveTwin(parked, live)
    <3>1. parked # NoLogin
      BY <2>1, NobodyNamed DEF LiveTwin
    <3>2. Discard(mem, journal.park) \in Indexes
      BY <1>7, <1>12, <3>1, DiscardFits DEF IndexTrue
    <3> QED BY <1>10, <1>14, <2>1, <3>2 DEF Adds
  <2>2. CASE ~LiveTwin(parked, live) /\ parked # NoLogin
    <3>1. ParkOK(journal.from, p, vault, clock)
      BY <1>1, <1>5, <1>9, <2>2, NobodyNamed
         DEF Replaces, VaultTrue, ParkOK, Parks, Inv, DiskTrue, JournalTrue
    <3>2. IndexTrue(ParkFor(mem, journal.from, p), vault, clock)
      BY <1>7, <1>12, <2>2, <3>1, ParkForFits
    <3>3. Adds(mem, ParkFor(mem, journal.from, p), p)
      BY <1>6, <1>7, <1>12, <2>2, ParkForAdds
    <3> QED BY <1>10, <2>2, <3>2, <3>3 DEF IndexTrue, Adds
  <2>3. CASE ~LiveTwin(parked, live) /\ parked = NoLogin
    BY <1>6, <1>7, <1>10, <1>13, <2>3
  <2> QED BY <2>1, <2>2, <2>3
<1>16. /\ Adds(first, Discard(first, journal.incoming), NoPark)
       /\ \A a \in Accounts : Discard(first, journal.incoming).parked[a] =
             IF first.parked[a].name = journal.incoming THEN NoPark ELSE first.parked[a]
  BY <1>15, DiscardAdds
<1>17. Adds(mem, iy, p)
  BY <1>11, <1>15, <1>16, AddsOn
<1>18. Apart(iy)
  <2> SUFFICES ASSUME NEW a \in Accounts, iy.parked[a].login = live, live \in Logins PROVE FALSE
    BY DEF Apart
  <2>1. /\ iy.parked[a] = first.parked[a]
        /\ LiveTwin(incoming, live) => first.parked[a].name # journal.incoming
    BY <1>11, <1>16, NobodyNamed DEF NoPark
  <2>2. first.parked[a] = mem.parked[a]
    <3>1. CASE parked = live
      BY <1>10, <1>14, <2>1, <3>1, NobodyNamed DEF LiveTwin, NoPark
    <3>2. CASE parked # live
      BY <1>9, <1>15, <2>1, <3>2, NobodyNamed DEF Adds, NoPark
    <3> QED BY <3>1, <3>2
  <2>3. mem.parked[a].login = live /\ mem.parked[a].name \in Names
    BY <2>1, <2>2, ParkedOwn
  <2>4. \/ mem.parked[a].name = journal.park /\ live = journal.fromLogin /\ vault[journal.park] # NoLogin
        \/ /\ mem.parked[a].name = journal.incoming /\ live = journal.toLogin
           /\ vault[journal.incoming] # NoLogin
    BY <1>6, <2>3 DEF TwinNamed
  <2>5. CASE mem.parked[a].name = journal.park /\ live = journal.fromLogin /\ vault[journal.park] # NoLogin
    <3>1. parked = live
      BY <1>1, <1>6, <2>3, <2>5, NobodyNamed DEF Replaces
    <3> QED BY <1>10, <1>14, <2>1, <2>5, <3>1, NobodyNamed DEF LiveTwin, NoPark
  <2>6. CASE /\ mem.parked[a].name = journal.incoming /\ live = journal.toLogin
             /\ vault[journal.incoming] # NoLogin
    <3>1. incoming = live
      BY <1>2, <1>6, <2>6
    <3> QED BY <2>1, <2>2, <2>6, <3>1 DEF LiveTwin
  <2> QED BY <2>4, <2>5, <2>6
<1>19. p.login \in Copies \cup {NoLogin} /\ p.login # journal.toLogin
  BY <1>5, <1>6, <1>8, <1>9, NobodyNamed
<1>20. Apart(index') /\ Apart(mem')
  BY <1>4, <1>18
<1> QED BY <1>4, <1>5, <1>6, <1>17, <1>19, <1>20, ApartStep

-----------------------------------------------------------------------------
(* No login is parked and signed in at once. *)

\* What is so at the start.
LEMMA TwinlessInit == Init => Twinless
<1> SUFFICES ASSUME Init PROVE Twinless
  OBVIOUS
<1>1. PICK signedIn \in Accounts, others \in SUBSET Accounts :
        /\ signedIn \notin others
        /\ index = [enrolled |-> others \cup {signedIn},
                    parked |-> [a \in Accounts |->
                       IF a \in others THEN [name |-> <<a, 1>>, login |-> <<a, 1>>] ELSE NoPark],
                    discarded |-> {},
                    inUse |-> [owner |-> signedIn, login |-> <<signedIn, 1>>]]
        /\ vault = [n \in Names |-> IF \E a \in others : n = <<a, 1>> THEN <<n[1], 1>> ELSE NoLogin]
        /\ live = <<signedIn, 1>>
  BY DEF Init
<1>2. /\ journal = NoJournal /\ clock = 1
      /\ issued = [a \in Accounts |-> IF a \in index.enrolled THEN 1 ELSE 0]
      /\ sess = NoRenewal /\ pc = "idle" /\ mem = index /\ run = NoRun
  BY DEF Init
<1>3. index.enrolled = others \cup {signedIn}
  BY <1>1
<1>4. \A a \in Accounts : index.parked[a] =
         IF a \in others THEN [name |-> <<a, 1>>, login |-> <<a, 1>>] ELSE NoPark
  BY <1>1
<1>5. \A n \in Names : vault[n] = NoLogin \/ (\E a \in others : n = <<a, 1>> /\ vault[n] = <<a, 1>>)
  BY <1>1
<1>6. \A l \in Copies \cup {live, NoLogin} : l = NoLogin \/ \E a \in index.enrolled : l = <<a, 1>>
  <2>1. /\ \A n \in Names : vault[n] = NoLogin \/ \E a \in index.enrolled : vault[n] = <<a, 1>>
        /\ \A a \in Accounts : index.parked[a].login = NoLogin
                                 \/ \E b \in index.enrolled : index.parked[a].login = <<b, 1>>
        /\ live = <<signedIn, 1>> /\ signedIn \in index.enrolled
    BY <1>1, <1>3, <1>4, <1>5 DEF NoPark
  <2>2. /\ \A a \in Accounts : run.fresh[a] = NoLogin
        /\ {journal.fromLogin, journal.toLogin, run.before, run.inc.login} = {NoLogin}
    BY <1>2 DEF NoRun, NoJournal, NoPark
  <2> QED BY <1>2, <2>1, <2>2 DEF Copies
<1>7. \A l \in Copies \cup {live, NoLogin} : Known(l, issued)
  BY <1>2, <1>3, <1>6, NobodyNamed DEF Known
<1>8. Dated
  <2>1. sess.fresh = NoLogin
    BY <1>2 DEF NoRenewal
  <2>2. \A n \in Names : vault[n] # NoLogin => n[2] <= clock
    BY <1>2, <1>5
  <2> QED BY <1>2, <1>7, <2>1, <2>2, NobodyNamed DEF Dated
<1>9. Coherent
  BY <1>2, <1>3, <1>4 DEF Coherent, Enrolls, NoRun
<1>10. Apart(index)
  BY <1>1, <1>4, NobodyNamed DEF Apart, NoPark
<1>11. RunParted
  BY <1>2 DEF RunParted, Asking, Incoming, Journaled
<1> QED BY <1>2, <1>8, <1>9, <1>10, <1>11 DEF Twinless, Parted, JournalParted

\* What fails stays failed.
LEMMA FaultsStay ==
  ASSUME Inv, [Next]_vars, faults' = 0
  PROVE  faults = 0
<1>1. faults \in Nat
  BY SwitchBounds DEF Inv, DiskTrue, BudgetsOK
<1>2. faults' \in {faults, faults + 1}
  <2>1. CASE UNCHANGED vars
    BY <2>1 DEF vars, budgets
  <2>2. CASE \E cmd \in Commands, a \in Accounts \cup {Nobody} : Start(cmd, a)
    BY <2>2 DEF Start, budgets
  <2>3. CASE World
    BY <2>3 DEF World, Outside, budgets, SessionSends, SessionSaves, LogOut, OutsideSignIn,
                ServiceRefuses
  <2>4. CASE Crash
    BY <2>4 DEF Crash
  <2>5. CASE Settle
    BY <2>5 DEF Settle, ReconcileNothing, ReconcileTorn, ReconcileRead, Undetermined, Repair,
                ClearRepaired, Sweep, SweepSave, SweepList, FindTwins, NothingDue, DropTwins,
                Purge, PurgeSave, ClearJournal, TwinRead,
                NoFault, Fault, Breaks, Refuses, Saves, SaveFails, budgets
  <2>6. CASE Renew
    BY <2>6 DEF Renew, Ask, DropRefused, WriteFresh, NoMoreAnswers, RenewReserve, RenewStore,
                RenewRecord, RenewLost, Reserves, ReservesUnlisted, CannotReserve,
                NoFault, Fault, Breaks, Refuses, Saves, SaveFails, budgets
  <2>7. CASE Lock \/ Ready \/ NotReady \/ Reserve \/ WriteJournal \/ ParkStore \/ ParkRecord
    BY <2>7 DEF Lock, Ready, NotReady, Reserve, WriteJournal, ParkStore, ParkRecord, Reserves,
                CannotReserve, NoFault, Fault, Breaks, Refuses, Saves, SaveFails, budgets
  <2>8. CASE Reread \/ ParkUnreadable \/ UndoSave \/ UndoClear
    BY <2>8 DEF Reread, ParkUnreadable, UndoSave, UndoClear, ClearJournal,
                NoFault, Fault, Breaks, Refuses, Saves, SaveFails, budgets
  <2>9. CASE Install \/ RolledBack \/ Unverified \/ Corrupted \/ Holds \/ Record \/ Clear
    BY <2>9 DEF Install, RolledBack, Unverified, Corrupted, Holds, Record, Clear, ClearJournal,
                Installs, CutShort, NoFault, Fault, Breaks, Refuses, Saves, SaveFails, budgets
  <2>10. CASE Abandon
    BY <2>10 DEF Abandon, NoFault, Fault, Breaks, Saves
  <2>11. CASE Identify \/ IdentifyFails \/ IdentifyRefused \/ Forget \/ Prove \/ NotProved
    BY <2>11 DEF Identify, IdentifyFails, IdentifyRefused, Forget, Prove, NotProved,
                 NoFault, Fault, Breaks, Refuses, Saves, SaveFails, budgets
  <2> QED BY <2>1, <2>2, <2>3, <2>4, <2>5, <2>6, <2>7, <2>8, <2>9, <2>10, <2>11
          DEF Next, Process, Change
<1> QED BY <1>1, <1>2

\* No step leaves one where a Codex run that nothing failed has none.
LEMMA TwinlessNext ==
  ASSUME Inv, Twinless, ~Locking, faults = 0, faults' = 0, [Next]_vars
  PROVE  Twinless'
<1>1. CASE UNCHANGED vars
  BY <1>1 DEF vars, disk, world, process, service, Twinless, Dated, Coherent, Parted,
              JournalParted, RunParted, Copies, Known, Enrolls, Unsettled, Journaled, Incoming,
              Asking, Apart, TwinNamed
<1>2. CASE \E cmd \in Commands, a \in Accounts \cup {Nobody} : Start(cmd, a)
  BY <1>2, StartTwinless
<1>3. CASE World
  BY <1>3, WorldTwinless
<1>4. CASE Crash
  <2>1. Ends /\ UNCHANGED <<vault, index, journal, clock, sess, issued>> /\ live' \in {live, Torn}
    BY <1>4 DEF Crash, service
  <2> QED BY <2>1, StopsTwinless
<1>5. CASE Process
  BY <1>5, SettleTwinless, RenewTwinless, ChangeTwinless, AbandonTwinless, IdentifyTwinless,
     ProveTwinless DEF Process
<1> QED BY <1>1, <1>2, <1>3, <1>4, <1>5 DEF Next

\* While nothing has failed, no Codex login is parked and signed in at once but as an
\* interrupted change's journal says.
THEOREM TwinlessHolds == Spec => [](Moving => Twinless)
<1>1. Init => (Moving => Twinless)
  BY TwinlessInit
<1>2. Inv /\ (Moving => Twinless) /\ [Next]_vars => (Moving => Twinless)'
  <2> SUFFICES ASSUME Inv, Moving => Twinless, [Next]_vars, ~Locking, faults' = 0 PROVE Twinless'
    BY DEF Moving
  <2>1. faults = 0
    BY FaultsStay
  <2> QED BY <2>1, TwinlessNext DEF Moving
<1> QED BY InvHolds, <1>1, <1>2, PTL DEF Spec

\* NoTwinAtRest: with no journal left behind and nothing failed, no Codex login is
\* parked and signed in at once.
THEOREM NoLoginIsTwice == Spec => []NoTwinAtRest
<1>1. Inv /\ (Moving => Twinless) => NoTwinAtRest
  <2> SUFFICES ASSUME Inv, Twinless, pc = "idle", journal = NoJournal,
                      NEW a \in Accounts, index.parked[a].login = live, live \in usable
               PROVE  FALSE
    BY DEF NoTwinAtRest, Moving
  <2>1. Apart(index)
    BY DEF Twinless, Parted
  <2>2. usable \subseteq Logins
    BY DEF Inv, DiskTrue, WorldOK
  <2> QED BY <2>1, <2>2 DEF Apart
<1> QED BY InvHolds, TwinlessHolds, <1>1, PTL

=============================================================================
