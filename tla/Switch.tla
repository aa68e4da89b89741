------------------------------- MODULE Switch -------------------------------
(***************************************************************************)
(* The switch engine of pitboard-core for one tool whose login is a        *)
(* document (Claude Code or Codex): what a change writes, in which order,  *)
(* and what the next run makes of a change that died half way.             *)
(*                                                                         *)
(* A login is <<account, n>>: the n-th refresh token the service gave that *)
(* account.  The service takes each refresh token once (`usable').  A park *)
(* is a vault item <<account, k>>, named by the account it was written for *)
(* and the moment it was written; k only grows, as the clock does.         *)
(*                                                                         *)
(* One Pitboard process at a time changes anything: it holds state.lock,   *)
(* which the kernel lets go of when it dies (Crash).  The tool's sessions, *)
(* a sign-in or sign-out outside Pitboard and the service act meanwhile.   *)
(***************************************************************************)
EXTENDS Naturals, FiniteSets

CONSTANTS Accounts,     \* every account the tool can be signed in to
          Nobody,       \* no account
          Locking,      \* Claude Code: locks its login and may hold a copy.
                        \* FALSE is Codex: no lock, a login is moved (MoveOnly)
          Pieces,       \* the live store takes a write in pieces
          Failing,      \* the operations that may fail, of Operations
          MaxLogins,    \* bound: logins the service issues to an account
          MaxNames,     \* bound: vault names reserved
          MaxCrashes,   \* bound: runs that die
          MaxFaults,    \* bound: store, vault and file operations that fail
          MaxOutside    \* bound: sign-ins, sign-outs and refusals outside

\* Reading the slot or the vault; one item the list names; the slot, where what
\* cannot be read is taken for empty.  Writing either; saving the index, the list
\* of names and the journal; removing the journal.
Operations == {"read", "item", "twin", "write", "save", "list", "journal", "unlink"}

ASSUME NobodyAssumption == Nobody \notin Accounts
ASSUME SwitchBounds ==
  /\ Failing \subseteq Operations
  /\ Locking \in BOOLEAN /\ Pieces \in BOOLEAN
  /\ MaxLogins \in Nat \ {0} /\ MaxNames \in Nat \ {0}
  /\ MaxCrashes \in Nat /\ MaxFaults \in Nat /\ MaxOutside \in Nat

Logins    == Accounts \X (1 .. MaxLogins)
NoLogin   == <<Nobody, 0>>      \* nothing stored
Torn      == <<Nobody, 1>>      \* store::Error::Unfinished: a write cut short
Names     == Accounts \X (1 .. MaxNames)
NoName    == <<Nobody, 0>>
Account(l) == l[1]

Parks     == [name : Names, login : Logins]
NoPark    == [name |-> NoName, login |-> NoLogin]
NoJournal == [from |-> Nobody, to |-> Nobody, park |-> NoName,
              incoming |-> NoName, fromLogin |-> NoLogin, toLogin |-> NoLogin]
NoRenewal == [sent |-> NoLogin, fresh |-> NoLogin]

VARIABLES
  \* On disk, and what a crash leaves.
  live,       \* the tool's slot: a login, NoLogin or Torn
  vault,      \* Pitboard's parks: what each name holds
  index,      \* state.json: [enrolled, parked, discarded, inUse]
  journal,    \* journal.json, or NoJournal
  listed,     \* pending: names written down before they are written
  clock,      \* the last name reserved
  \* The service and the tool.
  usable,     \* the refresh tokens the service still takes
  issued,     \* how many each account was given
  sess,       \* a session's renewal under way: [sent, fresh], or NoRenewal
  toolLock,   \* the tool's refresh and write lock: "free", "session", "pitboard"
  \* The Pitboard process.
  pc,         \* "idle", or the step it is about to take
  mem,        \* the state it loaded, as far as it has changed it
  run,        \* what it read and reserved
  \* History, and the bounds spent.
  taken,      \* accounts a login of which somebody else ended, until signed in to again
  crashes, faults, outside

disk     == <<live, vault, index, journal, listed, clock>>
service  == <<usable, issued, sess>>
world    == <<service, toolLock>>
process  == <<pc, mem, run>>
budgets  == <<crashes, faults, outside>>
vars     == <<disk, world, process, taken, budgets>>

-----------------------------------------------------------------------------
(* state.rs: the account index, as a value. *)

Indexes == [enrolled  : SUBSET Accounts,
            parked    : [Accounts -> Parks \cup {NoPark}],
            discarded : SUBSET Names,
            inUse     : [owner : Accounts \cup {Nobody}, login : Logins \cup {NoLogin}]]

References(ix, n) == \E a \in Accounts : ix.parked[a].name = n

IndexNames(ix, n) == References(ix, n) \/ n \in ix.discarded

LetGo(ix, n) ==
  [ix EXCEPT !.parked = [a \in Accounts |->
      IF ix.parked[a].name = n THEN NoPark ELSE ix.parked[a]]]

\* `discard', and `release' of an item this home wrote: listed for deletion.
Discard(ix, n) == [LetGo(ix, n) EXCEPT !.discarded = @ \cup {n}]

\* The park it replaces is released.
ParkFor(ix, a, p) ==
  LET old  == ix.parked[a].name
      with == [ix EXCEPT !.parked[a] = p]
  IN  IF a \notin ix.enrolled THEN ix
      ELSE IF old \in {NoName, p.name} THEN with ELSE Discard(with, old)

Identified(ix, l) == [ix EXCEPT !.inUse = [owner |-> Account(l), login |-> l]]

Removed(ix, a) ==
  LET without == [ix EXCEPT !.enrolled = @ \ {a}]
  IN  IF ix.parked[a] = NoPark THEN without ELSE Discard(without, ix.parked[a].name)

\* Mutant: the account recorded as in use is taken to have no park.
TwinsOfOthers(ix, l) == {n \in Names : l \in Logins /\ [name |-> n, login |-> l] \in
                                 {ix.parked[a] : a \in Accounts \ {ix.inUse.owner}}}

\* Parks of the login signed in now (park.rs, live_twins).
Twins(ix, l) == {n \in Names : l \in Logins /\ [name |-> n, login |-> l] \in
                                 {ix.parked[a] : a \in Accounts}}

DiscardAll(ix, ns) ==
  [ix EXCEPT !.discarded = @ \cup ns,
             !.parked = [a \in Accounts |->
                IF ix.parked[a].name \in ns THEN NoPark ELSE ix.parked[a]]]

-----------------------------------------------------------------------------
(* What becomes of an account's login. *)

\* Where a run still finds it: parked, or listed and given back by a sweep.
Kept(a) == \E n \in Names :
              /\ vault[n] \in usable /\ Account(vault[n]) = a
              /\ n \notin index.discarded
              /\ n = index.parked[a].name \/ n \in listed

Signed(a) == live \in usable /\ Account(live) = a

\* A session saves its answer over the token it sent; Codex, over any login of
\* the same account.
SavesOver == IF Locking THEN live = sess.sent ELSE Account(live) = Account(sess.fresh)

Renewing(a) == sess.fresh \in usable /\ Account(sess.fresh) = a /\ SavesOver

Held(a) == Kept(a) \/ Signed(a) \/ Renewing(a)

\* What somebody ends who signs in or out over a login, or has the service refuse it:
\* the login, and the answer a session would have saved over it.
Ended(l) == {a \in {Account(l)} \cap Accounts : l \in usable \/ Renewing(a)}

\* Codex ends the login it saves an answer over, where the service has refused that since.
Spoils == IF Locking \/ ~SavesOver \/ sess.fresh \in usable THEN {} ELSE Ended(live)

\* What a switch has just put in the slot and not yet seen to hold is still parked: who
\* signs out of it then ends nothing, unless signing out revokes it.
Backed(l) == {a \in {run.to} : pc = "holds" /\ l = run.inc.login /\ l \in usable'}

\* The run has lost the answer, and with it the account's login, unless it has another.
Lost(a) == {b \in {a} \cap Accounts : ~Held(b)'}

-----------------------------------------------------------------------------
(* The process: starting, failing, dying, and being done. *)

Commands == {"switch", "replace", "forget", "repair", "renew", "abandon"}

NoRun == [cmd |-> "none", to |-> Nobody, going |-> "out", out |-> Nobody,
          seen |-> NoLogin, before |-> NoLogin, park |-> NoName, inc |-> NoPark,
          todo |-> {}, keep |-> {}, due |-> {}, fresh |-> [a \in Accounts |-> NoLogin],
          refused |-> {}, who |-> Nobody, second |-> FALSE, next |-> "idle"]

Steps == {"idle", "reconcile", "repair", "clearRepaired", "sweep", "sweepSave",
          "sweepList", "twins", "dropTwins", "purge", "purgeSave", "identify",
          "forget", "prove", "ask", "renewReserve", "renewStore",
          "renewRecord", "renewLost", "lock", "ready", "reserve", "journal",
          "parkStore", "parkRecord", "reread", "undoSave", "undoClear",
          "install", "holds", "record", "clear", "abandon"}

Init ==
  \E signedIn \in Accounts, others \in SUBSET Accounts :
    /\ signedIn \notin others
    /\ LET park(a) == IF a \in others THEN [name |-> <<a, 1>>, login |-> <<a, 1>>]
                      ELSE NoPark
       IN /\ index = [enrolled |-> others \cup {signedIn},
                      parked |-> [a \in Accounts |-> park(a)],
                      discarded |-> {},
                      inUse |-> [owner |-> signedIn, login |-> <<signedIn, 1>>]]
          /\ vault = [n \in Names |->
                        IF \E a \in others : n = <<a, 1>> THEN <<n[1], 1>> ELSE NoLogin]
    /\ live = <<signedIn, 1>>
    /\ journal = NoJournal /\ listed = {} /\ clock = 1
    /\ issued = [a \in Accounts |-> IF a \in index.enrolled THEN 1 ELSE 0]
    /\ usable = {<<a, 1>> : a \in index.enrolled}
    /\ sess = NoRenewal /\ toolLock = "free"
    /\ pc = "idle" /\ mem = index /\ run = NoRun
    /\ taken = {} /\ crashes = 0 /\ faults = 0 /\ outside = 0

\* A store, the vault or a file did not do what it was asked.
Fault(op) == op \in Failing /\ faults < MaxFaults /\ faults' = faults + 1
NoFault == UNCHANGED faults

\* The run ends, done or refused: its locks go with it.
Ends ==
  /\ pc' = "idle" /\ run' = NoRun /\ mem' = index'
  /\ toolLock' = IF toolLock = "pitboard" THEN "free" ELSE toolLock

Goes(step) == pc' = step /\ UNCHANGED toolLock

\* An early return that writes nothing, and one an operation that failed makes.
Refuses == UNCHANGED <<disk, service, taken, budgets>> /\ Ends
Breaks(op) == Fault(op) /\ UNCHANGED <<disk, service, taken, crashes, outside>> /\ Ends

\* Saves `ix', or fails to and leaves the file as it was.
Saves(ix) == index' = ix /\ mem' = ix /\ NoFault
SaveFails == index' = index /\ Fault("save")

Start(cmd, a) ==
  /\ pc = "idle"
  /\ IF cmd \in {"switch", "replace", "forget"} THEN a \in index.enrolled ELSE a = Nobody
  /\ cmd = "renew" => journal = NoJournal
  /\ cmd = "abandon" => journal # NoJournal
  /\ mem' = index
  /\ run' = [NoRun EXCEPT !.cmd = cmd, !.to = a]
  /\ Goes(CASE cmd = "renew" -> "twins"
            [] cmd = "abandon" -> "abandon"
            [] OTHER -> "reconcile")
  /\ UNCHANGED <<disk, service, taken, budgets>>

\* Killed anywhere.  A renewal's answer dies with it, and an install that was
\* writing in pieces is cut short.
Crash ==
  /\ pc # "idle" /\ crashes < MaxCrashes
  /\ crashes' = crashes + 1
  /\ \/ live' = live
     \/ pc = "install" /\ Pieces /\ live' = Torn
  /\ UNCHANGED <<vault, index, journal, listed, clock, service, faults, outside>>
  /\ taken' = taken \cup {a \in Accounts : run.fresh[a] # NoLogin /\ ~Held(a)'}
  /\ Ends

-----------------------------------------------------------------------------
(* What the tool, the person and the service do meanwhile.  Their locks are  *)
(* the register's `refresh_lock', `write_lock' and `logout_skips_the_lock'.  *)

Outside == outside < MaxOutside /\ outside' = outside + 1 /\ UNCHANGED <<crashes, faults>>

Issues(a) == issued[a] < MaxLogins /\ issued' = [issued EXCEPT ![a] = @ + 1]
Fresh(a)  == <<a, issued[a] + 1>>

\* A session renews its login: the token it sends is spent from here on.
SessionSends ==
  /\ sess = NoRenewal /\ live \in usable
  /\ Locking => toolLock = "free"
  /\ LET a == Account(live)
     IN  /\ Issues(a)
         /\ usable' = (usable \ {live}) \cup {Fresh(a)}
         /\ sess' = [sent |-> live, fresh |-> Fresh(a)]
  /\ toolLock' = IF Locking THEN "session" ELSE toolLock
  /\ UNCHANGED <<disk, process, taken, budgets>>

SessionSaves ==
  /\ sess # NoRenewal
  /\ live' = IF SavesOver THEN sess.fresh ELSE live
  /\ sess' = NoRenewal
  /\ toolLock' = IF Locking THEN "free" ELSE toolLock
  /\ taken' = taken \cup Spoils
  /\ UNCHANGED <<vault, index, journal, listed, clock, usable, issued, process, budgets>>

\* Codex revokes the login it finds before it clears it.
Revoked == IF Locking THEN usable ELSE usable \ {live}

OutsideSignIn(a) ==
  /\ Outside
  /\ toolLock # "pitboard"
  /\ Issues(a)
  /\ live' = Fresh(a)
  /\ usable' = Revoked \cup {Fresh(a)}
  /\ UNCHANGED <<vault, index, journal, listed, clock, sess, toolLock, process>>
  /\ taken' = (taken \cup Ended(live)) \ {a}

\* With no lock held, whoever holds it.
LogOut ==
  /\ Outside
  /\ live \in Logins
  /\ live' = NoLogin
  /\ usable' = Revoked
  /\ UNCHANGED <<vault, index, journal, listed, clock, issued, sess, toolLock, process>>
  /\ taken' = taken \cup (Ended(live) \ Backed(live))

ServiceRefuses(l) ==
  /\ Outside
  /\ l \in usable
  /\ usable' = usable \ {l}
  /\ UNCHANGED <<disk, issued, sess, toolLock, process>>
  /\ taken' = taken \cup Ended(l)

World ==
  \/ SessionSends \/ SessionSaves \/ LogOut
  \/ \E a \in Accounts : OutsideSignIn(a)
  \/ \E l \in Logins : ServiceRefuses(l)

-----------------------------------------------------------------------------
(* settle: a journal left behind is finished or undone (journal.rs). *)

Replaces(j) == j.park = NoName

\* live_owner_by_fingerprint: which of the journal's two sides the login is on.
Tells(j, l) == l \in {j.fromLogin, j.toLogin} \/ (Replaces(j) /\ l = NoLogin)

\* Mutant: the two sides are confused.
OwnerSwapped(j, l) == IF l = j.fromLogin THEN j.to
                      ELSE IF l = j.toLogin \/ l = NoLogin THEN j.from
                      ELSE Account(l)

OwnerOf(j, l) == IF l = j.toLogin THEN j.to
                 ELSE IF l = j.fromLogin \/ l = NoLogin THEN j.from
                 ELSE Account(l)      \* asked of the service

ToSweep == Goes("sweep") /\ run' = [run EXCEPT !.todo = listed, !.keep = {}, !.seen = NoLogin]

ReconcileNothing ==
  /\ pc = "reconcile" /\ journal = NoJournal
  /\ ToSweep
  /\ UNCHANGED <<disk, service, mem, taken, budgets>>

\* A slot left half written is written whole first, from the login going in.
ReconcileTorn ==
  /\ pc = "reconcile" /\ journal # NoJournal
  /\ live = Torn /\ vault[journal.incoming] # NoLogin
  /\ toolLock # "session"
  /\ live' = vault[journal.incoming] /\ Goes("reconcile")
  /\ UNCHANGED <<vault, index, journal, listed, clock, service, mem, run, taken, budgets>>

\* Whose the slot's login is, where the journal or the service can say.
ReconcileRead ==
  /\ pc = "reconcile" /\ journal # NoJournal
  /\ Tells(journal, live) \/ live \in Logins
  /\ run' = [run EXCEPT !.seen = live] /\ Goes("repair")
  /\ UNCHANGED <<disk, service, mem, taken, budgets>>

\* RecoveryUndetermined, RecoveryUnfinished: what happened cannot be told, so
\* nothing changes and the journal stays.
Undetermined ==
  /\ pc = "reconcile" /\ journal # NoJournal
  /\ \/ Breaks("read")
     \/ /\ ~Tells(journal, live)
        /\ live = Torn => vault[journal.incoming] = NoLogin \/ toolLock = "session"
        /\ Refuses

\* Mutant: the interrupted run's park is held for the account switched to.
RepairedSwapped(ix, j, owner, seen) ==
  LET parked == IF Replaces(j) THEN NoLogin ELSE vault[j.park]
      first  == IF parked = NoLogin THEN ix
                ELSE IF owner = j.from THEN Discard(ix, j.park)
                ELSE ParkFor(ix, j.to, [name |-> j.park, login |-> parked])
  IN  IF owner # j.to THEN first ELSE Identified(first, seen)

\* repair_for and apply, once the live login is known to be `owner's.
Repaired(ix, j, owner, seen) ==
  LET parked == IF Replaces(j) THEN NoLogin ELSE vault[j.park]
      first  ==
        IF parked = NoLogin THEN ix
        ELSE IF owner = j.from THEN Discard(ix, j.park)
        ELSE IF References(ix, j.park) THEN ix
        ELSE IF j.from \in ix.enrolled
             THEN ParkFor(ix, j.from, [name |-> j.park, login |-> parked])
        ELSE Discard(ix, j.park)
  IN  IF owner # j.to THEN first
      ELSE IF j.to \in ix.enrolled
           THEN Discard([first EXCEPT !.inUse = [owner |-> j.to, login |-> seen]], j.incoming)
      ELSE [first EXCEPT !.inUse = [owner |-> Nobody, login |-> NoLogin]]

Repair ==
  /\ pc = "repair"
  /\ \/ /\ Saves(Repaired(mem, journal, OwnerOf(journal, run.seen), run.seen))
        /\ Goes("clearRepaired")
        /\ UNCHANGED <<live, vault, journal, listed, clock, service, run, taken, crashes, outside>>
     \/ Breaks("save")

\* clear_journal says nothing of a removal that fails.
ClearJournal ==
  \/ journal' = NoJournal /\ NoFault
  \/ journal' = journal /\ Fault("unlink")

\* Mutant: the journal stays.
ClearRepairedSkips ==
  /\ pc = "clearRepaired" /\ ToSweep
  /\ UNCHANGED <<disk, service, mem, taken, budgets>>

ClearRepaired ==
  /\ pc = "clearRepaired"
  /\ ClearJournal
  /\ ToSweep
  /\ UNCHANGED <<live, vault, index, listed, clock, service, mem, taken, crashes, outside>>

-----------------------------------------------------------------------------
(* settle: names a run reserved and did not record (pending.rs). *)

\* Whether a parked login is the one the slot was read as holding, for a tool whose
\* park may never be a copy.  A slot that cannot be read is taken for empty.
LiveTwin(l, slot) == ~Locking /\ l \in Logins /\ l = slot

TwinRead(slot) == \/ slot = live /\ NoFault
                  \/ ~Locking /\ slot = NoLogin /\ Fault("twin")

\* Mutant: the older login an account holds is kept, and the newer deleted.
GivesBackToNone(ix, n, slot) ==
  n[1] \in ix.enrolled /\ ix.parked[n[1]] = NoPark /\ ~LiveTwin(vault[n], slot)

\* An account takes back an item of its own where it holds none, or an older
\* login's.
GivesBack(ix, n, slot) ==
  LET a == n[1]
      held == ix.parked[a]
  IN  /\ a \in ix.enrolled
      /\ held = NoPark \/ (held.login # vault[n] /\ n[2] >= held.name[2])
      /\ ~LiveTwin(vault[n], slot)

\* The list is in the order it was written.
Earliest(ns) == {n \in ns : \A m \in ns : n[2] <= m[2]}

\* One name at a time: done with, given back, deleted, or not to be read.
Sweep(n) ==
  /\ pc = "sweep" /\ n \in Earliest(run.todo)
  /\ \/ /\ IndexNames(mem, n) \/ vault[n] = NoLogin
        /\ run' = [run EXCEPT !.todo = @ \ {n}] /\ NoFault
        /\ UNCHANGED mem
     \/ /\ ~IndexNames(mem, n) /\ vault[n] # NoLogin
        /\ \E slot \in {live, NoLogin} :
             /\ TwinRead(slot)
             /\ mem' = IF GivesBack(mem, n, slot)
                       THEN ParkFor(mem, n[1], [name |-> n, login |-> vault[n]])
                       ELSE Discard(mem, n)
        /\ run' = [run EXCEPT !.todo = @ \ {n}]
     \/ /\ ~IndexNames(mem, n) /\ Fault("item")
        /\ run' = [run EXCEPT !.todo = @ \ {n}, !.keep = @ \cup {n}]
        /\ UNCHANGED mem
  /\ Goes("sweep")
  /\ UNCHANGED <<disk, service, taken, crashes, outside>>

\* The state first, so a run killed between the two leaves no login neither names.
SweepSave ==
  /\ pc = "sweep" /\ run.todo = {}
  /\ \/ /\ Saves(mem) /\ Goes("sweepList")
        /\ UNCHANGED <<live, vault, journal, listed, clock, service, run, taken, crashes, outside>>
     \/ mem # index /\ Breaks("save")

SweepList ==
  /\ pc = "sweepList"
  /\ \/ /\ listed' = run.keep /\ NoFault /\ Goes("twins")
        /\ UNCHANGED <<live, vault, index, journal, clock, service, mem, run, taken,
                       crashes, outside>>
     \/ run.keep # listed /\ Breaks("list")

-----------------------------------------------------------------------------
(* Parked copies of the login signed in now go, then what is listed to be     *)
(* deleted (settle.rs).  The slot is read with no lock of the tool's held.    *)

FindTwins ==
  /\ pc = "twins"
  /\ \E seen \in {live, NoLogin} :
       /\ (seen = live /\ NoFault) \/ (seen = NoLogin /\ Fault("twin"))
       /\ run' = [run EXCEPT !.seen = seen, !.next = "entry"]
  /\ Goes("dropTwins")
  /\ UNCHANGED <<disk, service, mem, taken, crashes, outside>>

\* A renewal looks for them only where something is due.
NothingDue ==
  /\ pc = "twins" /\ run.cmd = "renew"
  /\ run' = [run EXCEPT !.next = "idle"] /\ Goes("purge")
  /\ UNCHANGED <<disk, service, mem, taken, budgets>>

\* A renewal goes on where the save fails; a change does not.
DropTwins ==
  /\ pc = "dropTwins"
  /\ LET dropped == DiscardAll(mem, Twins(mem, run.seen))
         renews  == run.cmd = "renew"
     IN  \/ /\ \/ Saves(dropped)
               \/ dropped # mem /\ renews /\ mem' = dropped /\ SaveFails
            /\ \E due \in IF renews THEN SUBSET {a \in Accounts : dropped.parked[a] # NoPark}
                          ELSE {{}} :
                 run' = [run EXCEPT !.due = due, !.seen = NoLogin]
            /\ Goes(IF renews THEN "ask" ELSE "purge")
            /\ UNCHANGED <<live, vault, journal, listed, clock, service, taken, crashes, outside>>
         \/ dropped # mem /\ ~renews /\ Breaks("save")

\* What a purge comes before: a change, the journal's removal, or nothing.
AfterPurge(ix) ==
  CASE run.next = "clear" ->
         Goes("clear") /\ mem' = ix /\ UNCHANGED run
    [] run.next = "entry" /\ run.cmd \in {"switch", "replace", "forget"} ->
         Goes("identify") /\ mem' = ix /\ run' = [run EXCEPT !.next = "idle"]
    [] OTHER -> Ends

\* Each delete may fail by itself; what resisted stays listed.
Purge ==
  /\ pc = "purge"
  /\ UNCHANGED <<live, index, journal, listed, clock, service, taken, crashes, outside>>
  /\ \E kept \in SUBSET mem.discarded :
       LET left == [mem EXCEPT !.discarded = kept]
       IN  /\ IF kept = {} THEN NoFault ELSE Fault("write")
           /\ vault' = [n \in Names |-> IF n \in mem.discarded \ kept THEN NoLogin ELSE vault[n]]
           /\ IF left = mem THEN AfterPurge(mem)
              ELSE mem' = left /\ Goes("purgeSave") /\ UNCHANGED run

\* Mutant: what a purge deleted is not recorded.
PurgeSaveSkips ==
  /\ pc = "purgeSave"
  /\ UNCHANGED <<disk, service, taken, budgets>>
  /\ AfterPurge(mem)

\* Saved where a delete went through; a save that fails is not said.
PurgeSave ==
  /\ pc = "purgeSave"
  /\ (index' = mem /\ NoFault) \/ SaveFails
  /\ UNCHANGED <<live, vault, journal, listed, clock, service, taken, crashes, outside>>
  /\ AfterPurge(mem)

Settle ==
  \/ ReconcileNothing \/ ReconcileTorn \/ ReconcileRead \/ Undetermined
  \/ Repair \/ ClearRepaired
  \/ \E n \in Names : Sweep(n)
  \/ SweepSave \/ SweepList \/ FindTwins \/ NothingDue \/ DropTwins \/ Purge \/ PurgeSave

-----------------------------------------------------------------------------
(* Whose the login signed in is (identify.rs), and forgetting an account.    *)

\* Mutant: a slot left half written is taken for one nobody is signed in to.
ToldTorn(l) == l \in {NoLogin, Torn}
                 \/ (l \in Logins /\ (l = mem.inUse.login \/ ~Locking \/ l \in usable))

\* By the record, by the login itself for Codex, or by asking with a login the
\* service takes.  A slot with nothing in it is nobody's.
Told(l) == l = NoLogin \/ (l \in Logins /\ (l = mem.inUse.login \/ ~Locking \/ l \in usable))

\* An account nobody can say is in use is refused where the record says so, or
\* where it has nothing parked.
MayBeInUse(ix, a) == ix.inUse.owner = a \/ ix.parked[a] = NoPark

\* Recorded as found, then on to what the run is for.
Identify ==
  /\ pc = "identify" /\ Told(live)
  /\ LET found   == Identified(mem, live)
         inUse   == Account(live) = run.to
         forgets == run.cmd = "forget"
     IN  /\ \/ /\ index' = found /\ NoFault
               /\ IF inUse THEN Ends
                  ELSE /\ mem' = found /\ Goes(IF forgets THEN "forget" ELSE "prove")
                       /\ run' = [run EXCEPT !.seen = live, !.out = Account(live),
                                    !.going = IF live = NoLogin THEN "nothing" ELSE "out"]
            \/ /\ found # mem /\ SaveFails
               /\ IF forgets /\ ~MayBeInUse(found, run.to)
                  THEN mem' = found /\ Goes("forget") /\ UNCHANGED run
                  ELSE Ends
         /\ UNCHANGED <<live, vault, journal, listed, clock, service, taken, crashes, outside>>

\* Not told: unreadable, unreachable, refused, or nothing stored where the
\* tool's own record names somebody.
IdentifyFails ==
  /\ pc = "identify"
  /\ \/ /\ run.cmd # "forget" \/ MayBeInUse(mem, run.to)
        /\ Refuses
     \/ /\ run.cmd = "forget" /\ ~MayBeInUse(mem, run.to)
        /\ Goes("forget")
        /\ UNCHANGED <<disk, service, mem, run, taken, budgets>>

\* Somebody agreed to put a login in place of one refused for good.
IdentifyRefused ==
  /\ pc = "identify" /\ run.cmd = "replace"
  /\ live \in Logins /\ ~Told(live)
  /\ Goes("prove")
  /\ run' = [run EXCEPT !.seen = live, !.going = "refused"]
  /\ UNCHANGED <<disk, service, mem, taken, budgets>>

Forget ==
  /\ pc = "forget"
  /\ \/ /\ Saves(Removed(mem, run.to)) /\ Goes("purge")
        /\ UNCHANGED <<live, vault, journal, listed, clock, service, run, taken, crashes, outside>>
     \/ Breaks("save")

-----------------------------------------------------------------------------
(* The login going in: proved, or renewed first (prove_incoming, renew.rs).  *)

\* park::load: the account's park is recorded and there.
Loads(a) == mem.parked[a] # NoPark /\ vault[mem.parked[a].name] = mem.parked[a].login

\* LiveAccountNotEnrolled: what goes out has an account to be parked for.
OutgoingEnrolled == run.going = "out" => run.out \in mem.enrolled

Prove ==
  /\ pc = "prove"
  /\ Loads(run.to) /\ OutgoingEnrolled
  /\ \/ run' = [run EXCEPT !.inc = mem.parked[run.to]] /\ Goes("lock")
     \/ run' = [run EXCEPT !.due = {run.to}] /\ Goes("ask")
  /\ UNCHANGED <<disk, service, mem, taken, budgets>>

\* Not enrolled, nothing parked, not there, or the service did not vouch for it.
NotProved == pc = "prove" /\ Refuses

\* One round trip: exchanged for a fresh login, refused for good, or neither.
Ask(a) ==
  /\ pc = "ask" /\ a \in run.due
  /\ \/ /\ Loads(a) /\ mem.parked[a].login \in usable /\ Issues(a)
        /\ usable' = (usable \ {mem.parked[a].login}) \cup {Fresh(a)}
        /\ run' = [run EXCEPT !.due = @ \ {a}, !.fresh[a] = Fresh(a)]
     \/ /\ Loads(a) /\ mem.parked[a].login \notin usable
        /\ run' = [run EXCEPT !.due = @ \ {a}, !.refused = @ \cup {a}]
        /\ UNCHANGED <<usable, issued>>
     \/ /\ run' = [run EXCEPT !.due = @ \ {a}]
        /\ UNCHANGED <<usable, issued>>
  /\ UNCHANGED <<disk, sess, toolLock, pc, mem, taken, budgets>>

\* All were asked before any answer is written.
Answered == pc = "ask" /\ run.due = {}

DropRefused(a) ==
  /\ Answered /\ a \in run.refused
  /\ LET without == Discard(mem, mem.parked[a].name)
     IN  \/ /\ run.cmd = "renew"
            /\ Saves(without) \/ (mem' = without /\ SaveFails)
            /\ run' = [run EXCEPT !.refused = @ \ {a}] /\ Goes("ask")
            /\ UNCHANGED <<live, vault, journal, listed, clock, service, taken, crashes, outside>>
         \/ /\ run.cmd # "renew"
            /\ (index' = without /\ NoFault) \/ SaveFails
            /\ UNCHANGED <<live, vault, journal, listed, clock, service, taken, crashes, outside>>
            /\ Ends

WriteFresh(a) ==
  /\ Answered /\ run.fresh[a] # NoLogin
  /\ run' = [run EXCEPT !.who = a, !.second = FALSE]
  /\ Goes("renewReserve")
  /\ UNCHANGED <<disk, service, mem, taken, budgets>>

\* Nothing left to write.  A switch whose login was not renewed stops here.
NoMoreAnswers ==
  /\ Answered /\ run.refused = {} /\ \A a \in Accounts : run.fresh[a] = NoLogin
  /\ \/ /\ run.cmd = "renew" /\ Goes("purge")
        /\ run' = [run EXCEPT !.next = "idle"]
        /\ UNCHANGED <<disk, service, mem, taken, budgets>>
     \/ run.cmd # "renew" /\ Refuses

\* Mutant: the name is not written down.
ReservesUnlisted(a) ==
  /\ clock < MaxNames /\ clock' = clock + 1
  /\ run' = [run EXCEPT !.park = <<a, clock + 1>>] /\ NoFault
  /\ UNCHANGED <<live, vault, index, journal, listed, service, mem, taken, crashes, outside>>

\* park::reserve: a name nothing holds, on the list before anything is in it.
Reserves(a) ==
  /\ clock < MaxNames /\ clock' = clock + 1
  /\ listed' = listed \cup {<<a, clock + 1>>}
  /\ run' = [run EXCEPT !.park = <<a, clock + 1>>]
  /\ NoFault
  /\ UNCHANGED <<live, vault, index, journal, service, mem, taken, crashes, outside>>

CannotReserve == Fault("list") \/ (clock = MaxNames /\ NoFault)

\* The answer is tried twice, each time under a name of its own.
TriesAgain ==
  IF run.second THEN Goes("renewLost") /\ UNCHANGED run
  ELSE Goes("renewReserve") /\ run' = [run EXCEPT !.second = TRUE]

RenewReserve ==
  /\ pc = "renewReserve"
  /\ \/ Reserves(run.who) /\ Goes("renewStore")
     \/ /\ CannotReserve /\ TriesAgain
        /\ UNCHANGED <<disk, service, mem, taken, crashes, outside>>

RenewStore ==
  /\ pc = "renewStore"
  /\ LET written == [vault EXCEPT ![run.park] = run.fresh[run.who]]
     IN  \/ vault' = written /\ NoFault /\ Goes("renewRecord") /\ UNCHANGED run
         \/ vault' \in {vault, written} /\ Fault("write") /\ TriesAgain
  /\ UNCHANGED <<live, index, journal, listed, clock, service, mem, taken, crashes, outside>>

\* The park it replaces was spent by the renewal, and is discarded.
RenewRecord ==
  /\ pc = "renewRecord"
  /\ LET fresh   == [name |-> run.park, login |-> run.fresh[run.who]]
         renewed == ParkFor(Discard(mem, mem.parked[run.who].name), run.who, fresh)
         done    == [run EXCEPT !.fresh[run.who] = NoLogin, !.park = NoName]
     IN  \/ /\ Saves(renewed)
            /\ IF run.cmd = "renew" THEN run' = done /\ Goes("ask")
               ELSE run' = [done EXCEPT !.inc = fresh] /\ Goes("lock")
         \/ /\ SaveFails
            /\ IF run.cmd = "renew" THEN mem' = renewed /\ run' = done /\ Goes("ask") ELSE Ends
  /\ UNCHANGED <<live, vault, journal, listed, clock, service, taken, crashes, outside>>

\* Neither write went through: the copy held is spent, whatever happens next.
RenewLost ==
  /\ pc = "renewLost"
  /\ LET without == Discard(mem, mem.parked[run.who].name)
     IN  /\ (index' = without /\ NoFault) \/ SaveFails
         /\ UNCHANGED <<live, vault, journal, listed, clock, service, crashes, outside>>
         /\ taken' = taken \cup Lost(run.who)
         /\ IF run.cmd = "renew"
            THEN /\ mem' = without /\ Goes("ask")
                 /\ run' = [run EXCEPT !.fresh[run.who] = NoLogin]
            ELSE Ends

Renew ==
  \/ \E a \in Accounts : Ask(a) \/ DropRefused(a) \/ WriteFresh(a)
  \/ NoMoreAnswers \/ RenewReserve \/ RenewStore \/ RenewRecord \/ RenewLost

-----------------------------------------------------------------------------
(* The change itself (switch_from, put_in): park, then install, then record. *)

\* Mutant: Claude Code's locks are not taken.
LockSkips ==
  /\ pc = "lock" /\ Goes("ready")
  /\ UNCHANGED <<disk, service, mem, run, taken, budgets>>

\* Claude Code's refresh and write locks, which a session may hold.  Codex has none.
Lock ==
  /\ pc = "lock"
  /\ \/ /\ Locking /\ toolLock = "free" /\ toolLock' = "pitboard"
        /\ pc' = "ready"
        /\ UNCHANGED <<disk, service, mem, run, taken, budgets>>
     \/ /\ ~Locking /\ Goes("ready")
        /\ UNCHANGED <<disk, service, mem, run, taken, budgets>>
     \/ /\ toolLock = "session" /\ Refuses

\* Read again under the lock: the same login or, going out, one the same
\* account's session has renewed since.
Ready ==
  /\ pc = "ready"
  /\ live = run.seen \/ (run.going = "out" /\ Account(live) = run.out)
  /\ run' = [run EXCEPT !.before = live]
  /\ Goes(IF run.going = "out" THEN "reserve" ELSE "journal")
  /\ UNCHANGED <<disk, service, mem, taken, budgets>>

\* Somebody else's, nobody's, unreadable, or not to be told.
NotReady == pc = "ready" /\ ((live # run.seen /\ Refuses) \/ Breaks("read"))

Reserve ==
  /\ pc = "reserve"
  /\ \/ Reserves(run.out) /\ Goes("journal")
     \/ CannotReserve /\ UNCHANGED <<disk, service, taken, crashes, outside>> /\ Ends

WriteJournal ==
  /\ pc = "journal"
  /\ \/ /\ journal' = [from |-> IF run.going = "out" THEN run.out ELSE Nobody, to |-> run.to,
                       park |-> run.park, incoming |-> run.inc.name,
                       fromLogin |-> run.before, toLogin |-> run.inc.login]
        /\ Goes(IF run.going = "out" THEN "parkStore" ELSE "install") /\ NoFault
        /\ UNCHANGED <<live, vault, index, listed, clock, service, mem, run, taken,
                       crashes, outside>>
     \/ Breaks("journal")

ParkStore ==
  /\ pc = "parkStore"
  /\ LET written == [vault EXCEPT ![run.park] = run.before]
     IN  \/ vault' = written /\ NoFault /\ Goes("parkRecord")
         \/ vault' \in {vault, written} /\ Fault("write") /\ Goes("clear")
  /\ UNCHANGED <<live, index, journal, listed, clock, service, mem, run, taken, crashes, outside>>

\* A copy that could not be recorded is deleted, or stays on the list.
ParkRecord ==
  /\ pc = "parkRecord"
  /\ \/ /\ Saves(ParkFor(mem, run.out, [name |-> run.park, login |-> run.before]))
        /\ Goes("reread")
        /\ UNCHANGED vault
     \/ /\ SaveFails /\ Goes("clear")
        /\ vault' \in {vault, [vault EXCEPT ![run.park] = NoLogin]}
        /\ UNCHANGED mem
  /\ UNCHANGED <<live, journal, listed, clock, service, run, taken, crashes, outside>>

\* Nothing is installed over a login that moved: a park of the same account's is
\* spent and dropped, any other is kept.  Codex's park is read back first.
Reread ==
  /\ pc = "reread"
  /\ \/ /\ live = run.before /\ NoFault
        /\ Goes("install") /\ UNCHANGED mem
     \/ /\ live # run.before /\ NoFault
        /\ \/ Account(live) = run.out /\ mem' = Discard(mem, run.park)
           \/ (Account(live) # run.out \/ Locking) /\ UNCHANGED mem
        /\ Goes("undoSave")
     \/ Fault("read") /\ Goes("undoSave") /\ UNCHANGED mem
  /\ UNCHANGED <<disk, service, run, taken, crashes, outside>>

ParkUnreadable == pc = "reread" /\ ~Locking /\ Breaks("read")

UndoSave ==
  /\ pc = "undoSave"
  /\ \/ /\ Saves(mem) /\ Goes("undoClear")
        /\ UNCHANGED <<live, vault, journal, listed, clock, service, run, taken, crashes, outside>>
     \/ Breaks("save")

UndoClear ==
  /\ pc = "undoClear"
  /\ ClearJournal /\ Goes("purge")
  /\ run' = [run EXCEPT !.next = "idle"]
  /\ UNCHANGED <<live, vault, index, listed, clock, service, mem, taken, crashes, outside>>

\* Whose login the write went over where it is not the one read, or whose renewal
\* was under way: the window Codex, which takes no lock, leaves.
WrittenOver ==
  (IF live \in {run.before, live'} THEN {} ELSE {Account(live)})
    \cup (IF Locking \/ sess = NoRenewal THEN {} ELSE {Account(sess.fresh)})

Installs(after) ==
  /\ live' \in after
  /\ UNCHANGED <<vault, index, journal, listed, clock, service, crashes, outside>>
  /\ taken' = taken \cup {a \in Accounts \cap WrittenOver : ~Held(a)'}

CutShort == IF Pieces THEN {Torn} ELSE {}

Install ==
  /\ pc = "install"
  /\ Installs({run.inc.login}) /\ NoFault
  /\ Goes("holds") /\ UNCHANGED <<mem, run>>

\* The write failed and what was there is there, or was put back.
RolledBack ==
  /\ pc = "install"
  /\ Installs({run.before}) /\ Fault("write") /\ UNCHANGED run
  /\ IF run.going = "out"
     THEN mem' = Discard(mem, run.park) /\ Goes("undoSave")
     ELSE UNCHANGED mem /\ Goes("clear")

\* It failed and nobody can say what the slot holds: every copy is kept, with
\* the journal.
Unverified ==
  /\ pc = "install"
  /\ Installs({live, run.inc.login} \cup CutShort) /\ Fault("write")
  /\ Ends

\* Mutant: the park is dropped as where the login was put back.
CorruptedDrops ==
  /\ pc = "install"
  /\ Installs({live, run.inc.login, NoLogin} \cup CutShort) /\ Fault("write")
  /\ mem' = Discard(mem, run.park) /\ Goes("undoSave") /\ UNCHANGED run

\* It failed, and so did putting back what was there: the park is kept.
Corrupted ==
  /\ pc = "install"
  /\ Installs({live, run.inc.login, NoLogin} \cup CutShort) /\ Fault("write")
  /\ Goes(IF run.going = "out" THEN "undoSave" ELSE "clear") /\ UNCHANGED <<mem, run>>

\* Mutant: the write is taken to have held.
HoldsUnread ==
  /\ pc = "holds" /\ Goes("record")
  /\ UNCHANGED <<disk, service, mem, run, taken, budgets>>

\* Read back before the incoming copy is discarded: a sign-out takes no lock.
Holds ==
  /\ pc = "holds"
  /\ \/ live \in Logins /\ Goes("record")
        /\ UNCHANGED <<disk, service, mem, run, taken, budgets>>
     \/ live = NoLogin /\ Goes("clear")
        /\ UNCHANGED <<disk, service, mem, run, taken, budgets>>
     \/ Breaks("read")

\* The incoming park was consumed; the tool's locks are let go of here.
Record ==
  /\ pc = "record"
  /\ \/ /\ Saves(Identified(Discard(mem, run.inc.name), run.inc.login))
        /\ pc' = "purge" /\ toolLock' = (IF Locking THEN "free" ELSE toolLock)
        /\ run' = [run EXCEPT !.next = "clear"]
        /\ UNCHANGED <<live, vault, journal, listed, clock, service, taken, crashes, outside>>
     \/ Breaks("save")

Clear ==
  /\ pc = "clear"
  /\ ClearJournal
  /\ UNCHANGED <<live, vault, index, listed, clock, service, taken, crashes, outside>>
  /\ Ends

Change ==
  \/ Lock \/ Ready \/ NotReady \/ Reserve \/ WriteJournal \/ ParkStore \/ ParkRecord
  \/ Reread \/ ParkUnreadable \/ UndoSave \/ UndoClear
  \/ Install \/ RolledBack \/ Unverified \/ Corrupted \/ Holds \/ Record \/ Clear

\* Mutant: a copy of the login signed in is kept too.
GivenUpBoth(ix, j, parked, incoming, slot) ==
  IF parked = NoLogin THEN ix ELSE ParkFor(ix, j.from, [name |-> j.park, login |-> parked])

\* A journal nobody can settle is thrown away and every copy it names kept, but
\* for one that copies the login signed in (journal.rs, abandon).
GivenUp(ix, j, parked, incoming, slot) ==
  LET first ==
        IF LiveTwin(parked, slot) THEN Discard(ix, j.park)
        ELSE IF parked # NoLogin THEN ParkFor(ix, j.from, [name |-> j.park, login |-> parked])
        ELSE ix
  IN  IF LiveTwin(incoming, slot) THEN Discard(first, j.incoming) ELSE first

\* What of it cannot be read is left as it is, and so is the slot taken for empty.
Abandon ==
  /\ pc = "abandon"
  /\ \/ /\ LET parked   == IF Replaces(journal) THEN NoLogin ELSE vault[journal.park]
               incoming == vault[journal.incoming]
           IN  \/ Saves(GivenUp(mem, journal, parked, incoming, live))
               \/ \E p \in {parked, NoLogin}, i \in {incoming, NoLogin}, slot \in {live, NoLogin} :
                    /\ index' = GivenUp(mem, journal, p, i, slot) /\ mem' = index'
                    /\ Fault(IF slot = live THEN "read" ELSE "twin")
        /\ Goes("clear")
        /\ UNCHANGED <<live, vault, journal, listed, clock, service, run, taken, crashes, outside>>
     \/ Breaks("save")

Process ==
  \/ Settle \/ Renew \/ Change \/ Abandon
  \/ Identify \/ IdentifyFails \/ IdentifyRefused \/ Forget \/ Prove \/ NotProved

Next ==
  \/ \E cmd \in Commands, a \in Accounts \cup {Nobody} : Start(cmd, a)
  \/ Process \/ Crash \/ World

Spec == Init /\ [][Next]_vars

\* Runs step on, changes are asked for again and again, a session writes what it
\* was answered, and a service asked again and again does answer.
StartsSettling == \E cmd \in Commands \ {"renew", "abandon"}, a \in Accounts \cup {Nobody} :
                    Start(cmd, a)

FairSpec ==
  /\ Spec
  /\ WF_vars(Process) /\ SF_vars(StartsSettling) /\ WF_vars(SessionSaves)
  /\ SF_vars(ReconcileRead) /\ SF_vars(ReconcileTorn)

-----------------------------------------------------------------------------
(* What the switch engine promises. *)

Runs ==
  [cmd : Commands \cup {"none"}, to : Accounts \cup {Nobody},
   going : {"out", "nothing", "refused"}, out : Accounts \cup {Nobody},
   seen : Logins \cup {NoLogin, Torn}, before : Logins \cup {NoLogin},
   park : Names \cup {NoName}, inc : Parks \cup {NoPark},
   todo : SUBSET Names, keep : SUBSET Names,
   due : SUBSET Accounts, refused : SUBSET Accounts,
   fresh : [Accounts -> Logins \cup {NoLogin}],
   who : Accounts \cup {Nobody}, second : BOOLEAN, next : {"idle", "entry", "clear"}]

Journals ==
  [from : Accounts \cup {Nobody}, to : Accounts \cup {Nobody},
   park : Names \cup {NoName}, incoming : Names \cup {NoName},
   fromLogin : Logins \cup {NoLogin}, toLogin : Logins \cup {NoLogin}]

\* Every variable holds a value the code can give it: no step takes a park that is
\* not there, or a slot left half written, for a login.
TypeOK ==
  /\ live \in Logins \cup {NoLogin, Torn}
  /\ vault \in [Names -> Logins \cup {NoLogin}]
  /\ index \in Indexes /\ mem \in Indexes /\ run \in Runs /\ journal \in Journals
  /\ listed \subseteq Names /\ clock \in 1 .. MaxNames
  /\ usable \subseteq Logins /\ issued \in [Accounts -> 0 .. MaxLogins]
  /\ sess \in [sent : Logins \cup {NoLogin}, fresh : Logins \cup {NoLogin}]
  /\ toolLock \in {"free", "session", "pitboard"}
  /\ pc \in Steps /\ taken \subseteq Accounts
  /\ crashes \in 0 .. MaxCrashes /\ faults \in 0 .. MaxFaults /\ outside \in 0 .. MaxOutside

\* Every login in the vault is named on disk at every step: recorded for an
\* account, listed to be deleted, or on the list of names written down.  Killed
\* anywhere, no item is left that no later run can find.
Accounted ==
  \A n \in Names : vault[n] # NoLogin => IndexNames(index, n) \/ n \in listed

\* An enrolled account keeps a login Pitboard or its tool can use, whatever dies
\* or fails in between, unless something outside took it.
NothingLost ==
  \A a \in index.enrolled : Held(a) \/ a \in taken \/ run.fresh[a] # NoLogin

\* A park the index offers is its account's, and what the vault has under its
\* name, where it has anything, is that very login.
ParksTrue ==
  \A a \in Accounts :
    LET p == index.parked[a]
    IN  p # NoPark => /\ Account(p.login) = a
                      /\ vault[p.name] \in {p.login, NoLogin}

\* The record of who is in use names the account whose login it saw.
InUseTrue == index.inUse.owner = Account(index.inUse.login)

\* With nothing left to finish, no Codex login is parked and signed in at once.
NoTwinAtRest ==
  (~Locking /\ pc = "idle" /\ journal = NoJournal /\ faults = 0)
    => \A a \in Accounts : index.parked[a].login = live => live \notin usable

\* Giving up an interrupted switch keeps every copy its record names: none is on
\* the list of what the next purge deletes.
GivenUpIsKept ==
  [][(pc = "abandon" /\ pc' = "clear")
       => \A a \in Accounts : index'.parked[a].name \notin index'.discarded]_vars

\* A renewal never spends the login signed in, which its tool is about to present.
LiveNotRenewed ==
  [][(pc = "ask" /\ run' # run /\ live \in usable) => live \in usable']_vars

\* Under Claude Code's locks a switch writes over the login it read, or over
\* none.
WritesOverWhatItRead ==
  [][(Locking /\ pc = "install" /\ live' # live) => live \in {run.before, NoLogin}]_vars

\* An interrupted switch is finished or undone once changes are asked for again,
\* but where the slot holds nothing, which only a sign-in or giving up ends.
RecoveryEnds == journal # NoJournal ~> (journal = NoJournal \/ live = NoLogin)

\* A copy listed to be deleted goes, and a name written down is resolved.
LeftoversGo ==
  \A n \in Names : (n \in index.discarded \/ n \in listed)
                     ~> ((n \notin index.discarded /\ n \notin listed) \/ live = NoLogin)

=============================================================================
