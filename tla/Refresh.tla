------------------------------ MODULE Refresh ------------------------------
(* Renewing the login Claude Code is signed in with, where Claude Code keeps *)
(* it (switch/refresh.rs), as a change or a read does that must tell whose   *)
(* login that is (switch/identify.rs).  The service spends the login sent as *)
(* it answers; the answer waits in the vault, under a name the index has had *)
(* first, until it is saved over the login sent.  One Pitboard process at a  *)
(* time, under Pitboard's own lock; sessions of Claude Code beside it.       *)
EXTENDS Integers

CONSTANTS
  MaxLogins,    \* logins the service gives
  MaxCopies,    \* names for copies
  MaxRest,      \* a session's writes of the rest of the document
  MaxCrashes, MaxFaults, MaxOutside,
  Failing,      \* operations that may fail
  Pieces        \* Claude Code's store takes a write in pieces

Operations ==
  {"read", "vaultRead", "write", "copy", "save", "delete", "lock", "answer"}

(* Somebody is signed in to begin with; the bounds are numbers.              *)
ASSUME RefreshBounds ==
  /\ MaxLogins \in Nat \ {0} /\ MaxCopies \in Nat /\ MaxRest \in Nat
  /\ MaxCrashes \in Nat /\ MaxFaults \in Nat /\ MaxOutside \in Nat
  /\ Failing \subseteq Operations /\ Pieces \in BOOLEAN

VARIABLES
  slot,         \* Claude Code's store: a login, and the rest of its document
  vault,        \* the login under each copy's name
  index,        \* state.json: renewals left waiting, names to delete
  answer,       \* the service: what it gave for each login sent
  issued,       \* the service: how many logins it gave
  refreshLock, writeLock,
  sess,         \* a session's renewal, its answer not saved yet
  doc,          \* what a session that writes the document has read
  outside,
  pc, mem, run, \* the process: its step, its State, its locals
  clock,        \* the last copy's name
  mine,         \* history: logins Pitboard spent
  lost,         \* history: of those, the ones whose answer nothing could keep
  crashes, faults

disk == <<slot, vault, index>>
service == <<answer, issued>>
locks == <<refreshLock, writeLock>>
world == <<sess, doc, outside>>
process == <<pc, mem, run, clock>>
history == <<mine, lost>>
bounds == <<crashes, faults>>
vars == <<disk, service, locks, world, process, history, bounds>>

Logins == 1 .. MaxLogins
NoLogin == 0
Unread == -1    \* store::Error::Unfinished: pieces no read joins
Names == 1 .. MaxCopies
NoName == 0
Docs == [login : Logins \cup {NoLogin}, rest : 0 .. MaxRest]
Slots == [login : Logins \cup {NoLogin, Unread}, rest : 0 .. MaxRest]
NoDoc == [login |-> NoLogin, rest |-> 0]
NoRenewal == [sent |-> NoLogin, fresh |-> NoLogin]

(* Renewing: the login a renewal sent, and where its answer waits.           *)
Waiting == [sent : Logins, copy : Names]
States == [renewing : SUBSET Waiting, discarded : SUBSET Names]

(* What a process knows: whether a renewal that waits on stops it            *)
(* (`finished') or not (`finish'), those it has yet to look at, whether one  *)
(* waits on; whether it renews or saves what was left, the login sent, the   *)
(* answer, and its copy's name, whether the code counts the copy made and    *)
(* whether it is; the document it last read, and the one it saves over;      *)
(* whether it is at its second look, or its second write; what came of the   *)
(* save, and whether it was made with no write lock.                         *)
NoRun ==
  [strict |-> FALSE, todo |-> {}, stuck |-> FALSE,
   renews |-> FALSE, sent |-> NoLogin, fresh |-> NoLogin,
   copy |-> NoName, copied |-> FALSE, landed |-> FALSE,
   seen |-> NoDoc, now |-> NoDoc, second |-> FALSE, rewrites |-> FALSE,
   outcome |-> "none", bare |-> FALSE]

Runs ==
  [strict : BOOLEAN, todo : SUBSET Waiting, stuck : BOOLEAN,
   renews : BOOLEAN, sent : Logins \cup {NoLogin}, fresh : Logins \cup {NoLogin},
   copy : Names \cup {NoName}, copied : BOOLEAN, landed : BOOLEAN,
   seen : Docs, now : Docs, second : BOOLEAN, rewrites : BOOLEAN,
   outcome : {"none", "saved", "changed", "failed"}, bare : BOOLEAN]

Steps ==
  {"idle", "finish", "left", "refreshLock", "leftLock", "again", "check", "reserve",
   "send", "copy", "saveLock", "save", "write", "saved", "letGo", "purge", "purged"}

Holders == {"free", "pitboard", "session", "dead"}

TypeOK ==
  /\ slot \in Slots
  /\ vault \in [Names -> Logins \cup {NoLogin}]
  /\ index \in States /\ mem \in States
  /\ answer \in [Logins -> Logins \cup {NoLogin}]
  /\ issued \in Logins
  /\ refreshLock \in Holders /\ writeLock \in Holders
  /\ sess \in [sent : Logins \cup {NoLogin}, fresh : Logins \cup {NoLogin}]
  /\ doc \in Docs
  /\ pc \in Steps /\ run \in Runs
  /\ clock \in Names \cup {NoName}
  /\ mine \subseteq Logins /\ lost \subseteq mine
  /\ crashes \in 0 .. MaxCrashes /\ faults \in 0 .. MaxFaults
  /\ outside \in 0 .. MaxOutside

Init ==
  /\ slot = [login |-> 1, rest |-> 0]
  /\ vault = [n \in Names |-> NoLogin]
  /\ index = [renewing |-> {}, discarded |-> {}]
  /\ answer = [l \in Logins |-> NoLogin] /\ issued = 1
  /\ refreshLock = "free" /\ writeLock = "free"
  /\ sess = NoRenewal /\ doc = NoDoc /\ outside = 0
  /\ pc = "idle" /\ mem = index /\ run = NoRun /\ clock = NoName
  /\ mine = {} /\ lost = {}
  /\ crashes = 0 /\ faults = 0

-----------------------------------------------------------------------------
(* Operators                                                                 *)

(* The service spends a login and gives another for it.                      *)
Answers(l) ==
  /\ l \in 1 .. issued /\ answer[l] = NoLogin /\ issued < MaxLogins
  /\ issued' = issued + 1
  /\ answer' = [answer EXCEPT ![l] = issued + 1]

NoFault == UNCHANGED bounds
Fault(operation) ==
  /\ operation \in Failing /\ faults < MaxFaults
  /\ faults' = faults + 1 /\ UNCHANGED crashes

Released(lock) == IF lock = "pitboard" THEN "free" ELSE lock

(* The process goes to a step, knowing r, and keeps its locks.               *)
Goes(step, r) == pc' = step /\ run' = r /\ UNCHANGED locks

(* It lets go of them first.                                                 *)
GoesFree(step, r) ==
  /\ pc' = step /\ run' = r
  /\ refreshLock' = Released(refreshLock) /\ writeLock' = Released(writeLock)

Ends == GoesFree("idle", NoRun)

(* A renewal left waiting waits on, and why is the error.                    *)
Waits == GoesFree("finish", [run EXCEPT !.stuck = TRUE])

(* What a write cut short leaves of the document, until a whole one is       *)
(* written over it: in Credential Manager it is several items, and no read   *)
(* joins those of two writes.                                                *)
CutShort == IF Pieces THEN {[slot EXCEPT !.login = Unread]} ELSE {}

(* Nothing but where the process is changes.                                 *)
Moves == UNCHANGED <<disk, service, world, mem, clock, history>>

(* Mutant of Forgotten: the copy is not listed for deletion.                 *)
ForgottenUnlisted(m, n) == [m EXCEPT !.renewing = {w \in @ : w.copy # n}]

(* let_go: the renewal is off one list, its copy on the other.               *)
Forgotten(m, n) ==
  [renewing |-> {w \in m.renewing : w.copy # n}, discarded |-> m.discarded \cup {n}]

-----------------------------------------------------------------------------
(* Claude Code, the person, time                                             *)

Outside == outside < MaxOutside /\ outside' = outside + 1

(* A session renews as Pitboard does, under the refresh lock, and saves      *)
(* under the write lock too.                                                 *)
SessionSends ==
  /\ refreshLock = "free" /\ refreshLock' = "session"
  /\ Answers(slot.login)
  /\ sess' = [sent |-> slot.login, fresh |-> issued']
  /\ UNCHANGED <<disk, writeLock, doc, outside, process, history, bounds>>

SessionSaves ==
  /\ refreshLock = "session" /\ refreshLock' = "free"
  /\ writeLock = "free"
  /\ slot' = [slot EXCEPT !.login = IF @ = sess.sent THEN sess.fresh ELSE @]
  /\ sess' = NoRenewal
  /\ UNCHANGED <<vault, index, service, writeLock, doc, outside, process, history, bounds>>

(* What else the document keeps is written with the login that was read.     *)
SessionReads ==
  /\ writeLock = "free" /\ writeLock' = "session"
  /\ slot.login \in Logins /\ slot.rest < MaxRest
  /\ doc' = slot
  /\ UNCHANGED <<disk, service, refreshLock, sess, outside, process, history, bounds>>

SessionWrites ==
  /\ writeLock = "session" /\ writeLock' = "free"
  /\ slot' = [doc EXCEPT !.rest = @ + 1]
  /\ doc' = NoDoc
  /\ UNCHANGED <<vault, index, service, refreshLock, sess, outside, process, history, bounds>>

(* One that dies as it writes may leave the write cut short.                 *)
SessionDies ==
  /\ crashes < MaxCrashes /\ crashes' = crashes + 1 /\ UNCHANGED faults
  /\ \/ /\ refreshLock = "session" /\ refreshLock' = "dead"
        /\ sess' = NoRenewal
        /\ UNCHANGED <<slot, writeLock, doc>>
     \/ /\ writeLock = "session" /\ writeLock' = "dead"
        /\ doc' = NoDoc
        /\ slot' \in {slot} \cup CutShort
        /\ UNCHANGED <<refreshLock, sess>>
  /\ UNCHANGED <<vault, index, service, outside, process, history>>

(* Nobody touches it, and it goes stale (ClaudeLock, LeftIsReclaimed).       *)
Lapses ==
  /\ "dead" \in {refreshLock, writeLock}
  /\ \/ refreshLock = "dead" /\ refreshLock' = "free" /\ UNCHANGED writeLock
     \/ writeLock = "dead" /\ writeLock' = "free" /\ UNCHANGED refreshLock
  /\ UNCHANGED <<disk, service, world, process, history, bounds>>

SignIn ==
  /\ Outside
  /\ writeLock = "free" /\ issued < MaxLogins
  /\ issued' = issued + 1
  /\ slot' = [slot EXCEPT !.login = issued + 1]
  /\ UNCHANGED <<vault, index, answer, locks, sess, doc, process, history, bounds>>

(* Under no lock; pieces no read joins are deleted too.                      *)
LogOut ==
  /\ Outside
  /\ slot.login # NoLogin
  /\ slot' = [slot EXCEPT !.login = NoLogin]
  /\ UNCHANGED <<vault, index, service, locks, sess, doc, process, history, bounds>>

-----------------------------------------------------------------------------
(* Renewals left waiting: finish, finished, save_left                        *)

(* A change settles, looking at what waits whatever comes of it; a read does *)
(* not.                                                                      *)
Start ==
  /\ pc = "idle"
  /\ mem' = index
  /\ \E strict \in BOOLEAN :
       Goes("finish", [NoRun EXCEPT !.strict = strict, !.todo = index.renewing])
  /\ UNCHANGED <<disk, service, world, clock, history, bounds>>

NextLeft ==
  /\ pc = "finish"
  /\ \E w \in run.todo :
       Goes("left", [NoRun EXCEPT !.strict = run.strict, !.todo = run.todo \ {w},
                                  !.stuck = run.stuck, !.sent = w.sent, !.copy = w.copy])
  /\ Moves /\ NoFault

(* settle goes on to its other parts, the purge last, and the change looks   *)
(* again at what waits.                                                      *)
Settled ==
  /\ pc = "finish" /\ run.todo = {} /\ ~run.strict
  /\ Goes("purge", [NoRun EXCEPT !.strict = TRUE, !.todo = mem.renewing])
  /\ Moves /\ NoFault

Finds(r) == [NoRun EXCEPT !.renews = TRUE, !.seen = slot, !.second = r.second]

(* Mutant of Finished: what waits on stops nothing.                          *)
FinishedAnyway ==
  /\ pc = "finish" /\ run.todo = {} /\ run.strict
  /\ (slot.login \in Logins /\ Goes("refreshLock", Finds(run))) \/ Ends
  /\ Moves /\ NoFault

(* Nothing waits any more.  The login is looked at, and where it has lapsed  *)
(* it is renewed to tell whose it is.                                        *)
Finished ==
  /\ pc = "finish" /\ run.todo = {} /\ run.strict /\ ~run.stuck
  /\ (slot.login \in Logins /\ Goes("refreshLock", Finds(run))) \/ Ends
  /\ Moves /\ NoFault

Stopped ==
  /\ pc = "finish" /\ run.todo = {} /\ run.strict /\ run.stuck
  /\ Ends
  /\ Moves /\ NoFault

(* Mutant of LeftRead: with no copy there is nothing to do.                  *)
LeftReadOnly ==
  /\ pc = "left"
  /\ \/ /\ IF vault[run.copy] = NoLogin THEN Goes("finish", run)
           ELSE Goes("refreshLock", [run EXCEPT !.fresh = vault[run.copy]])
        /\ NoFault
     \/ Waits /\ Fault("vaultRead")
  /\ Moves

(* With no copy there is nothing to save.                                    *)
LeftRead ==
  /\ pc = "left"
  /\ \/ /\ Goes(IF vault[run.copy] = NoLogin THEN "letGo" ELSE "refreshLock",
                [run EXCEPT !.fresh = vault[run.copy]])
        /\ NoFault
     \/ Waits /\ Fault("vaultRead")
  /\ Moves

(* A lock that cannot be had, held or not made.                              *)
Denied(lock) ==
  \/ lock # "free" /\ NoFault
  \/ Fault("lock")

LeftLocks ==
  /\ pc = "leftLock"
  /\ \/ /\ writeLock = "free" /\ NoFault
        /\ pc' = "save" /\ writeLock' = "pitboard" /\ UNCHANGED <<run, refreshLock>>
     \/ Denied(writeLock) /\ Waits
  /\ Moves

-----------------------------------------------------------------------------
(* Renewing: renewed, renew                                                  *)

(* Refreshing::take.                                                         *)
Refreshing ==
  /\ pc = "refreshLock"
  /\ \/ /\ refreshLock = "free" /\ NoFault
        /\ refreshLock' = "pitboard"
        /\ pc' = IF run.renews THEN "again" ELSE "leftLock"
        /\ UNCHANGED <<run, writeLock>>
     \/ Denied(refreshLock) /\ IF run.renews THEN Ends ELSE Waits
  /\ Moves

(* Read again under the lock; another login may be told whose it is.         *)
Again ==
  /\ pc = "again"
  /\ \/ slot.login \in Logins /\ Goes("check", Finds(run))
     \/ slot.login \notin Logins /\ Ends
     \/ slot # run.seen /\ Ends
  /\ Moves /\ NoFault

(* Another writer came between: once more.                                   *)
LooksAgain ==
  IF run.second THEN Ends
  ELSE /\ pc' = "again" /\ run' = [Finds(run) EXCEPT !.seen = run.seen, !.second = TRUE]
       /\ writeLock' = Released(writeLock) /\ UNCHANGED refreshLock

(* Under the write lock, taken once: what was read is there still.           *)
Check ==
  /\ pc = "check" /\ writeLock = "free"
  /\ \/ slot = run.seen /\ Goes("reserve", run)
     \/ slot.login = Unread /\ Ends
     \/ slot # run.seen /\ slot.login # Unread /\ LooksAgain
  /\ Moves /\ NoFault

(* reserve: the copy's name is written down before anything is sent.         *)
Reserve ==
  /\ pc = "reserve" /\ clock < MaxCopies
  /\ clock' = clock + 1
  /\ mem' = [mem EXCEPT !.renewing = @ \cup {[sent |-> run.seen.login, copy |-> clock']}]
  /\ index' = mem'
  /\ Goes("send", [run EXCEPT !.sent = run.seen.login, !.copy = clock'])
  /\ UNCHANGED <<slot, vault, service, world, history, bounds>>

(* A copy that would go on an argument line is not made.                     *)
ReserveNone ==
  /\ pc = "reserve"
  /\ Goes("send", [run EXCEPT !.sent = run.seen.login])
  /\ Moves /\ NoFault

(* What could refuse the answer is asked before it: nothing is sent.         *)
NothingSent ==
  /\ \/ pc = "check" /\ NoFault        \* its price, or a lock held
     \/ pc \in {"finish", "again", "check"} /\ Fault("read")
     \/ pc = "reserve" /\ clock = MaxCopies /\ NoFault
     \/ pc = "reserve" /\ (Fault("vaultRead") \/ Fault("save"))
  /\ pc = "finish" => run.todo = {} /\ run.strict /\ ~run.stuck
  /\ Ends
  /\ Moves

Answered ==
  /\ pc = "send" /\ Answers(run.sent)
  /\ Goes("copy", [run EXCEPT !.fresh = issued'])
  /\ mine' = mine \cup {run.sent}
  /\ UNCHANGED <<disk, world, mem, clock, lost, bounds>>

(* Mutant of NotAnswered: a copy is let go of where none was named.          *)
NotAnsweredUnnamed ==
  /\ pc = "send"
  /\ Goes("letGo", run)
  /\ NoFault /\ UNCHANGED <<service, history>>
  /\ UNCHANGED <<disk, world, mem, clock>>

(* Refused, as a login spent is, or no answer: a copy named is let go of.    *)
(* The service may have spent the login all the same.                        *)
NotAnswered ==
  /\ pc = "send"
  /\ IF run.copy = NoName THEN Ends ELSE Goes("letGo", run)
  /\ \/ NoFault /\ UNCHANGED <<service, history>>
     \/ /\ Fault("answer") /\ Answers(run.sent)
        /\ mine' = mine \cup {run.sent} /\ lost' = lost \cup {run.sent}
  /\ UNCHANGED <<disk, world, mem, clock>>

(* The answer is copied before it is saved.  A write that fails lands        *)
(* nothing; of another error that is not known, and the copy counts as made. *)
Copy ==
  /\ pc = "copy"
  /\ \E copied, landed \in BOOLEAN :
       /\ IF run.copy # NoName /\ copied /\ landed THEN NoFault
          ELSE IF run.copy # NoName THEN Fault("copy") /\ (landed => copied)
          ELSE NoFault /\ ~copied /\ ~landed
       /\ vault' = IF landed THEN [vault EXCEPT ![run.copy] = run.fresh] ELSE vault
       /\ Goes("saveLock", [run EXCEPT !.copied = copied, !.landed = landed])
  /\ UNCHANGED <<slot, index, service, world, mem, clock, history>>

(* write_lock_to_save: asked for until a lock left behind has gone stale, so *)
(* done without only where somebody alive has it (ClaudeLock,                *)
(* SaverOutwaits) or it cannot be made.                                      *)
SaveLocks ==
  /\ pc = "saveLock"
  /\ \/ /\ writeLock = "free" /\ NoFault
        /\ pc' = "save" /\ writeLock' = "pitboard" /\ UNCHANGED <<run, refreshLock>>
     \/ /\ \/ writeLock = "session" /\ NoFault
           \/ Fault("lock")
        /\ Goes("save", [run EXCEPT !.bare = TRUE])
  /\ Moves

-----------------------------------------------------------------------------
(* Saving the answer, and letting go of its copy: save, let_go               *)

(* Mutant of SavesOver: whoever is signed in.                                *)
SavesOverAny == slot.login \in Logins

(* The login sent is still there.                                            *)
SavesOver == slot.login = run.sent

SaveReads ==
  /\ pc = "save"
  /\ \/ SavesOver /\ NoFault /\ Goes("write", [run EXCEPT !.now = slot])
     \/ /\ ~SavesOver /\ slot.login # Unread /\ NoFault
        /\ Goes("saved", [run EXCEPT !.outcome = "changed"])
     \/ /\ (slot.login = Unread /\ NoFault) \/ Fault("read")
        /\ Goes("saved", [run EXCEPT !.outcome = "failed"])
  /\ Moves

(* With whatever else the document has come to hold.                         *)
Renewed == [run.now EXCEPT !.login = run.fresh]

Write ==
  /\ pc = "write" /\ NoFault
  /\ slot' = Renewed
  /\ Goes("saved", [run EXCEPT !.outcome = "saved"])
  /\ UNCHANGED <<vault, index, service, world, mem, clock, history>>

(* A write that says it failed is tried once more; any other error may land. *)
(* Either may leave the document cut short.                                  *)
WriteFails ==
  /\ pc = "write" /\ Fault("write")
  /\ \/ /\ ~run.rewrites /\ Goes("write", [run EXCEPT !.rewrites = TRUE])
        /\ slot' \in {slot} \cup CutShort
     \/ /\ Goes("saved", [run EXCEPT !.outcome = "failed"])
        /\ slot' \in {slot, Renewed} \cup CutShort
  /\ UNCHANGED <<vault, index, service, world, mem, clock, history>>

(* Mutant of Keeps: a copy is let go of whatever came of the save.           *)
KeepsNever == FALSE

(* The save failed, and there is a copy to try again with.                   *)
Keeps == run.outcome = "failed" /\ (run.copied \/ ~run.renews)

(* An answer that is nowhere but in mind is lost with the run.               *)
Loses ==
  lost' = IF run.renews /\ run.fresh \in Logins /\ ~run.landed
          THEN lost \cup {run.sent} ELSE lost

(* Saved with no write lock, it may be written over by whoever has it.       *)
MayLose ==
  lost' = IF run.bare THEN lost \cup {run.sent} ELSE lost

(* What follows once there is no copy.                                       *)
GoesOn ==
  IF ~run.renews THEN Goes("finish", run)
  ELSE IF run.outcome = "changed" THEN LooksAgain
  ELSE Ends

(* The write lock is let go of, and for what was left the refresh lock.      *)
Saved ==
  /\ pc = "saved"
  /\ IF Keeps THEN IF run.renews THEN Ends ELSE Waits
     ELSE IF run.copy = NoName THEN GoesOn
     ELSE IF ~run.renews THEN GoesFree("letGo", run)
     ELSE /\ pc' = "letGo" /\ run' = run
          /\ writeLock' = Released(writeLock) /\ UNCHANGED refreshLock
  /\ IF run.outcome = "failed" THEN Loses ELSE MayLose
  /\ UNCHANGED <<disk, service, world, mem, clock, mine, bounds>>

LetGo ==
  /\ pc = "letGo"
  /\ mem' = Forgotten(mem, run.copy)
  /\ \/ index' = mem' /\ NoFault /\ Goes("purge", run)
     \/ UNCHANGED index /\ Fault("save") /\ GoesOn
  /\ UNCHANGED <<slot, vault, service, world, clock, history>>

(* What is listed is deleted; what resists stays listed.                     *)
Purge ==
  /\ pc = "purge"
  /\ \E kept \in SUBSET mem.discarded :
       /\ IF kept = {} THEN NoFault ELSE Fault("delete")
       /\ vault' = [n \in Names |-> IF n \in mem.discarded \ kept THEN NoLogin ELSE vault[n]]
       /\ mem' = [mem EXCEPT !.discarded = kept]
  /\ Goes("purged", run)
  /\ UNCHANGED <<slot, index, service, world, clock, history>>

Purged ==
  /\ pc = "purged"
  /\ \/ index' = mem /\ NoFault
     \/ UNCHANGED index /\ Fault("save")
  /\ GoesOn
  /\ UNCHANGED <<slot, vault, service, world, mem, clock, history>>

(* The kernel lets go of Pitboard's lock; Claude Code's go stale.  A write   *)
(* under way may be left cut short.                                          *)
Crash ==
  /\ pc # "idle" /\ crashes < MaxCrashes
  /\ crashes' = crashes + 1 /\ UNCHANGED faults
  /\ pc' = "idle" /\ run' = NoRun
  /\ refreshLock' = IF refreshLock = "pitboard" THEN "dead" ELSE refreshLock
  /\ writeLock' = IF writeLock = "pitboard" THEN "dead" ELSE writeLock
  /\ Loses
  /\ slot' \in {slot} \cup (IF pc = "write" THEN CutShort ELSE {})
  /\ UNCHANGED <<vault, index, service, world, mem, clock, mine>>

Process ==
  \/ NextLeft \/ Settled \/ Finished \/ Stopped \/ LeftRead \/ LeftLocks
  \/ Refreshing \/ Again \/ Check \/ Reserve \/ ReserveNone \/ NothingSent
  \/ Answered \/ NotAnswered \/ Copy \/ SaveLocks
  \/ SaveReads \/ Write \/ WriteFails \/ Saved \/ LetGo \/ Purge \/ Purged

Next ==
  \/ Start \/ Process \/ Crash
  \/ SessionSends \/ SessionSaves \/ SessionReads \/ SessionWrites \/ SessionDies
  \/ Lapses \/ SignIn \/ LogOut

Spec == Init /\ [][Next]_vars

(* The operating system runs a process that can step; sessions save what     *)
(* they hold a lock for; a lock left behind goes stale; and changes are      *)
(* asked for.                                                                *)
FairSpec ==
  /\ Spec
  /\ WF_vars(Process) /\ WF_vars(Start)
  /\ WF_vars(SessionSaves) /\ WF_vars(SessionWrites) /\ WF_vars(Lapses)

-----------------------------------------------------------------------------
(* Properties                                                                *)

(* Pitboard has the service's answer in mind, not yet saved.                 *)
Carries(l) ==
  /\ run.renews /\ run.sent = l /\ run.fresh = answer[l]
  /\ pc \in {"copy", "saveLock", "save", "write", "saved"}

(* Where the slot holds a login Pitboard spent, what replaces it is there:   *)
(* in the vault, under a name the saved index has, or in the run's hands.    *)
(* Excepted are the answers in `lost': the network's, and those a crash or a *)
(* failed save met before they were copied, and those saved with no write    *)
(* lock (refresh.rs:1).                                                      *)
AnswerKept ==
  slot.login \in mine \ lost =>
    \/ Carries(slot.login)
    \/ \E w \in index.renewing :
         w.sent = slot.login /\ vault[w.copy] = answer[slot.login]

(* A copy in the vault is named in the saved index, to be saved or deleted.  *)
CopyNamed ==
  \A n \in Names : vault[n] # NoLogin =>
    n \in index.discarded \/ \E w \in index.renewing : w.copy = n

(* Pitboard sends no login it has spent, whose answer it has (`finished').   *)
NotSentTwice ==
  [][pc # "send" /\ pc' = "send" => run'.sent \notin mine \ lost]_vars

(* An answer is saved over the login sent, or what a write of it cut short   *)
(* left, and over nothing of the document a session wrote since, unless the  *)
(* write lock was not had; of a sign-out, which takes no lock, that cannot   *)
(* be said (save).                                                           *)
SavesOverSent ==
  [][pc = "write" /\ slot' # slot /\ ~run.bare /\ run' # run
       => slot.login \in {run.sent, NoLogin, Unread} /\ slot.rest = slot'.rest]_vars

(* A renewal left waiting is saved or let go of in the end, but where the    *)
(* slot is left for good as a write cut short left it: no run can tell then  *)
(* what the copy would replace, so it waits for a sign-in or a sign-out.     *)
WaitingEnds ==
  <>[](slot.login = Unread) \/ (index.renewing # {} ~> index.renewing = {})

=============================================================================
