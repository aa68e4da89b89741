----------------------------- MODULE ClaudeLock -----------------------------
(* One of Claude Code's locks as Pitboard takes it (lock.rs): a directory,   *)
(* made by whoever gets it, touched by its holder's heartbeat, and anybody's *)
(* to remove once it has gone untouched for Stale.  The processes are        *)
(* Pitboard's runs and Claude Code's sessions, which follow one protocol.    *)
(* Time is counted in ticks and relative: the age of the directory's mtime,  *)
(* and how long each process has been at its step.                           *)
EXTENDS Integers

CONSTANTS
  Process,      \* who may ask for the lock
  Savers,       \* those that ask in rounds (refresh.rs, write_lock_to_save)
  Serials,      \* tell one process's mtimes apart
  NoDir,        \* no directory, or no mtime remembered
  Stale,        \* Timing.stale
  Beat,         \* Timing.heartbeat
  Wait,         \* a wait between two attempts
  Late,         \* how long a process may take over a step that is due
  Retries,      \* Timing.retries
  SaveRounds,   \* refresh.rs, SAVE_ROUNDS
  MaxSleeps, MaxCrashes, MaxFaults

(* What one process stores as mtime it knows from what any other stores.     *)
Stamp == [by : Process, serial : Serials]

(* The timings are durations, a heartbeat and a wait take some time, and an  *)
(* mtime is never mistaken for none.                                         *)
ASSUME TimingAssumption ==
  /\ Stale \in Nat /\ Beat \in Nat \ {0} /\ Wait \in Nat \ {0} /\ Late \in Nat
  /\ Retries \in Nat /\ SaveRounds \in Nat \ {0}
  /\ MaxSleeps \in Nat /\ MaxCrashes \in Nat /\ MaxFaults \in Nat
  /\ Savers \subseteq Process
  /\ NoDir \notin Stamp /\ NoDir \notin [stamp : Stamp, age : Nat]

VARIABLES
  dir,          \* the lock directory: its mtime and that mtime's age
  pc,           \* the step each process is at
  since,        \* for how many ticks it has been at it, awake
  held,         \* the mtime its guard remembers
  woke,         \* the age of the time its heartbeat is to touch with
  tries,        \* the attempt its acquire is at
  round,        \* the round its asking is at
  astray,       \* history: ticks since the directory last carried its mtime
  together,     \* history: ticks for which two have both kept it, since either
                \* read back another's mtime
  stood,        \* history: the directory it began asking for is still there,
                \* untouched
  sleeps, crashes, faults

procVars == <<pc, since, held, woke, tries, round>>
bounds == <<sleeps, crashes, faults>>
history == <<astray, together>>
vars == <<dir, procVars, history, stood, bounds>>

Steps == {"idle", "ask", "look", "remove", "wait",
          "made", "held", "touch", "stored", "drop", "lost"}

(* Two heartbeats, and five steps late.                                      *)
TwoBeats == 2 * Beat + 5 * Late

(* The steps of a process that has a Guard and has not found it compromised. *)
Keeping == {"made", "held", "touch", "stored", "drop"}

Keeps(p) == pc[p] \in Keeping

TypeOK ==
  /\ dir \in [stamp : Stamp, age : 0 .. Stale + 1] \cup {NoDir}
  /\ pc \in [Process -> Steps]
  /\ since \in [Process -> Nat]
  /\ held \in [Process -> Stamp \cup {NoDir}]
  /\ woke \in [Process -> 0 .. Stale + 1]
  /\ tries \in [Process -> 0 .. Retries]
  /\ round \in [Process -> 1 .. SaveRounds]
  /\ astray \in [Process -> 0 .. Beat + 2 * Late + 1]
  /\ together \in [Process \X Process -> 0 .. TwoBeats + 1]
  /\ stood \in [Process -> BOOLEAN]
  /\ sleeps \in 0 .. MaxSleeps
  /\ crashes \in 0 .. MaxCrashes
  /\ faults \in 0 .. MaxFaults

Init ==
  /\ dir = NoDir
  /\ pc = [p \in Process |-> "idle"]
  /\ since = [p \in Process |-> 0]
  /\ held = [p \in Process |-> NoDir]
  /\ woke = [p \in Process |-> 0]
  /\ tries = [p \in Process |-> 0]
  /\ round = [p \in Process |-> 1]
  /\ astray = [p \in Process |-> 0]
  /\ together = [x \in Process \X Process |-> 0]
  /\ stood = [p \in Process |-> FALSE]
  /\ sleeps = 0 /\ crashes = 0 /\ faults = 0

-----------------------------------------------------------------------------
(* Operators                                                                 *)

(* An mtime nobody remembers: the filesystem keeps nanoseconds.              *)
FreshStamps(p) ==
  {s \in Stamp : /\ s.by = p
                 /\ \A q \in Process : held[q] # s
                 /\ dir # NoDir => dir.stamp # s}

(* The directory carries the mtime p's guard last stored.                    *)
IsMine(p) == dir # NoDir /\ dir.stamp = held[p]

(* The directory carries an mtime p stored.                                  *)
Stamped(p) == dir # NoDir /\ dir.stamp.by = p

(* p's time together with anybody starts.                                    *)
Anew(p) == [x \in Process \X Process |->
              IF p \in {x[1], x[2]} THEN 0 ELSE together[x]]

(* Past its staleness; an age further on is never told apart.                *)
Older(age) == IF age > Stale THEN age ELSE age + 1

(* Mutant of Abandoned: a lock is taken for left behind after a heartbeat.   *)
AbandonedEarly == dir # NoDir /\ dir.age > Beat

(* Untouched past its staleness.                                             *)
Abandoned == dir # NoDir /\ dir.age > Stale

(* p moves to a step; what it remembers elsewhere is let go.                 *)
At(p, step) ==
  /\ pc' = [pc EXCEPT ![p] = step]
  /\ since' = [since EXCEPT ![p] = 0]

Fault == faults < MaxFaults /\ faults' = faults + 1

(* The directory is made, touched or removed.                                *)
Becomes(d) ==
  /\ dir' = d
  /\ stood' = [q \in Process |-> FALSE]

-----------------------------------------------------------------------------
(* Asking: acquire, and the rounds of write_lock_to_save                     *)

Ask(p) ==
  /\ pc[p] = "idle"
  /\ At(p, "ask")
  /\ tries' = [tries EXCEPT ![p] = 0]
  /\ round' = [round EXCEPT ![p] = 1]
  /\ stood' = [stood EXCEPT ![p] = dir # NoDir]
  /\ UNCHANGED <<dir, held, woke, history, bounds>>

Create(p) ==
  /\ pc[p] = "ask" /\ dir = NoDir
  /\ \E s \in FreshStamps(p) : Becomes([stamp |-> s, age |-> 0])
  /\ At(p, "made")
  /\ astray' = [astray EXCEPT ![p] = 0]
  /\ together' = Anew(p)
  /\ UNCHANGED <<held, woke, tries, round, bounds>>

Exists(p) ==
  /\ pc[p] = "ask" /\ dir # NoDir
  /\ At(p, "look")
  /\ UNCHANGED <<dir, held, woke, tries, round, history, stood, bounds>>

(* Any other error of create_dir: acquire fails.                             *)
AskFails(p) ==
  /\ pc[p] = "ask" /\ Fault
  /\ At(p, "idle")
  /\ UNCHANGED <<dir, held, woke, tries, round, history, stood, sleeps, crashes>>

(* Mutant of NextTry: Busy ends the asking of a saver too.                   *)
NextTryOneRound(p, step) ==
  /\ tries' = [tries EXCEPT ![p] = IF @ < Retries THEN @ + 1 ELSE 0]
  /\ At(p, IF tries[p] < Retries THEN step ELSE "idle")
  /\ UNCHANGED round

(* Mutant of NextTry: one attempt too many is counted.                       *)
NextTryOnceMore(p, step) ==
  /\ tries' = [tries EXCEPT ![p] = IF @ <= Retries THEN @ + 1 ELSE 0]
  /\ At(p, IF tries[p] <= Retries THEN step ELSE "idle")
  /\ UNCHANGED round

(* The next attempt of acquire starts at a step, after the last one it is    *)
(* Busy, and a saver then starts another round.                              *)
NextTry(p, step) ==
  \/ /\ tries[p] < Retries
     /\ At(p, step)
     /\ tries' = [tries EXCEPT ![p] = @ + 1]
     /\ UNCHANGED round
  \/ /\ tries[p] = Retries
     /\ tries' = [tries EXCEPT ![p] = 0]
     /\ \/ /\ p \in Savers /\ round[p] < SaveRounds
           /\ At(p, "ask")
           /\ round' = [round EXCEPT ![p] = @ + 1]
        \/ /\ p \notin Savers \/ round[p] = SaveRounds
           /\ At(p, "idle")
           /\ UNCHANGED round

FindHeld(p) ==
  /\ pc[p] = "look" /\ ~Abandoned
  /\ NextTry(p, "wait")
  /\ UNCHANGED <<dir, held, woke, history, stood, bounds>>

(* Mutant of FindAbandoned: a lock left behind is waited for like any other. *)
FindAbandonedWaits(p) ==
  /\ pc[p] = "look" /\ Abandoned
  /\ NextTry(p, "wait")
  /\ UNCHANGED <<dir, held, woke, history, stood, bounds>>

FindAbandoned(p) ==
  /\ pc[p] = "look" /\ Abandoned
  /\ At(p, "remove")
  /\ UNCHANGED <<dir, held, woke, tries, round, history, stood, bounds>>

(* What is removed is whatever directory is there by now.  An error of the   *)
(* removal is not looked at.                                                 *)
Remove(p) ==
  /\ pc[p] = "remove"
  /\ \/ Becomes(NoDir) /\ UNCHANGED faults
     \/ Fault /\ UNCHANGED <<dir, stood>>
  /\ NextTry(p, "ask")
  /\ UNCHANGED <<held, woke, history, sleeps, crashes>>

WaitOver(p) ==
  /\ pc[p] = "wait" /\ since[p] >= Wait
  /\ At(p, "ask")
  /\ UNCHANGED <<dir, held, woke, tries, round, history, stood, bounds>>

-----------------------------------------------------------------------------
(* Holding: start, the heartbeat's keep, and the release                     *)

(* start reads the mtime of what is at the path, by now.                     *)
Started(p) ==
  /\ pc[p] = "made" /\ dir # NoDir
  /\ held' = [held EXCEPT ![p] = dir.stamp]
  /\ At(p, "held")
  /\ together' = IF Stamped(p) THEN together ELSE Anew(p)
  /\ UNCHANGED <<dir, woke, tries, round, astray, stood, bounds>>

(* It fails, and the directory made stays.                                   *)
NotStarted(p) ==
  /\ pc[p] = "made"
  /\ \/ dir = NoDir /\ UNCHANGED faults
     \/ Fault
  /\ At(p, "idle")
  /\ UNCHANGED <<dir, held, woke, tries, round, history, stood, sleeps, crashes>>

(* Mutant of Look: the directory is touched without a look.                  *)
LookNot(p) ==
  /\ pc[p] = "held" /\ since[p] >= Beat
  /\ At(p, "touch")
  /\ woke' = [woke EXCEPT ![p] = 0]
  /\ UNCHANGED <<dir, held, tries, round, history, stood, bounds>>

Look(p) ==
  /\ pc[p] = "held" /\ since[p] >= Beat
  /\ IsMine(p)
  /\ At(p, "touch")
  /\ woke' = [woke EXCEPT ![p] = 0]
  /\ UNCHANGED <<dir, held, tries, round, history, stood, bounds>>

(* Touched with the time the heartbeat woke at.                              *)
Touch(p) ==
  /\ pc[p] = "touch" /\ dir # NoDir
  /\ \E s \in FreshStamps(p) : Becomes([stamp |-> s, age |-> woke[p]])
  /\ At(p, "stored")
  /\ astray' = [astray EXCEPT ![p] = 0]
  /\ UNCHANGED <<held, woke, tries, round, together, bounds>>

(* Mutant of ReadBack: the first mtime is compared with for good.            *)
ReadBackNot(p) ==
  /\ pc[p] = "stored" /\ dir # NoDir
  /\ At(p, "held")
  /\ UNCHANGED <<dir, held, woke, tries, round, history, stood, bounds>>

(* What the filesystem stored is what is remembered.                         *)
ReadBack(p) ==
  /\ pc[p] = "stored" /\ dir # NoDir
  /\ held' = [held EXCEPT ![p] = dir.stamp]
  /\ At(p, "held")
  /\ together' = IF Stamped(p) THEN together ELSE Anew(p)
  /\ UNCHANGED <<dir, woke, tries, round, astray, stood, bounds>>

(* Mutant of FindLost: the flag is not set, and the next beat looks again.   *)
FindLostGoesOn(p) ==
  /\ pc[p] = "held" /\ since[p] >= Beat /\ ~IsMine(p)
  /\ At(p, "held")
  /\ UNCHANGED <<dir, held, woke, tries, round, history, stood, bounds>>

(* The beat ends with false: another mtime, no directory, or an error.       *)
FindLost(p) ==
  /\ \/ pc[p] = "held" /\ since[p] >= Beat
     \/ pc[p] \in {"touch", "stored"}
  /\ \/ pc[p] = "held" /\ ~IsMine(p) /\ UNCHANGED faults
     \/ dir = NoDir /\ UNCHANGED faults
     \/ Fault
  /\ At(p, "lost")
  /\ UNCHANGED <<dir, held, woke, tries, round, history, stood, sleeps, crashes>>

(* Drop sets the flag and joins the heartbeat, which is between two beats.   *)
Stop(p) ==
  /\ pc[p] = "held"
  /\ At(p, "drop")
  /\ UNCHANGED <<dir, held, woke, tries, round, history, stood, bounds>>

(* The flag is down, so the directory at the path is removed.                *)
Drop(p) ==
  /\ pc[p] = "drop"
  /\ \/ Becomes(NoDir) /\ UNCHANGED faults
     \/ Fault /\ UNCHANGED <<dir, stood>>
  /\ held' = [held EXCEPT ![p] = NoDir]
  /\ At(p, "idle")
  /\ UNCHANGED <<woke, tries, round, history, sleeps, crashes>>

(* The flag is up: nothing is removed.                                       *)
DropLost(p) ==
  /\ pc[p] = "lost"
  /\ held' = [held EXCEPT ![p] = NoDir]
  /\ At(p, "idle")
  /\ UNCHANGED <<dir, woke, tries, round, history, stood, bounds>>

-----------------------------------------------------------------------------
(* Time, sleep, death                                                        *)

(* How long a process may be at a step, awake.                               *)
Limit(step) ==
  IF step = "held" THEN Beat + Late
  ELSE IF step = "wait" THEN Wait + Late
  ELSE Late

Untimed == {"idle", "lost"}

Tick ==
  /\ \A p \in Process : pc[p] \in Untimed \/ since[p] < Limit(pc[p])
  /\ since' = [p \in Process |->
                 IF pc[p] \in Untimed THEN 0 ELSE since[p] + 1]
  /\ dir' = IF dir = NoDir THEN NoDir ELSE [dir EXCEPT !.age = Older(@)]
  /\ woke' = [p \in Process |->
                IF pc[p] = "touch" THEN Older(woke[p]) ELSE 0]
  /\ astray' = [p \in Process |->
                  IF ~Keeps(p) \/ Stamped(p) THEN 0
                  ELSE IF astray[p] > Beat + 2 * Late THEN astray[p]
                  ELSE astray[p] + 1]
  /\ together' = [x \in Process \X Process |->
                    IF x[1] = x[2] \/ ~Keeps(x[1]) \/ ~Keeps(x[2]) THEN 0
                    ELSE IF together[x] > TwoBeats THEN together[x]
                    ELSE together[x] + 1]
  /\ UNCHANGED <<pc, held, tries, round, stood, bounds>>

(* The machine sleeps past every staleness: mtimes are of the wall clock,    *)
(* the waits of the threads are not.                                         *)
Sleep ==
  /\ sleeps < MaxSleeps /\ sleeps' = sleeps + 1
  /\ dir' = IF dir = NoDir THEN NoDir ELSE [dir EXCEPT !.age = Stale + 1]
  /\ woke' = [p \in Process |-> IF pc[p] = "touch" THEN Stale + 1 ELSE 0]
  /\ UNCHANGED <<pc, since, held, tries, round, history, stood, crashes, faults>>

(* A process is killed; its actor may ask again in another.                  *)
Crash(p) ==
  /\ pc[p] # "idle" /\ crashes < MaxCrashes /\ crashes' = crashes + 1
  /\ At(p, "idle")
  /\ held' = [held EXCEPT ![p] = NoDir]
  /\ UNCHANGED <<dir, woke, tries, round, history, stood, sleeps, faults>>

Acts(p) ==
  \/ Create(p) \/ Exists(p) \/ AskFails(p) \/ FindHeld(p) \/ FindAbandoned(p)
  \/ Remove(p) \/ WaitOver(p) \/ Started(p) \/ NotStarted(p)
  \/ Look(p) \/ Touch(p) \/ ReadBack(p) \/ FindLost(p)
  \/ Stop(p) \/ Drop(p) \/ DropLost(p)

Next ==
  \/ \E p \in Process : Ask(p) \/ Acts(p) \/ Crash(p)
  \/ Tick \/ Sleep

Spec == Init /\ [][Next]_vars

(* The operating system runs a process that can step, and time passes; a     *)
(* lock is asked for again by whoever needs it.                              *)
FairSpec ==
  /\ Spec
  /\ \A p \in Process : WF_vars(Acts(p)) /\ WF_vars(Ask(p))
  /\ SF_vars(Tick)

-----------------------------------------------------------------------------
(* Properties                                                                *)

(* Nothing has slept, died or failed yet.                                    *)
Undisturbed == sleeps = 0 /\ crashes = 0 /\ faults = 0

(* Until the machine sleeps, a process dies or a call fails, and as long as  *)
(* it runs on time, the lock excludes: nobody finds it abandoned.  This is   *)
(* what a switch relies on when it writes the slot it read (lock.rs:1).      *)
Exclusive ==
  Undisturbed => \A p, q \in Process : Keeps(p) /\ Keeps(q) => p = q

(* p's guard remembers an mtime another process stored: between p's mkdir or *)
(* touch and p's reading it back the directory was taken.                    *)
Misread(p) == held[p] # NoDir /\ held[p].by # p

(* Whatever sleeps, dies or fails: a holder goes on no longer than a beat,   *)
(* awake, over a lock another has taken (lock.rs, keep).  Excepted is a      *)
(* guard that read back another's mtime.                                     *)
ToldWithinABeat ==
  \A p \in Process :
    Keeps(p) /\ ~Misread(p) => astray[p] <= Beat + 2 * Late

(* Nor do two go on together for longer than that: a heartbeat looks before  *)
(* it touches, and of two that keep the lock one does not find its mtime     *)
(* there (lock.rs, keep).                                                    *)
OneIsTold ==
  \A p, q \in Process :
    p # q /\ Keeps(p) /\ Keeps(q) => together[<<p, q>>] <= TwoBeats

(* No false alarm: a heartbeat finds the lock lost only where the directory  *)
(* is gone, carries another's mtime, or could not be read or touched.  A     *)
(* switch that is told so is given up (lock.rs, keep; docs/facts/macos.md).  *)
AlarmIsTrue ==
  [][\A p \in Process :
       pc[p] \in {"held", "touch", "stored"} /\ pc'[p] = "lost"
         => ~Stamped(p) \/ faults' # faults]_vars

(* p's asking ends with Busy.                                                *)
GivesUp(p) ==
  pc[p] \in {"look", "remove"} /\ pc'[p] = "idle" /\ crashes' = crashes

(* A renewed login is saved without the write lock only where somebody alive *)
(* has it: a saver outwaits a lock left behind, so that what stood when it   *)
(* began asking was touched or let go of since (refresh.rs,                  *)
(* write_lock_to_save).                                                      *)
SaverOutwaits ==
  [][\A p \in Savers : GivesUp(p) => ~stood[p]]_vars

(* A lock directory whose holder died is removed in the end, as long as it   *)
(* is asked for (acquire, abandoned).                                        *)
Left == dir # NoDir /\ ~Keeps(dir.stamp.by)
LeftIsReclaimed == Left ~> ~Left

=============================================================================
