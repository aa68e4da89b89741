---------------------------- MODULE RefreshProofs ----------------------------
(* What TLAPS proves of Refresh for any bounds and any set of failing        *)
(* operations:                                                               *)
(*   TypeCorrect        Spec => []TypeOK                                     *)
(*   CopiesAreNamed     Spec => []CopyNamed                                  *)
(*   OnlySentIsReplaced Spec => SavesOverSent                                *)
(*   AnswersAreKept     Spec => []AnswerKept                                 *)
(*   SpentIsNotSent     Spec => NotSentTwice                                 *)
(* The first three are of one invariant, Inv: what the process knows at each *)
(* step, that both indexes, the one saved and the one in mind, name every    *)
(* copy, and that under the write lock the document is what was read.  The   *)
(* last two are of KInv, over it: where a login that Pitboard spent may      *)
(* still be, where its answer is, and what of the renewals left waiting the  *)
(* run has done by each step.                                                *)
EXTENDS Refresh, TLAPS

(* What the process knows at its steps.                                      *)
Knows ==
  /\ pc \in {"check", "reserve"} => run.seen.login \in Logins
  /\ pc \in {"left", "letGo"} => run.copy \in Names
  /\ pc = "left" => ~run.renews
  /\ pc \in {"refreshLock", "again", "check", "reserve"} /\ run.renews =>
       run.fresh = NoLogin /\ run.copy = NoName
  /\ pc \in {"again", "check", "reserve", "send", "copy", "saveLock"} => run.renews
  /\ pc \in {"copy", "saveLock"} => run.fresh \in Logins
  /\ run.renews /\ run.fresh \in Logins => run.sent \in mine
  /\ run.bare => run.renews /\ run.fresh \in Logins
  /\ writeLock = "session" => doc.rest < MaxRest

HasCopy(m, n) == \E w \in m.renewing : w.copy = n

(* An index names every copy in the vault.                                   *)
NamesAll(m) == \A n \in Names : vault[n] # NoLogin => n \in m.discarded \/ HasCopy(m, n)

(* Saved or in mind; and the copy to be made is named before it is.          *)
Named ==
  /\ NamesAll(index)
  /\ pc # "idle" => NamesAll(mem)
  /\ pc \in {"send", "copy"} /\ run.copy # NoName =>
       HasCopy(index, run.copy) /\ HasCopy(mem, run.copy)

(* From the write lock to the write, the document is what the save read, or  *)
(* was signed out of, or is left as its first write was cut short.           *)
Guarded ==
  /\ pc \in {"save", "write"} /\ ~run.bare => writeLock = "pitboard"
  /\ pc = "write" /\ ~run.bare =>
       slot.login \in {run.sent, NoLogin, Unread} /\ slot.rest = run.now.rest

Inv == TypeOK /\ Knows /\ Named /\ Guarded

-----------------------------------------------------------------------------
(* Types of what the operators return                                        *)

(* No number that names nothing is a login's or a copy's.                    *)
LEMMA Nothing ==
  /\ NoLogin \notin Logins /\ NoName \notin Names /\ NoLogin = 0 /\ NoName = 0
  /\ Unread \notin Logins /\ Unread # NoLogin
  BY RefreshBounds DEF NoLogin, NoName, Unread, Logins, Names

(* The store holds a document, but where a write was cut short.              *)
LEMMA SlotIs ==
  ASSUME TypeOK
  PROVE  /\ slot.login # Unread => slot \in Docs
         /\ Docs \subseteq Slots
         /\ \A d \in CutShort : d \in Slots /\ d.login = Unread /\ d.rest = slot.rest
<1>1. slot \in Slots
  BY DEF TypeOK
<1> QED  BY <1>1 DEF Slots, Docs, CutShort

(* A process that knows nothing is one.                                      *)
LEMMA NoRunIsRun == NoRun \in Runs
  BY RefreshBounds DEF NoRun, Runs, NoDoc, Docs

(* What it finds is of its type, where it can be read.                       *)
LEMMA FindsIsRun == ASSUME TypeOK, slot.login # Unread PROVE Finds(run) \in Runs
<1>1. slot \in Docs /\ run.second \in BOOLEAN
  BY SlotIs DEF TypeOK, Runs
<1>2. [NoRun EXCEPT !.renews = TRUE, !.seen = slot, !.second = run.second] \in Runs
  BY <1>1, NoRunIsRun DEF Runs
<1> QED  BY <1>2 DEF Finds

(* And so is what a run that looks again knows.                              *)
LEMMA LookIsRun ==
  ASSUME TypeOK
  PROVE  /\ [Finds(run) EXCEPT !.seen = run.seen, !.second = TRUE]
              = [NoRun EXCEPT !.renews = TRUE, !.seen = run.seen, !.second = TRUE]
         /\ [NoRun EXCEPT !.renews = TRUE, !.seen = run.seen, !.second = TRUE] \in Runs
<1>1. run.seen \in Docs
  BY DEF TypeOK, Runs
<1>2. [NoRun EXCEPT !.renews = TRUE, !.seen = run.seen, !.second = TRUE] \in Runs
  BY <1>1, NoRunIsRun DEF Runs
<1>3. [Finds(run) EXCEPT !.seen = run.seen, !.second = TRUE]
        = [NoRun EXCEPT !.renews = TRUE, !.seen = run.seen, !.second = TRUE]
  BY DEF Finds, NoRun
<1> QED  BY <1>2, <1>3

(* Letting go of a copy gives an index.                                      *)
LEMMA ForgottenIsState ==
  ASSUME NEW m \in States, NEW n \in Names PROVE Forgotten(m, n) \in States
  BY DEF States, Forgotten

(* An answer is a login, and the first for the one sent.                     *)
LEMMA AnswersTypes ==
  ASSUME TypeOK, NEW l, Answers(l)
  PROVE  /\ issued' \in Logins
         /\ answer' \in [Logins -> Logins \cup {NoLogin}]
         /\ l \in Logins
  BY RefreshBounds DEF TypeOK, Answers, Logins

(* A fault, or none, keeps the bounds.                                       *)
LEMMA FaultTypes ==
  ASSUME TypeOK, NoFault \/ \E operation \in Operations : Fault(operation)
  PROVE  crashes' \in 0 .. MaxCrashes /\ faults' \in 0 .. MaxFaults
  BY RefreshBounds DEF TypeOK, NoFault, Fault, bounds

(* Letting go of a lock keeps its type.                                      *)
LEMMA ReleasedTypes ==
  ASSUME TypeOK
  PROVE  Released(refreshLock) \in Holders /\ Released(writeLock) \in Holders
  BY DEF TypeOK, Released, Holders

(* Nothing waits or is copied to begin with.                                 *)
LEMMA InitFits == Init => Inv
<1> SUFFICES ASSUME Init PROVE Inv
  OBVIOUS
<1>1. TypeOK
  BY RefreshBounds, NoRunIsRun
     DEF Init, TypeOK, Docs, Slots, States, Logins, Names, NoDoc, NoRenewal, Steps, Holders
<1>2. Knows /\ Named /\ Guarded
  BY DEF Init, Knows, Named, NamesAll, Guarded, NoRun
<1> QED  BY <1>1, <1>2 DEF Inv

-----------------------------------------------------------------------------
(* The world: sessions, a sign-in, a sign-out, a lock gone stale             *)

(* A session's renewal, which writes under the write lock.                   *)
LEMMA RenewalFits ==
  ASSUME Inv, SessionSends \/ SessionSaves PROVE Inv'
<1>1. CASE SessionSends
  <2>1. TypeOK'
    <3>1. /\ issued' \in Logins /\ slot.login \in Logins
          /\ answer' \in [Logins -> Logins \cup {NoLogin}]
      BY <1>1, AnswersTypes DEF SessionSends, Inv
    <3> QED  BY <1>1, <3>1 DEF SessionSends, Inv, TypeOK, Holders, disk, process, history, bounds
  <2>2. (Knows /\ Named /\ Guarded)'
    BY <1>1 DEF SessionSends, Inv, Knows, Named, NamesAll, HasCopy, Guarded, disk, process,
                history, bounds
  <2> QED  BY <2>1, <2>2 DEF Inv
<1>2. CASE SessionSaves
  <2>1. TypeOK'
    BY <1>2, RefreshBounds
       DEF SessionSaves, Inv, TypeOK, Holders, Slots, NoRenewal, service, process, history, bounds
  <2>2. (Knows /\ Named /\ Guarded)'
    BY <1>2 DEF SessionSaves, Inv, Knows, Named, NamesAll, HasCopy, Guarded, service, process,
                history, bounds
  <2> QED  BY <2>1, <2>2 DEF Inv
<1> QED  BY <1>1, <1>2

(* A session's write of the rest of the document, under the lock too.        *)
LEMMA WritingFits ==
  ASSUME Inv, SessionReads \/ SessionWrites PROVE Inv'
<1>1. CASE SessionReads
  <2>1. TypeOK'
    <3>1. slot \in Docs
      BY <1>1, SlotIs, Nothing DEF SessionReads, Inv
    <3> QED  BY <1>1, <3>1
                DEF SessionReads, Inv, TypeOK, Holders, disk, service, process, history, bounds
  <2>2. (Knows /\ Named /\ Guarded)'
    BY <1>1 DEF SessionReads, Inv, Knows, Named, NamesAll, HasCopy, Guarded, disk, service,
                process, history, bounds
  <2> QED  BY <2>1, <2>2 DEF Inv
<1>2. CASE SessionWrites
  <2>1. TypeOK'
    <3>1. doc.rest < MaxRest /\ doc \in Docs
      BY <1>2 DEF SessionWrites, Inv, Knows, TypeOK
    <3>2. [doc EXCEPT !.rest = @ + 1] \in Slots /\ NoDoc \in Docs
      BY <3>1, RefreshBounds DEF Docs, Slots, NoDoc
    <3> QED  BY <1>2, <3>2
                DEF SessionWrites, Inv, TypeOK, Holders, service, process, history, bounds
  <2>2. (Knows /\ Named /\ Guarded)'
    BY <1>2 DEF SessionWrites, Inv, Knows, Named, NamesAll, HasCopy, Guarded, service, process,
                history, bounds
  <2> QED  BY <2>1, <2>2 DEF Inv
<1> QED  BY <1>1, <1>2

(* A session that dies, and its lock gone stale.                             *)
LEMMA DyingFits ==
  ASSUME Inv, SessionDies \/ Lapses PROVE Inv'
<1>1. CASE SessionDies
  <2>0. /\ slot' \in Slots
        /\ slot' = slot \/ writeLock = "session"
        /\ slot'.login \in {slot.login, Unread} /\ slot'.rest = slot.rest
    BY <1>1, SlotIs DEF SessionDies, Inv, TypeOK
  <2>1. TypeOK'
    BY <1>1, <2>0, RefreshBounds
       DEF SessionDies, Inv, TypeOK, Holders, Docs, NoDoc, NoRenewal, service, process,
           history
  <2>2. (Knows /\ Named /\ Guarded)'
    BY <1>1, <2>0 DEF SessionDies, Inv, Knows, Named, NamesAll, HasCopy, Guarded, service,
                process, history
  <2> QED  BY <2>1, <2>2 DEF Inv
<1>2. CASE Lapses
  <2>1. TypeOK'
    BY <1>2 DEF Lapses, Inv, TypeOK, Holders, disk, service, world, process, history, bounds
  <2>2. (Knows /\ Named /\ Guarded)'
    BY <1>2 DEF Lapses, Inv, Knows, Named, NamesAll, HasCopy, Guarded, disk, service, world,
                process, history, bounds
  <2> QED  BY <2>1, <2>2 DEF Inv
<1> QED  BY <1>1, <1>2

(* Somebody signs in, under the write lock, or out, under none.              *)
LEMMA SigningFits ==
  ASSUME Inv, SignIn \/ LogOut PROVE Inv'
<1>1. CASE SignIn
  <2>1. TypeOK'
    <3>1. issued + 1 \in Logins /\ outside' \in 0 .. MaxOutside
      BY <1>1, RefreshBounds DEF SignIn, Outside, Inv, TypeOK, Logins
    <3>2. [slot EXCEPT !.login = issued + 1] \in Slots
      BY <3>1 DEF Inv, TypeOK, Slots
    <3> QED  BY <1>1, <3>1, <3>2
                DEF SignIn, Inv, TypeOK, Holders, locks, process, history, bounds
  <2>2. (Knows /\ Named /\ Guarded)'
    BY <1>1 DEF SignIn, Inv, Knows, Named, NamesAll, HasCopy, Guarded, locks, process,
                history, bounds
  <2> QED  BY <2>1, <2>2 DEF Inv
<1>2. CASE LogOut
  <2>1. TypeOK'
    <3>1. outside' \in 0 .. MaxOutside
      BY <1>2, RefreshBounds DEF LogOut, Outside, Inv, TypeOK
    <3>2. [slot EXCEPT !.login = NoLogin] \in Slots
      BY DEF Inv, TypeOK, Slots
    <3> QED  BY <1>2, <3>1, <3>2
                DEF LogOut, Inv, TypeOK, service, locks, process, history, bounds
  <2>2. [slot EXCEPT !.login = NoLogin].rest = slot.rest
        /\ [slot EXCEPT !.login = NoLogin].login = NoLogin
    BY DEF Inv, TypeOK, Slots
  <2>3. (Knows /\ Named /\ Guarded)'
    BY <1>2, <2>2 DEF LogOut, Inv, Knows, Named, NamesAll, HasCopy, Guarded, service, locks,
                process, history, bounds
  <2> QED  BY <2>1, <2>3 DEF Inv
<1> QED  BY <1>1, <1>2

-----------------------------------------------------------------------------
(* Where the process goes                                                    *)

(* What a step that only moves the process has to show.                      *)
Placed ==
  /\ pc' \in Steps /\ run' \in Runs
  /\ refreshLock' \in Holders /\ writeLock' \in Holders
  /\ Knows' /\ Guarded'

(* The end of a run is a place to go.                                        *)
LEMMA EndsFits ==
  ASSUME Inv, Ends, UNCHANGED doc PROVE Placed /\ pc' = "idle"
<1>1. pc' = "idle" /\ run' = NoRun
  BY DEF Ends, GoesFree
<1>2. refreshLock' \in Holders /\ writeLock' \in Holders
  BY ReleasedTypes DEF Inv, Ends, GoesFree
<1>3. writeLock' = "session" => writeLock = "session"
  BY DEF Ends, GoesFree, Released
<1>4. Knows' /\ Guarded'
  BY <1>1, <1>3, Nothing DEF Inv, Knows, Guarded, NoRun
<1> QED  BY <1>1, <1>2, <1>4, NoRunIsRun DEF Placed, Steps

(* So is the next renewal left, with one more that waits on.                 *)
LEMMA WaitsFits ==
  ASSUME Inv, Waits, UNCHANGED <<doc, mine>> PROVE Placed /\ pc' = "finish"
<1>1. pc' = "finish" /\ run' = [run EXCEPT !.stuck = TRUE]
  BY DEF Waits, GoesFree
<1>2. refreshLock' \in Holders /\ writeLock' \in Holders
  BY ReleasedTypes DEF Inv, Waits, GoesFree
<1>3. writeLock' = "session" => writeLock = "session"
  BY DEF Waits, GoesFree, Released
<1>4. /\ run' \in Runs /\ run'.renews = run.renews /\ run'.fresh = run.fresh
      /\ run'.sent = run.sent /\ run'.bare = run.bare
  BY <1>1 DEF Inv, TypeOK, Runs
<1>5. Knows' /\ Guarded'
  BY <1>1, <1>3, <1>4 DEF Inv, Knows, Guarded
<1> QED  BY <1>1, <1>2, <1>4, <1>5 DEF Placed, Steps

(* So is the second look.                                                    *)
LEMMA LooksAgainFits ==
  ASSUME Inv, LooksAgain, UNCHANGED doc PROVE Placed /\ pc' \in {"idle", "again"}
<1>1. CASE Ends
  BY <1>1, EndsFits
<1>2. CASE ~Ends
  <2>1. /\ pc' = "again" /\ run' = [Finds(run) EXCEPT !.seen = run.seen, !.second = TRUE]
        /\ writeLock' = Released(writeLock) /\ UNCHANGED refreshLock
    BY <1>2 DEF LooksAgain
  <2>4. /\ run' \in Runs /\ run'.renews /\ run'.fresh = NoLogin /\ ~run'.bare
        /\ run'.copy = NoName
    BY <2>1, LookIsRun DEF Inv, NoRun
  <2>5. /\ refreshLock' \in Holders /\ writeLock' \in Holders
        /\ writeLock' = "session" => writeLock = "session"
    BY <2>1, ReleasedTypes DEF Inv, TypeOK, Released
  <2>6. Knows' /\ Guarded'
    BY <2>1, <2>4, <2>5, Nothing DEF Inv, Knows, Guarded
  <2> QED  BY <2>1, <2>4, <2>5, <2>6 DEF Placed, Steps
<1> QED  BY <1>1, <1>2

(* So is what follows a copy.                                                *)
LEMMA GoesOnFits ==
  ASSUME Inv, GoesOn, UNCHANGED <<doc, mine>>
  PROVE  Placed /\ pc' \in {"idle", "again", "finish"}
<1>1. CASE ~run.renews
  <2>1. pc' = "finish" /\ UNCHANGED <<run, refreshLock, writeLock>>
    BY <1>1 DEF GoesOn, Goes, locks
  <2> QED  BY <2>1 DEF Inv, TypeOK, Placed, Steps, Knows, Guarded
<1>2. CASE run.renews
  <2>1. LooksAgain \/ Ends
    BY <1>2 DEF GoesOn
  <2> QED  BY <2>1, LooksAgainFits, EndsFits
<1> QED  BY <1>1, <1>2

(* A step that only moves the process keeps the invariant.                   *)
LEMMA MovesFits ==
  ASSUME Inv, Placed, Moves, pc # "idle",
         NoFault \/ \E operation \in Operations : Fault(operation),
         pc' \in {"send", "copy"} => run'.copy = NoName
  PROVE  Inv'
<1>1. crashes' \in 0 .. MaxCrashes /\ faults' \in 0 .. MaxFaults
  BY FaultTypes DEF Inv
<1>2. TypeOK'
  BY <1>1 DEF Inv, TypeOK, Placed, Moves, disk, service, world, history
<1>3. Named'
  BY DEF Inv, Named, NamesAll, HasCopy, Moves, disk
<1> QED  BY <1>2, <1>3 DEF Inv, Placed

-----------------------------------------------------------------------------
(* Renewals left waiting                                                     *)

(* The name of an operation that fails is one.                               *)
LEMMA SomeFault ==
  ASSUME NEW operation, Fault(operation)
  PROVE  \E o \in Operations : Fault(o)
  BY RefreshBounds DEF Fault

(* Looking at what was left, and at the login after it.                      *)
LEMMA LeftFits ==
  ASSUME Inv, NextLeft \/ Settled \/ Finished \/ Stopped PROVE Inv'
<1>1. CASE NextLeft
  <2>1. PICK w \in run.todo :
          Goes("left", [NoRun EXCEPT !.strict = run.strict, !.todo = run.todo \ {w},
                                     !.stuck = run.stuck, !.sent = w.sent, !.copy = w.copy])
    BY <1>1 DEF NextLeft
  <2>2. run.todo \subseteq Waiting /\ run.strict \in BOOLEAN /\ run.stuck \in BOOLEAN
    BY DEF Inv, TypeOK, Runs
  <2>3. w.sent \in Logins /\ w.copy \in Names /\ run.todo \ {w} \in SUBSET Waiting
    BY <2>2 DEF Waiting
  <2>4. /\ run' \in Runs /\ run'.copy \in Names /\ ~run'.renews /\ ~run'.bare
        /\ pc' = "left" /\ UNCHANGED locks
    BY <2>1, <2>2, <2>3, NoRunIsRun DEF Goes, Runs, NoRun
  <2>5. Placed
    BY <1>1, <2>4 DEF Inv, TypeOK, Placed, Steps, Knows, Guarded, locks, NextLeft, Moves,
                      world, history
  <2> QED  BY <1>1, <2>4, <2>5, MovesFits DEF NextLeft
<1>2. CASE Settled
  <2>1. mem.renewing \in SUBSET Waiting
    BY DEF Inv, TypeOK, States
  <2>2. run' \in Runs /\ ~run'.renews /\ ~run'.bare /\ pc' = "purge" /\ UNCHANGED locks
    BY <1>2, <2>1, NoRunIsRun DEF Settled, Goes, Runs, NoRun
  <2>3. Placed
    BY <1>2, <2>2 DEF Inv, TypeOK, Placed, Steps, Knows, Guarded, locks, Settled, Moves,
                      world, history
  <2> QED  BY <1>2, <2>2, <2>3, MovesFits DEF Settled
<1>3. CASE Finished
  <2>1. /\ Moves /\ NoFault /\ pc = "finish"
        /\ Ends \/ (slot.login \in Logins /\ Goes("refreshLock", Finds(run)))
    BY <1>3 DEF Finished
  <2>2. CASE Ends
    BY <2>1, <2>2, EndsFits, MovesFits DEF Moves, world
  <2>3. CASE slot.login \in Logins /\ Goes("refreshLock", Finds(run))
    <3>1. /\ run' \in Runs /\ run'.fresh = NoLogin /\ run'.copy = NoName /\ ~run'.bare
          /\ pc' = "refreshLock" /\ UNCHANGED locks
      BY <2>3, FindsIsRun, Nothing DEF Goes, Finds, NoRun, Inv
    <3>2. Placed
      BY <2>1, <3>1, Nothing DEF Inv, TypeOK, Placed, Steps, Knows, Guarded, locks, Moves,
                                 world, history
    <3> QED  BY <2>1, <3>1, <3>2, MovesFits
  <2> QED  BY <2>1, <2>2, <2>3
<1>4. CASE Stopped
  BY <1>4, EndsFits, MovesFits DEF Stopped, Moves, world
<1> QED  BY <1>1, <1>2, <1>3, <1>4

(* Reading the copy of one, and its write lock.                              *)
LEMMA LeftSaveFits ==
  ASSUME Inv, LeftRead \/ LeftLocks PROVE Inv'
<1>0. (Moves /\ Waits /\ pc # "idle"
         /\ (NoFault \/ \E operation \in Operations : Fault(operation))) => Inv'
  BY WaitsFits, MovesFits DEF Moves, world, history
<1>1. CASE LeftRead
  <2>1. CASE Waits /\ Fault("vaultRead")
    BY <1>0, <1>1, <2>1, SomeFault DEF LeftRead
  <2>2. CASE /\ Goes(IF vault[run.copy] = NoLogin THEN "letGo" ELSE "refreshLock",
                     [run EXCEPT !.fresh = vault[run.copy]])
             /\ NoFault
    <3>1. run.copy \in Names /\ vault[run.copy] \in Logins \cup {NoLogin}
      BY <1>1 DEF LeftRead, Inv, TypeOK, Knows
    <3>2. /\ run' \in Runs /\ run'.copy = run.copy /\ run'.renews = run.renews
          /\ run'.bare = run.bare /\ run'.sent = run.sent
          /\ run'.fresh = vault[run.copy]
      BY <2>2, <3>1 DEF Goes, Inv, TypeOK, Runs
    <3>3. pc' \in {"letGo", "refreshLock"} /\ UNCHANGED locks
      BY <2>2 DEF Goes
    <3>4. ~run.renews /\ ~run.bare
      BY <1>1 DEF LeftRead, Inv, Knows
    <3>5. Placed
      BY <1>1, <3>1, <3>2, <3>3, <3>4
         DEF Inv, TypeOK, Placed, Steps, Knows, Guarded, locks, LeftRead, Moves, world, history
    <3> QED  BY <1>1, <2>2, <3>3, <3>5, MovesFits DEF LeftRead
  <2> QED  BY <1>1, <2>1, <2>2 DEF LeftRead
<1>2. CASE LeftLocks
  <2>1. CASE Denied(writeLock) /\ Waits
    BY <1>0, <1>2, <2>1, SomeFault DEF LeftLocks, Denied
  <2>2. CASE /\ writeLock = "free" /\ NoFault
             /\ pc' = "save" /\ writeLock' = "pitboard" /\ UNCHANGED <<run, refreshLock>>
    <3>1. Placed
      BY <1>2, <2>2 DEF Inv, TypeOK, Placed, Steps, Holders, Knows, Guarded, LeftLocks, Moves,
                        world, history
    <3> QED  BY <1>2, <2>2, <3>1, MovesFits DEF LeftLocks
  <2> QED  BY <1>2, <2>1, <2>2 DEF LeftLocks
<1> QED  BY <1>1, <1>2

-----------------------------------------------------------------------------
(* Renewing                                                                  *)

(* The refresh lock, and the document read under it.                         *)
LEMMA LooksFits ==
  ASSUME Inv, Refreshing \/ Again \/ Check PROVE Inv'
<1>0. (Moves /\ pc # "idle" /\ (Ends \/ LooksAgain)
         /\ (NoFault \/ \E operation \in Operations : Fault(operation))) => Inv'
  BY EndsFits, LooksAgainFits, MovesFits DEF Moves, world
<1>1. CASE Refreshing
  <2>1. CASE Denied(refreshLock) /\ IF run.renews THEN Ends ELSE Waits
    <3>1. pc # "idle" /\ Moves /\ (NoFault \/ \E operation \in Operations : Fault(operation))
      BY <1>1, <2>1, SomeFault DEF Refreshing, Denied
    <3>2. CASE Ends
      BY <1>0, <3>1, <3>2
    <3>3. CASE Waits
      BY <3>1, <3>3, WaitsFits, MovesFits DEF Moves, world, history
    <3> QED  BY <2>1, <3>2, <3>3
  <2>2. CASE /\ refreshLock = "free" /\ NoFault
             /\ refreshLock' = "pitboard"
             /\ pc' = IF run.renews THEN "again" ELSE "leftLock"
             /\ UNCHANGED <<run, writeLock>>
    <3>1. Placed
      BY <1>1, <2>2 DEF Inv, TypeOK, Placed, Steps, Holders, Knows, Guarded, Refreshing, Moves,
                        world, history
    <3> QED  BY <1>1, <2>2, <3>1, MovesFits DEF Refreshing
  <2> QED  BY <1>1, <2>1, <2>2 DEF Refreshing
<1>2. CASE Again
  <2>1. CASE Ends
    BY <1>0, <1>2, <2>1 DEF Again
  <2>2. CASE slot.login \in Logins /\ Goes("check", Finds(run))
    <3>1. /\ run' \in Runs /\ run'.fresh = NoLogin /\ run'.renews /\ ~run'.bare
          /\ run'.copy = NoName /\ run'.seen = slot /\ pc' = "check" /\ UNCHANGED locks
      BY <2>2, FindsIsRun, Nothing DEF Goes, Finds, NoRun, Inv
    <3>2. Placed
      BY <1>2, <2>2, <3>1, Nothing
         DEF Inv, TypeOK, Placed, Steps, Knows, Guarded, locks, Again, Moves, world, history
    <3> QED  BY <1>2, <3>1, <3>2, MovesFits DEF Again
  <2> QED  BY <1>2, <2>1, <2>2 DEF Again
<1>3. CASE Check
  <2>1. CASE LooksAgain \/ Ends
    BY <1>0, <1>3, <2>1 DEF Check
  <2>2. CASE slot = run.seen /\ Goes("reserve", run)
    <3>1. Placed
      BY <1>3, <2>2 DEF Inv, TypeOK, Placed, Steps, Knows, Guarded, locks, Check, Goes, Moves,
                        world, history
    <3> QED  BY <1>3, <2>2, <3>1, MovesFits DEF Check, Goes
  <2> QED  BY <1>3, <2>1, <2>2 DEF Check
<1> QED  BY <1>1, <1>2, <1>3

(* What is known of the run that is to send.                                 *)
LEMMA SendingFits ==
  ASSUME Inv, pc = "reserve", UNCHANGED <<doc, mine, slot>>,
         \E n \in Names \cup {NoName} :
           Goes("send", [run EXCEPT !.sent = run.seen.login, !.copy = n])
  PROVE  Placed /\ pc' = "send"
<1>1. run.seen.login \in Logins /\ run.renews
  BY DEF Inv, Knows
<1>2. /\ run' \in Runs /\ run'.renews = run.renews /\ run'.fresh = run.fresh
      /\ run'.bare = run.bare /\ run'.sent = run.seen.login
      /\ pc' = "send" /\ UNCHANGED locks
  BY <1>1 DEF Goes, Inv, TypeOK, Runs
<1>3. run.fresh \notin Logins /\ ~run.bare
  BY Nothing DEF Inv, Knows
<1> QED  BY <1>1, <1>2, <1>3 DEF Inv, TypeOK, Placed, Steps, Knows, Guarded, locks

(* The name of the copy written down, or none, and nothing sent yet.         *)
LEMMA ReservingFits ==
  ASSUME Inv, Reserve \/ ReserveNone \/ NothingSent PROVE Inv'
<1>1. CASE Reserve
  <2> DEFINE w == [sent |-> run.seen.login, copy |-> clock']
  <2>1. /\ clock' = clock + 1 /\ clock' \in Names
        /\ mem' = [mem EXCEPT !.renewing = @ \cup {w}] /\ index' = mem'
        /\ Goes("send", [run EXCEPT !.sent = run.seen.login, !.copy = clock'])
    BY <1>1, RefreshBounds DEF Reserve, Inv, TypeOK, Names, NoName
  <2>2. w \in Waiting /\ w.copy = clock'
    BY <1>1, <2>1 DEF Reserve, Inv, Knows, Waiting
  <2>3. mem' \in States /\ w \in mem'.renewing /\ mem.renewing \subseteq mem'.renewing
        /\ mem'.discarded = mem.discarded
    BY <2>1, <2>2 DEF Inv, TypeOK, States
  <2>4. Placed /\ pc' = "send" /\ run'.copy = clock'
    <3>1. Placed /\ pc' = "send"
      BY <1>1, <2>1, SendingFits DEF Reserve, world, history
    <3>2. run'.copy = clock'
      BY <2>1 DEF Goes, Inv, TypeOK, Runs
    <3> QED  BY <3>1, <3>2
  <2>5. TypeOK'
    BY <1>1, <2>1, <2>3, <2>4
       DEF Reserve, Inv, TypeOK, Placed, service, world, history, bounds
  <2>6. Named'
    <3>1. NamesAll(mem) /\ UNCHANGED vault
      BY <1>1 DEF Reserve, Inv, Named
    <3>2. NamesAll(mem)' /\ HasCopy(mem, run.copy)'
      BY <2>2, <2>3, <2>4, <3>1 DEF NamesAll, HasCopy
    <3> QED  BY <2>1, <3>2 DEF Named, NamesAll, HasCopy
  <2> QED  BY <2>4, <2>5, <2>6 DEF Inv, Placed
<1>2. CASE ReserveNone
  <2>1. run.copy = NoName /\ run \in Runs
    BY <1>2 DEF ReserveNone, Inv, Knows, TypeOK
  <2>2. run' = [run EXCEPT !.sent = run.seen.login, !.copy = NoName] /\ run'.copy = NoName
    BY <1>2, <2>1 DEF ReserveNone, Goes, Runs
  <2>3. Goes("send", [run EXCEPT !.sent = run.seen.login, !.copy = NoName])
    BY <1>2, <2>2 DEF ReserveNone, Goes
  <2>4. Placed /\ pc' = "send"
    BY <1>2, <2>3, SendingFits DEF ReserveNone, Moves, disk, world, history
  <2> QED  BY <1>2, <2>2, <2>4, MovesFits DEF ReserveNone
<1>3. CASE NothingSent
  <2>1. /\ Ends /\ Moves /\ pc # "idle"
        /\ NoFault \/ \E operation \in Operations : Fault(operation)
    BY <1>3, SomeFault DEF NothingSent
  <2> QED  BY <2>1, EndsFits, MovesFits DEF Moves, world
<1> QED  BY <1>1, <1>2, <1>3

(* The service answers, or does not.                                         *)
LEMMA AnswerFits ==
  ASSUME Inv, Answered \/ NotAnswered PROVE Inv'
<1>1. CASE Answered
  <2>1. /\ issued' \in Logins /\ run.sent \in Logins
        /\ answer' \in [Logins -> Logins \cup {NoLogin}]
    BY <1>1, AnswersTypes DEF Answered, Inv
  <2>2. /\ run' \in Runs /\ run'.fresh = issued' /\ run'.sent = run.sent
        /\ run'.renews = run.renews /\ run'.bare = run.bare /\ run'.copy = run.copy
        /\ pc' = "copy" /\ UNCHANGED locks
    BY <1>1, <2>1 DEF Answered, Goes, Inv, TypeOK, Runs
  <2>3. Placed
    BY <1>1, <2>1, <2>2
       DEF Answered, Inv, TypeOK, Placed, Steps, Knows, Guarded, locks, world
  <2>4. TypeOK'
    BY <1>1, <2>1, <2>3 DEF Answered, Inv, TypeOK, Placed, disk, world, bounds
  <2>5. Named'
    BY <1>1, <2>2 DEF Answered, Inv, Named, NamesAll, HasCopy, disk
  <2> QED  BY <2>3, <2>4, <2>5 DEF Inv, Placed
<1>2. CASE NotAnswered
  <2>1. /\ mine \subseteq mine' /\ mine' \subseteq Logins /\ lost' \subseteq mine'
        /\ issued' \in Logins /\ answer' \in [Logins -> Logins \cup {NoLogin}]
        /\ crashes' \in 0 .. MaxCrashes /\ faults' \in 0 .. MaxFaults
    <3>1. CASE NoFault /\ UNCHANGED <<service, history>>
      BY <3>1, FaultTypes DEF Inv, TypeOK, service, history
    <3>2. CASE /\ Fault("answer") /\ Answers(run.sent)
               /\ mine' = mine \cup {run.sent} /\ lost' = lost \cup {run.sent}
      BY <3>2, AnswersTypes, FaultTypes, SomeFault DEF Inv, TypeOK
    <3> QED  BY <1>2, <3>1, <3>2 DEF NotAnswered
  <2>2. Placed /\ pc' \in {"idle", "letGo"}
    <3>1. CASE run.copy = NoName
      BY <1>2, <3>1, EndsFits DEF NotAnswered, world
    <3>2. CASE run.copy # NoName
      <4>1. pc' = "letGo" /\ run' = run /\ UNCHANGED locks /\ run.copy \in Names
        BY <1>2, <3>2 DEF NotAnswered, Goes, Inv, TypeOK, Runs
      <4> QED  BY <1>2, <2>1, <4>1
                  DEF NotAnswered, Inv, TypeOK, Placed, Steps, Knows, Guarded, locks, world
    <3> QED  BY <3>1, <3>2
  <2>3. TypeOK'
    BY <1>2, <2>1, <2>2 DEF NotAnswered, Inv, TypeOK, Placed, disk, world
  <2>4. Named'
    BY <1>2, <2>2 DEF NotAnswered, Inv, Named, NamesAll, HasCopy, disk
  <2> QED  BY <2>2, <2>3, <2>4 DEF Inv, Placed
<1> QED  BY <1>1, <1>2

(* The answer copied under the name written down, and the write lock for it. *)
LEMMA CopyFits ==
  ASSUME Inv, Copy \/ SaveLocks PROVE Inv'
<1>1. CASE Copy
  <2>1. PICK copied \in BOOLEAN, landed \in BOOLEAN :
          /\ IF run.copy # NoName /\ copied /\ landed THEN NoFault
             ELSE IF run.copy # NoName THEN Fault("copy") /\ (landed => copied)
             ELSE NoFault /\ ~copied /\ ~landed
          /\ vault' = IF landed THEN [vault EXCEPT ![run.copy] = run.fresh] ELSE vault
          /\ Goes("saveLock", [run EXCEPT !.copied = copied, !.landed = landed])
    BY <1>1 DEF Copy
  <2>2. crashes' \in 0 .. MaxCrashes /\ faults' \in 0 .. MaxFaults
    BY <2>1, FaultTypes, SomeFault DEF Inv
  <2>3. /\ run' \in Runs /\ run'.fresh = run.fresh /\ run'.sent = run.sent
        /\ run'.renews = run.renews /\ run'.bare = run.bare
        /\ pc' = "saveLock" /\ UNCHANGED locks
    BY <2>1 DEF Goes, Inv, TypeOK, Runs
  <2>4. Placed
    BY <1>1, <2>3 DEF Copy, Inv, TypeOK, Placed, Steps, Knows, Guarded, locks, world, history
  <2>5. vault' \in [Names -> Logins \cup {NoLogin}]
    BY <1>1, <2>1 DEF Copy, Inv, TypeOK, Knows
  <2>6. TypeOK'
    BY <1>1, <2>2, <2>4, <2>5 DEF Copy, Inv, TypeOK, Placed, service, world, history
  <2>7. \A n \in Names : vault'[n] # vault[n] => n = run.copy /\ run.copy # NoName
    BY <2>1, Nothing DEF Inv, TypeOK
  <2>8. Named'
    BY <1>1, <2>3, <2>7 DEF Copy, Inv, Named, NamesAll, HasCopy
  <2> QED  BY <2>4, <2>6, <2>8 DEF Inv, Placed
<1>2. CASE SaveLocks
  <2>1. run.renews /\ run.fresh \in Logins
    BY <1>2 DEF SaveLocks, Inv, Knows
  <2>2. CASE /\ writeLock = "free" /\ NoFault
             /\ pc' = "save" /\ writeLock' = "pitboard" /\ UNCHANGED <<run, refreshLock>>
    <3>1. Placed
      BY <1>2, <2>2 DEF Inv, TypeOK, Placed, Steps, Holders, Knows, Guarded, SaveLocks, Moves,
                        world, history
    <3> QED  BY <1>2, <2>2, <3>1, MovesFits DEF SaveLocks
  <2>3. CASE /\ \/ writeLock = "session" /\ NoFault
                \/ Fault("lock")
             /\ Goes("save", [run EXCEPT !.bare = TRUE])
    <3>1. /\ run' \in Runs /\ run'.fresh = run.fresh /\ run'.sent = run.sent
          /\ run'.renews = run.renews /\ run'.bare
          /\ pc' = "save" /\ UNCHANGED locks
      BY <2>3 DEF Goes, Inv, TypeOK, Runs
    <3>2. Placed
      BY <1>2, <2>1, <3>1
         DEF SaveLocks, Inv, TypeOK, Placed, Steps, Knows, Guarded, locks, Moves, world, history
    <3> QED  BY <1>2, <2>3, <3>1, <3>2, MovesFits, SomeFault DEF SaveLocks
  <2> QED  BY <1>2, <2>2, <2>3 DEF SaveLocks
<1> QED  BY <1>1, <1>2

-----------------------------------------------------------------------------
(* Saving the answer                                                         *)

(* The document read, to be written with the answer in it.                   *)
LEMMA SaveReadsFits == ASSUME Inv, SaveReads PROVE Inv'
<1>1. CASE SavesOver /\ NoFault /\ Goes("write", [run EXCEPT !.now = slot])
  <2>1. /\ run' \in Runs /\ run'.fresh = run.fresh /\ run'.sent = run.sent
        /\ run'.renews = run.renews /\ run'.bare = run.bare /\ run'.now = slot
        /\ pc' = "write" /\ UNCHANGED locks
    <3>1. slot \in Docs
      BY <1>1, SlotIs, Nothing DEF SavesOver, Inv, TypeOK, Runs
    <3> QED  BY <1>1, <3>1 DEF Goes, Inv, TypeOK, Runs
  <2>2. Placed
    BY <1>1, <2>1 DEF SaveReads, SavesOver, Inv, TypeOK, Placed, Steps, Knows, Guarded, locks,
                      Moves, disk, world, history
  <2> QED  BY <1>1, <2>1, <2>2, MovesFits DEF SaveReads
<1>2. ASSUME NEW outcome \in {"changed", "failed"},
             Goes("saved", [run EXCEPT !.outcome = outcome]),
             NoFault \/ Fault("read")
      PROVE  Inv'
  <2>1. /\ run' \in Runs /\ run'.fresh = run.fresh /\ run'.sent = run.sent
        /\ run'.renews = run.renews /\ run'.bare = run.bare
        /\ pc' = "saved" /\ UNCHANGED locks
    BY <1>2 DEF Goes, Inv, TypeOK, Runs
  <2>2. Placed
    BY <2>1 DEF SaveReads, Inv, TypeOK, Placed, Steps, Knows, Guarded, locks, Moves, world,
                history
  <2> QED  BY <1>2, <2>1, <2>2, MovesFits, SomeFault DEF SaveReads
<1> QED  BY <1>1, <1>2 DEF SaveReads

(* What is written is a document.                                            *)
LEMMA RenewedIsDoc ==
  ASSUME Inv
  PROVE  Renewed \in Docs /\ Renewed.login = run.fresh /\ Renewed.rest = run.now.rest
<1>1. run.now \in Docs /\ run.fresh \in Logins \cup {NoLogin}
  BY DEF Inv, TypeOK, Runs
<1> QED  BY <1>1 DEF Renewed, Docs

(* The write, done or failed.                                                *)
LEMMA WriteFits == ASSUME Inv, Write \/ WriteFails PROVE Inv'
<1>1. crashes' \in 0 .. MaxCrashes /\ faults' \in 0 .. MaxFaults
  BY FaultTypes, SomeFault DEF Inv, Write, WriteFails
<1>2. /\ slot' \in Slots /\ pc = "write"
      /\ UNCHANGED <<vault, index, service, world, mem, clock, history>>
  BY RenewedIsDoc, SlotIs DEF Write, WriteFails, Inv, TypeOK
<1>3. /\ run' \in Runs /\ run'.fresh = run.fresh /\ run'.sent = run.sent
      /\ run'.renews = run.renews /\ run'.bare = run.bare /\ run'.now = run.now
      /\ UNCHANGED locks
  BY DEF Write, WriteFails, Goes, Inv, TypeOK, Runs
<1>4. \/ pc' = "saved"
      \/ /\ pc' = "write"
         /\ slot'.login \in {slot.login, Unread} /\ slot'.rest = slot.rest
  BY SlotIs DEF Write, WriteFails, Goes, Inv
<1>5. Placed
  BY <1>2, <1>3, <1>4 DEF Inv, TypeOK, Placed, Steps, Knows, Guarded, locks, world, history
<1>6. TypeOK'
  BY <1>1, <1>2, <1>5 DEF Inv, TypeOK, Placed, service, world, history
<1>7. Named'
  BY <1>2, <1>4 DEF Inv, Named, NamesAll, HasCopy
<1> QED  BY <1>5, <1>6, <1>7 DEF Inv, Placed

(* What came of it.                                                          *)
LEMMA SavedFits == ASSUME Inv, Saved PROVE Inv'
<1>1. lost' \subseteq mine /\ UNCHANGED mine
  <2>1. lost' \in {lost, lost \cup {run.sent}}
    BY DEF Saved, Loses, MayLose
  <2>2. lost' # lost => run.renews /\ run.fresh \in Logins
    BY DEF Saved, Loses, MayLose, Inv, Knows
  <2> QED  BY <2>1, <2>2 DEF Saved, Inv, TypeOK, Knows
<1>2. Placed /\ pc' \in {"idle", "again", "finish", "letGo"}
  <2>1. CASE Ends
    BY <2>1, EndsFits DEF Saved, world
  <2>2. CASE Waits
    BY <2>2, WaitsFits DEF Saved, world
  <2>3. CASE GoesOn
    BY <2>3, GoesOnFits DEF Saved, world
  <2>4. CASE /\ pc' = "letGo" /\ run' = run /\ run.copy # NoName
             /\ writeLock' = Released(writeLock)
             /\ refreshLock' \in {refreshLock, Released(refreshLock)}
    <3>1. run.copy \in Names
      BY <2>4 DEF Inv, TypeOK, Runs
    <3>2. /\ refreshLock' \in Holders /\ writeLock' \in Holders
          /\ writeLock' = "session" => writeLock = "session"
      BY <2>4, ReleasedTypes DEF Inv, TypeOK, Released
    <3> QED  BY <2>4, <3>1, <3>2 DEF Saved, Inv, TypeOK, Placed, Steps, Knows, Guarded, world
  <2> QED  BY <2>1, <2>2, <2>3, <2>4 DEF Saved, GoesFree
<1>3. TypeOK'
  BY <1>1, <1>2 DEF Saved, Inv, TypeOK, Placed, disk, service, world, bounds
<1>4. Named'
  BY <1>2 DEF Saved, Inv, Named, NamesAll, HasCopy, disk
<1> QED  BY <1>2, <1>3, <1>4 DEF Inv, Placed

-----------------------------------------------------------------------------
(* Letting go of a copy, and the run's beginning and end                     *)

(* Off one list and on the other, the copy is still named.                   *)
LEMMA ForgottenNames ==
  ASSUME NEW m \in States, NEW n \in Names, NamesAll(m) PROVE NamesAll(Forgotten(m, n))
  BY DEF NamesAll, HasCopy, Forgotten

(* The copy's name saved as one to delete, or not.                           *)
LEMMA LetGoFits == ASSUME Inv, LetGo PROVE Inv'
<1>1. run.copy \in Names /\ mem \in States /\ NamesAll(mem)
  BY DEF LetGo, Inv, Knows, TypeOK, Named
<1>2. mem' \in States /\ mem' = Forgotten(mem, run.copy) /\ NamesAll(Forgotten(mem, run.copy))
  BY <1>1, ForgottenIsState, ForgottenNames DEF LetGo
<1>3. index' \in {index, mem'} /\ crashes' \in 0 .. MaxCrashes /\ faults' \in 0 .. MaxFaults
  BY FaultTypes, SomeFault DEF LetGo, Inv
<1>4. Placed /\ pc' \in {"purge", "idle", "again", "finish"}
  <2>1. CASE Goes("purge", run)
    BY <2>1 DEF LetGo, Goes, Inv, TypeOK, Placed, Steps, Knows, Guarded, locks, world, history
  <2>2. CASE GoesOn
    BY <2>2, GoesOnFits DEF LetGo, world, history
  <2> QED  BY <2>1, <2>2 DEF LetGo
<1>5. TypeOK'
  BY <1>2, <1>3, <1>4 DEF LetGo, Inv, TypeOK, Placed, service, world, history
<1>6. Named'
  BY <1>2, <1>3, <1>4 DEF LetGo, Inv, Named, NamesAll, HasCopy
<1> QED  BY <1>4, <1>5, <1>6 DEF Inv, Placed

(* What is listed deleted, and that saved.                                   *)
LEMMA PurgeFits == ASSUME Inv, Purge \/ Purged PROVE Inv'
<1>1. CASE Purge
  <2>1. PICK kept \in SUBSET mem.discarded :
          /\ IF kept = {} THEN NoFault ELSE Fault("delete")
          /\ vault' = [n \in Names |-> IF n \in mem.discarded \ kept THEN NoLogin ELSE vault[n]]
          /\ mem' = [mem EXCEPT !.discarded = kept]
    BY <1>1 DEF Purge
  <2>2. crashes' \in 0 .. MaxCrashes /\ faults' \in 0 .. MaxFaults
    BY <2>1, FaultTypes, SomeFault DEF Inv
  <2>3. /\ mem' \in States /\ mem'.renewing = mem.renewing /\ mem'.discarded = kept
        /\ vault' \in [Names -> Logins \cup {NoLogin}]
    BY <2>1 DEF Inv, TypeOK, States
  <2>4. Placed /\ pc' = "purged"
    BY <1>1 DEF Purge, Goes, Inv, TypeOK, Placed, Steps, Knows, Guarded, locks, world, history
  <2>5. TypeOK'
    BY <1>1, <2>2, <2>3, <2>4 DEF Purge, Inv, TypeOK, Placed, service, world, history
  <2>6. \A n \in Names : vault'[n] # NoLogin =>
          vault[n] # NoLogin /\ (n \in mem.discarded => n \in kept)
    BY <2>1
  <2>7. Named'
    BY <1>1, <2>3, <2>4, <2>6 DEF Purge, Inv, Named, NamesAll, HasCopy
  <2> QED  BY <2>4, <2>5, <2>7 DEF Inv, Placed
<1>2. CASE Purged
  <2>1. index' \in {index, mem} /\ crashes' \in 0 .. MaxCrashes /\ faults' \in 0 .. MaxFaults
    BY <1>2, FaultTypes, SomeFault DEF Purged, Inv
  <2>2. Placed /\ pc' \in {"idle", "again", "finish"}
    BY <1>2, GoesOnFits DEF Purged, world, history
  <2>3. TypeOK'
    BY <1>2, <2>1, <2>2 DEF Purged, Inv, TypeOK, Placed, service, world, history
  <2>4. Named'
    BY <1>2, <2>1, <2>2 DEF Purged, Inv, Named, NamesAll, HasCopy
  <2> QED  BY <2>2, <2>3, <2>4 DEF Inv, Placed
<1> QED  BY <1>1, <1>2

(* A run reads the index it is to act on.                                    *)
LEMMA StartFits == ASSUME Inv, Start PROVE Inv'
<1>1. index.renewing \in SUBSET Waiting
  BY DEF Inv, TypeOK, States
<1>2. run' \in Runs /\ ~run'.renews /\ ~run'.bare /\ pc' = "finish" /\ UNCHANGED locks
  BY <1>1, NoRunIsRun DEF Start, Goes, Runs, NoRun
<1>3. Placed
  BY <1>2 DEF Start, Inv, TypeOK, Placed, Steps, Knows, Guarded, locks, world, history
<1>4. TypeOK'
  BY <1>3 DEF Start, Inv, TypeOK, Placed, disk, service, world, history, bounds
<1>5. Named'
  BY <1>2 DEF Start, Inv, Named, NamesAll, HasCopy, disk
<1> QED  BY <1>3, <1>4, <1>5 DEF Inv, Placed

(* A run dies, with what it had in mind.                                     *)
LEMMA CrashFits == ASSUME Inv, Crash PROVE Inv'
<1>1. lost' \subseteq mine
  BY DEF Crash, Loses, Inv, TypeOK, Knows
<1>2. pc' = "idle" /\ run' = NoRun /\ run'.renews = FALSE /\ run'.bare = FALSE
  BY DEF Crash, NoRun
<1>3. /\ refreshLock' \in Holders /\ writeLock' \in Holders
      /\ writeLock' = "session" => writeLock = "session"
  BY DEF Crash, Inv, TypeOK, Holders
<1>4. crashes' \in 0 .. MaxCrashes /\ UNCHANGED faults
  BY RefreshBounds DEF Crash, Inv, TypeOK
<1>5. Placed
  BY <1>2, <1>3, NoRunIsRun DEF Crash, Inv, TypeOK, Placed, Steps, Knows, Guarded, world
<1>8. slot' \in Slots
  BY SlotIs DEF Crash, Inv, TypeOK
<1>6. TypeOK'
  BY <1>1, <1>4, <1>5, <1>8 DEF Crash, Inv, TypeOK, Placed, service, world
<1>7. Named'
  BY <1>2 DEF Crash, Inv, Named, NamesAll, HasCopy
<1> QED  BY <1>5, <1>6, <1>7 DEF Inv, Placed

-----------------------------------------------------------------------------
(* The theorems                                                              *)

(* No step breaks the invariant.                                             *)
LEMMA StepFits == Inv /\ [Next]_vars => Inv'
<1> SUFFICES ASSUME Inv, [Next]_vars PROVE Inv'
  OBVIOUS
<1>1. CASE Process
  BY <1>1, LeftFits, LeftSaveFits, LooksFits, ReservingFits, AnswerFits, CopyFits,
     SaveReadsFits, WriteFits, SavedFits, LetGoFits, PurgeFits DEF Process
<1>2. CASE Start \/ Crash
  BY <1>2, StartFits, CrashFits
<1>3. CASE \/ SessionSends \/ SessionSaves \/ SessionReads \/ SessionWrites \/ SessionDies
           \/ Lapses \/ SignIn \/ LogOut
  BY <1>3, RenewalFits, WritingFits, DyingFits, SigningFits
<1>4. CASE UNCHANGED vars
  BY <1>4 DEF Inv, TypeOK, Knows, Named, NamesAll, HasCopy, Guarded, vars, disk, service,
              locks, world, process, history, bounds
<1> QED  BY <1>1, <1>2, <1>3, <1>4 DEF Next

(* The invariant holds, whatever the bounds and whatever fails.              *)
THEOREM InvHolds == Spec => []Inv
  BY InitFits, StepFits, PTL DEF Spec

(* Every variable keeps its type.                                            *)
THEOREM TypeCorrect == Spec => []TypeOK
<1>1. Inv => TypeOK
  BY DEF Inv
<1> QED  BY <1>1, InvHolds, PTL

(* A copy of an answer is never in the vault under a name no index has.      *)
THEOREM CopiesAreNamed == Spec => []CopyNamed
<1>1. Inv => CopyNamed
  BY DEF Inv, Named, NamesAll, HasCopy, CopyNamed
<1> QED  BY <1>1, InvHolds, PTL

(* A step at the write that changes the run is the write, or dies in it.     *)
LEMMA WritesOnly ==
  ASSUME Inv, [Next]_vars, pc = "write", slot' # slot, run' # run
  PROVE  slot' = Renewed \/ slot' \in CutShort
<1>1. CASE Write \/ WriteFails
  BY <1>1 DEF Write, WriteFails
<1>3. CASE Crash
  BY <1>3 DEF Crash
<1>4. CASE SessionDies
  BY <1>4 DEF SessionDies, process
<1>2. CASE SessionSaves \/ SessionWrites \/ SignIn \/ LogOut
  BY <1>2 DEF SessionSaves, SessionWrites, SignIn, LogOut, process
<1> QED
  BY <1>1, <1>2, <1>3, <1>4
     DEF Next, Process, Start, SessionSends, SessionReads, Lapses,
         NextLeft, Settled, Finished, Stopped, LeftRead, LeftLocks, Refreshing, Again, Check,
         Reserve, ReserveNone, NothingSent, Answered, NotAnswered, Copy, SaveLocks, SaveReads,
         Saved, LetGo, Purge, Purged, Moves, disk, vars

(* An answer is saved over the login sent and over nothing a session wrote.  *)
THEOREM OnlySentIsReplaced == Spec => SavesOverSent
<1>1. Inv /\ [Next]_vars =>
        [pc = "write" /\ slot' # slot /\ ~run.bare /\ run' # run
           => slot.login \in {run.sent, NoLogin, Unread} /\ slot.rest = slot'.rest]_vars
  <2> SUFFICES ASSUME Inv, [Next]_vars, pc = "write", slot' # slot, ~run.bare, run' # run
               PROVE  slot.login \in {run.sent, NoLogin, Unread} /\ slot.rest = slot'.rest
    OBVIOUS
  <2>1. slot' = Renewed \/ slot' \in CutShort
    BY WritesOnly
  <2>2. slot'.rest \in {slot.rest, run.now.rest}
    BY <2>1, RenewedIsDoc, SlotIs DEF Inv
  <2> QED  BY <2>2 DEF Inv, Guarded
<1> QED  BY <1>1, InvHolds, PTL DEF Spec, SavesOverSent

-----------------------------------------------------------------------------
(* The answers: KInv.                                                        *)

(* Neither in Claude Code's store nor in a session's hands to be written.    *)
Out(l) == slot.login # l /\ doc.login # l

(* Not yet in the store, nor read there, nor sent by Pitboard.               *)
Unseen(l) == l \notin mine /\ Out(l) /\ l # run.seen.login

(* The renewal a run is about.                                               *)
Own == [sent |-> run.sent, copy |-> run.copy]

(* The service gives each login once, after all it has given.                *)
Issue ==
  /\ \A l \in Logins : answer[l] # NoLogin => l < answer[l] /\ answer[l] <= issued
  /\ \A l \in mine : answer[l] # NoLogin
  /\ slot.login <= issued /\ doc.login <= issued /\ run.seen.login <= issued
  /\ run.sent <= issued /\ run.fresh <= issued
  /\ \A n \in Names : vault[n] <= issued
  /\ \A w \in index.renewing : w.sent <= issued

(* A session's answer is nowhere but in its hands until it is saved; and only *)
(* one that has the write lock has a document to write.                      *)
Sessions ==
  /\ sess.fresh # NoLogin =>
       /\ Unseen(sess.fresh) /\ sess.fresh # run.fresh /\ sess.fresh <= issued
       /\ \A n \in Names : vault[n] # sess.fresh
  /\ writeLock # "session" => doc.login = NoLogin

(* A copy's name is given once, to be saved from or to be deleted.           *)
Copies ==
  /\ mem.renewing \subseteq index.renewing
  /\ \A w \in index.renewing : w.copy <= clock /\ w.copy \notin index.discarded
  /\ \A v, w \in index.renewing : v.copy = w.copy => v = w
  /\ \A w \in mem.renewing : w.copy \notin mem.discarded
  /\ \A n \in Names :
       n \in index.discarded \cup mem.discarded \/ vault[n] # NoLogin => n <= clock

(* A copy is of the answer to the login it waits for, which Pitboard spent;  *)
(* and Pitboard spends the answer only once that login can come back no more. *)
Copied ==
  \A w \in index.renewing : vault[w.copy] # NoLogin =>
    /\ w.sent \in mine /\ vault[w.copy] = answer[w.sent]
    /\ vault[w.copy] \in mine => Out(w.sent)

(* The answer to a login is in the run's hands, or in a copy the index names. *)
Covered(l) ==
  \/ Carries(l)
  \/ \E w \in index.renewing : w.sent = l /\ vault[w.copy] = answer[l]

(* What is spent and in the store, or about to be written there again.       *)
Held == \A l \in {slot.login, doc.login} \cap (mine \ lost) : Covered(l)

(* A renewal the run has let go of, though the index saved names it yet.     *)
Idle(w) ==
  \/ vault[w.copy] = NoLogin
  \/ Out(w.sent)
  \/ run.renews /\ w.sent \in lost /\ Unseen(vault[w.copy]) /\ vault[w.copy] # run.fresh

Dropped == pc # "idle" => \A w \in index.renewing \ mem.renewing : Idle(w)

(* Of those left waiting the run has yet to look at the ones on its list,    *)
(* that in its hands apart; once it renews none is left but its own.         *)
AtLeft ==
  ~run.renews /\ pc \in {"left", "refreshLock", "leftLock", "save", "write", "saved", "letGo"}

ToDo ==
  /\ run.todo \subseteq mem.renewing /\ (run.renews => run.todo = {})
  /\ AtLeft => Own \in mem.renewing \ run.todo
  /\ AtLeft /\ run.strict => run.stuck \/ mem.renewing \subseteq run.todo \cup {Own}
  /\ ~run.renews /\ run.strict /\ pc \in {"finish", "purge", "purged"} =>
       run.stuck \/ mem.renewing \subseteq run.todo
  /\ run.renews /\ pc \in {"refreshLock", "again", "check", "reserve", "purge", "purged"} =>
       mem.renewing = {}
  /\ run.renews /\ pc \in {"send", "copy", "saveLock", "save", "write", "saved", "letGo"} =>
       mem.renewing = IF run.copy = NoName THEN {} ELSE {Own}
  /\ pc \in {"idle", "finish", "left", "leftLock"} => ~run.renews
  /\ pc \in {"again", "check", "reserve", "send", "copy", "saveLock"} => run.renews

(* What is sent has no answer kept, and its copy is not made before it.      *)
Sending ==
  /\ pc \in {"check", "reserve"} => run.seen.login \notin mine \ lost
  /\ pc \in {"left", "refreshLock", "again", "check", "reserve", "send", "copy"} =>
       run.outcome = "none" /\ ~run.landed
  /\ pc = "send" => run.sent = run.seen.login /\ run.fresh = NoLogin
  /\ pc \in {"send", "copy"} /\ run.copy # NoName => vault[run.copy] = NoLogin

(* The answer in the run's hands is nowhere else but in its copy.            *)
Hidden ==
  \/ pc \in {"copy", "saveLock", "save", "write"}
  \/ pc \in {"saved", "letGo"} /\ run.outcome = "changed"

(* The answer in the run's hands, and whether it is copied.                  *)
Carrying ==
  /\ run.renews /\ pc \in {"copy", "saveLock", "save", "write", "saved"} =>
       run.sent \in mine /\ run.fresh = answer[run.sent]
  /\ run.renews /\ pc \in {"saveLock", "save", "write", "saved"} =>
       /\ run.landed => run.copied /\ run.copy # NoName
       /\ run.copy # NoName => vault[run.copy] = IF run.landed THEN run.fresh ELSE NoLogin
  /\ AtLeft /\ pc \notin {"left", "letGo"} =>
       run.fresh = vault[run.copy] /\ run.fresh # NoLogin
  /\ run.renews /\ Hidden => Unseen(run.fresh)
  /\ pc = "write" => run.fresh \notin mine

(* What the save leaves: the login sent is out of the store for good, unless *)
(* it was saved with no write lock, or failed.                               *)
Left ==
  /\ pc = "saved" => run.outcome # "none"
  /\ pc = "saved" /\ run.outcome # "failed" /\ ~run.bare =>
       slot.login # run.sent /\ writeLock = "pitboard"
  /\ pc = "letGo" =>
       \/ vault[run.copy] = NoLogin
       \/ Out(run.sent)
       \/ run.renews /\ run.sent \in lost
  /\ pc = "letGo" /\ run.renews /\ run.outcome = "changed" =>
       run.sent \in mine /\ run.fresh = answer[run.sent]

KInv == /\ Issue /\ Sessions /\ Copies /\ Copied /\ Held /\ Dropped /\ ToDo
        /\ Sending /\ Carrying /\ Left

-----------------------------------------------------------------------------
(* What the invariants say of numbers                                        *)

(* Every login the model speaks of is a number, and 0 is none.               *)
LEMMA AreNumbers ==
  ASSUME TypeOK
  PROVE  /\ NoLogin = 0 /\ NoName = 0 /\ NoLogin \notin Logins /\ NoName \notin Names
         /\ Logins \subseteq Nat /\ Names \subseteq Nat /\ mine \subseteq Logins
         /\ issued \in Logins /\ issued \in Nat /\ clock \in Nat
         /\ Unread = -1 /\ Unread \notin Logins
         /\ slot.login \in Logins \cup {0, Unread} /\ doc.login \in Logins \cup {0}
         /\ run.seen.login \in Logins \cup {0} /\ run.sent \in Logins \cup {0}
         /\ run.fresh \in Logins \cup {0} /\ run.copy \in Names \cup {0}
         /\ sess.fresh \in Logins \cup {0}
         /\ \A l \in Logins : answer[l] \in Logins \cup {0}
         /\ \A n \in Names : vault[n] \in Logins \cup {0}
         /\ \A w \in index.renewing \cup mem.renewing : w.sent \in Logins /\ w.copy \in Names
  BY RefreshBounds, Nothing
     DEF TypeOK, Runs, Docs, Slots, States, Waiting, NoLogin, NoName, Unread, Logins, Names

(* Pitboard has spent no login the service has yet to give.                  *)
LEMMA SpentIsIssued ==
  ASSUME TypeOK, Issue, NEW l \in mine PROVE l \in Logins /\ l < issued
  BY AreNumbers DEF Issue

-----------------------------------------------------------------------------
(* The world: what it brings into the store or into a session's hands is     *)
(* nothing Pitboard spent that was not there.                                *)

(* What a step of the world has to show.                                     *)
Foreign ==
  /\ UNCHANGED <<vault, index, pc, mem, run, clock, mine, lost>>
  /\ \A l \in mine : Out(l) => Out(l)'
  /\ \A l \in 1 .. issued : Unseen(l) /\ l # sess.fresh => Unseen(l)'
  /\ \A l \in mine : answer'[l] = answer[l]
  /\ writeLock = "pitboard" =>
       writeLock' = "pitboard" /\ slot'.login \in {slot.login, NoLogin, Unread}
  /\ Issue' /\ Sessions'

(* Such a step keeps the invariant.                                          *)
LEMMA ForeignKeeps == ASSUME Inv, KInv, Foreign PROVE KInv'
<1> USE AreNumbers DEF Inv
<1>1. Copies'
  BY DEF KInv, Copies, Foreign
<1>2. Copied'
  BY DEF KInv, Copied, Foreign
<1>3. Held'
  <2> SUFFICES ASSUME NEW l \in {slot'.login, doc'.login}, l \in mine, l \notin lost
               PROVE  Covered(l)'
    BY DEF Held, Foreign
  <2>1. l \in {slot.login, doc.login}
    BY DEF Foreign, Out
  <2>2. Covered(l)
    BY <2>1 DEF KInv, Held
  <2> QED  BY <2>2 DEF Covered, Carries, Foreign
<1>4. Dropped'
  <2> SUFFICES ASSUME pc # "idle", NEW w \in index.renewing \ mem.renewing PROVE Idle(w)'
    BY DEF Dropped, Foreign
  <2>1. Idle(w) /\ w.copy \in Names /\ vault[w.copy] \in Logins \cup {0}
    BY DEF KInv, Dropped
  <2>2. CASE vault[w.copy] = NoLogin
    BY <2>2 DEF Idle, Foreign
  <2>3. CASE vault[w.copy] # NoLogin
    <3>1. w.sent \in mine /\ vault[w.copy] \in 1 .. issued
      BY <2>1, <2>3 DEF KInv, Copied, Issue
    <3>2. vault[w.copy] # sess.fresh
      BY <2>1, <2>3 DEF KInv, Sessions
    <3> QED  BY <2>1, <3>1, <3>2 DEF Idle, Foreign
  <2> QED  BY <2>2, <2>3
<1>5. ToDo'
  BY DEF KInv, ToDo, AtLeft, Own, Foreign
<1>6. Sending'
  BY DEF KInv, Sending, Foreign
<1>7. Carrying'
  <2>1. ASSUME run.renews, Hidden PROVE Unseen(run.fresh)'
    <3>1. run.sent \in mine /\ run.fresh = answer[run.sent] /\ Unseen(run.fresh)
      BY <2>1 DEF KInv, Carrying, Left, Hidden
    <3>2. run.fresh \in 1 .. issued /\ run.fresh # sess.fresh
      BY <3>1 DEF KInv, Issue, Sessions
    <3> QED  BY <3>1, <3>2 DEF Foreign, Unseen, Out
  <2> QED  BY <2>1 DEF KInv, Carrying, AtLeft, Hidden, Foreign
<1>8. Left'
  <2>1. pc = "letGo" => vault[run.copy] = NoLogin \/ run.sent \in mine
    <3>1. pc = "letGo" => Own \in index.renewing /\ run.copy \in Names
      BY DEF KInv, ToDo, AtLeft, Copies, Knows
    <3> QED  BY <3>1 DEF KInv, Copied, Own
  <2>2. pc = "saved" => run.sent \in Logins
    BY DEF KInv, ToDo, AtLeft, Own, Carrying
  <2>3. pc = "letGo" /\ run.renews /\ run.outcome = "changed" =>
          run.sent \in mine /\ run.fresh = answer'[run.sent]
    BY DEF KInv, Left, Foreign
  <2>4. pc = "saved" /\ run.outcome # "failed" /\ ~run.bare =>
          slot'.login # run.sent /\ writeLock' = "pitboard"
    BY <2>2 DEF KInv, Left, Foreign
  <2> QED  BY <2>1, <2>3, <2>4 DEF KInv, Left, Foreign
<1> QED  BY <1>1, <1>2, <1>3, <1>4, <1>5, <1>6, <1>7, <1>8 DEF KInv, Foreign

(* A session's renewal: the answer is new, and saved over the login it sent. *)
LEMMA SessionRenews == ASSUME Inv, KInv, SessionSends \/ SessionSaves PROVE KInv'
<1> USE AreNumbers DEF Inv
<1>1. CASE SessionSends
  <2>1. /\ UNCHANGED <<slot, doc, writeLock, vault, index, pc, mem, run, clock, mine, lost>>
        /\ Answers(slot.login) /\ sess'.fresh = issued' /\ issued' = issued + 1
        /\ answer' = [answer EXCEPT ![slot.login] = issued + 1]
        /\ answer[slot.login] = NoLogin /\ slot.login \in Logins
    BY <1>1, AnswersTypes DEF SessionSends, Answers, disk, process, history
  <2>2. slot.login \notin mine
    BY <2>1 DEF KInv, Issue
  <2>3. \A l \in Logins : answer'[l] = IF l = slot.login THEN issued + 1 ELSE answer[l]
    BY <2>1 DEF TypeOK
  <2>4. Issue'
    BY <2>1, <2>2, <2>3 DEF KInv, Issue
  <2>5. Sessions'
    <3>1. issued + 1 \notin mine
      BY SpentIsIssued DEF KInv
    <3> QED  BY <2>1, <3>1 DEF KInv, Sessions, Issue, Unseen, Out
  <2>6. Foreign
    BY <2>1, <2>2, <2>3, <2>4, <2>5 DEF Foreign, Out, Unseen
  <2> QED  BY <2>6, ForeignKeeps
<1>2. CASE SessionSaves
  <2>1. /\ UNCHANGED <<doc, writeLock, vault, index, pc, mem, run, clock, mine, lost>>
        /\ UNCHANGED <<answer, issued>> /\ writeLock = "free" /\ sess'.fresh = NoLogin
        /\ slot'.login \in {slot.login, sess.fresh}
    BY <1>2 DEF SessionSaves, service, process, history, NoRenewal, TypeOK, Slots
  <2>2. sess.fresh <= issued /\ sess.fresh \notin mine
    BY DEF KInv, Sessions, Unseen
  <2>3. Issue' /\ Sessions'
    BY <2>1, <2>2 DEF KInv, Issue, Sessions
  <2>4. Foreign
    BY <2>1, <2>2, <2>3 DEF Foreign, Out, Unseen
  <2> QED  BY <2>4, ForeignKeeps
<1> QED  BY <1>1, <1>2

(* A session's write, of the document it read under the write lock.          *)
LEMMA SessionRewrites == ASSUME Inv, KInv, SessionReads \/ SessionWrites PROVE KInv'
<1> USE AreNumbers DEF Inv
<1>1. CASE SessionReads
  <2>1. /\ UNCHANGED <<slot, sess, vault, index, pc, mem, run, clock, mine, lost>>
        /\ UNCHANGED <<answer, issued>> /\ writeLock = "free" /\ writeLock' = "session"
        /\ doc' = slot
    BY <1>1 DEF SessionReads, disk, service, process, history
  <2>2. Issue' /\ Sessions'
    BY <2>1 DEF KInv, Issue, Sessions, Unseen, Out
  <2>3. Foreign
    BY <2>1, <2>2 DEF Foreign, Out, Unseen
  <2> QED  BY <2>3, ForeignKeeps
<1>2. CASE SessionWrites
  <2>1. /\ UNCHANGED <<sess, vault, index, pc, mem, run, clock, mine, lost>>
        /\ UNCHANGED <<answer, issued>> /\ writeLock = "session"
        /\ slot'.login = doc.login /\ doc'.login = NoLogin
    BY <1>2 DEF SessionWrites, service, process, history, NoDoc, TypeOK, Docs
  <2>2. Issue' /\ Sessions'
    BY <2>1 DEF KInv, Issue, Sessions, Unseen, Out
  <2>3. Foreign
    BY <2>1, <2>2 DEF Foreign, Out, Unseen
  <2> QED  BY <2>3, ForeignKeeps
<1> QED  BY <1>1, <1>2

(* A session dies, and what it held goes stale.                              *)
LEMMA SessionGoes == ASSUME Inv, KInv, SessionDies \/ Lapses PROVE KInv'
<1> USE AreNumbers DEF Inv
<1>1. CASE SessionDies
  <2>1. /\ UNCHANGED <<vault, index, pc, mem, run, clock, mine, lost>>
        /\ slot' = slot \/ slot'.login = Unread
        /\ UNCHANGED <<answer, issued>>
        /\ \/ doc' = doc /\ writeLock' = writeLock /\ sess'.fresh = NoLogin
           \/ sess' = sess /\ doc'.login = NoLogin /\ writeLock = "session"
    BY <1>1, SlotIs DEF SessionDies, service, process, history, NoDoc, NoRenewal
  <2>2. Issue' /\ Sessions'
    BY <2>1 DEF KInv, Issue, Sessions, Unseen, Out
  <2>3. Foreign
    BY <2>1, <2>2 DEF Foreign, Out, Unseen
  <2> QED  BY <2>3, ForeignKeeps
<1>2. CASE Lapses
  <2>1. /\ UNCHANGED <<slot, doc, sess, vault, index, pc, mem, run, clock, mine, lost>>
        /\ UNCHANGED <<answer, issued>>
        /\ writeLock' = writeLock \/ (writeLock = "dead" /\ writeLock' = "free")
    BY <1>2 DEF Lapses, disk, service, world, process, history
  <2>2. Issue' /\ Sessions'
    BY <2>1 DEF KInv, Issue, Sessions, Unseen, Out
  <2>3. Foreign
    BY <2>1, <2>2 DEF Foreign, Out, Unseen
  <2> QED  BY <2>3, ForeignKeeps
<1> QED  BY <1>1, <1>2

(* A sign-in brings a login nobody has seen, a sign-out none.                *)
LEMMA SigningKeeps == ASSUME Inv, KInv, SignIn \/ LogOut PROVE KInv'
<1> USE AreNumbers DEF Inv
<1>1. CASE SignIn
  <2>1. /\ UNCHANGED <<doc, sess, writeLock, vault, index, pc, mem, run, clock, mine, lost>>
        /\ UNCHANGED answer /\ issued' = issued + 1 /\ writeLock = "free"
        /\ slot'.login = issued + 1
    BY <1>1 DEF SignIn, locks, process, history, TypeOK, Slots
  <2>2. issued + 1 \notin mine
    BY SpentIsIssued DEF KInv
  <2>3. Issue'
    BY <2>1 DEF KInv, Issue
  <2>4. Sessions'
    BY <2>1 DEF KInv, Sessions, Unseen, Out
  <2>5. Foreign
    BY <2>1, <2>2, <2>3, <2>4 DEF Foreign, Out, Unseen
  <2> QED  BY <2>5, ForeignKeeps
<1>2. CASE LogOut
  <2>1. /\ UNCHANGED <<doc, sess, writeLock, vault, index, pc, mem, run, clock, mine, lost>>
        /\ UNCHANGED <<answer, issued>> /\ slot'.login = NoLogin
    BY <1>2 DEF LogOut, service, locks, process, history, TypeOK, Slots
  <2>2. Issue' /\ Sessions'
    BY <2>1 DEF KInv, Issue, Sessions, Unseen, Out
  <2>3. Foreign
    BY <2>1, <2>2 DEF Foreign, Out, Unseen
  <2> QED  BY <2>3, ForeignKeeps
<1> QED  BY <1>1, <1>2

-----------------------------------------------------------------------------
(* Steps of the process that write nothing                                   *)

(* What the answers a run gives up are, and those it does not, remain.       *)
Handed ==
  \A l \in {slot.login, doc.login} \cap (mine \ lost') : Carries(l) =>
    Carries(l)' \/ \E w \in index'.renewing : w.sent = l /\ vault[w.copy] = answer[l]

(* What becomes of the index in mind: what is let go of covers no answer by  *)
(* then, and is idle if the run goes on and the saved index names it yet.    *)
Forgets ==
  /\ mem'.renewing \subseteq mem.renewing /\ Copies'
  /\ \A w \in mem.renewing \ mem'.renewing :
       /\ vault[w.copy] = NoLogin \/ Out(w.sent) \/ w.sent \in lost'
       /\ pc' # "idle" /\ index' = index => Idle(w)'

(* What such a step has to show.                                             *)
Stays ==
  /\ slot'.login \in {slot.login, Unread}
  /\ UNCHANGED <<vault, service, world, clock, mine>>
  /\ UNCHANGED mem \/ Forgets
  /\ index' \in {index, mem'}
  /\ lost \subseteq lost' /\ Handed
  /\ writeLock = "session" => writeLock' = "session"
  /\ run'.seen.login \in {run.seen.login, slot.login, NoLogin}
  /\ run'.sent <= issued
  /\ run'.fresh \in {run.fresh, NoLogin} \cup {vault[n] : n \in Names}
  /\ run'.renews => run'.fresh \in {run.fresh, NoLogin}
  /\ run.renews /\ pc' # "idle" => run'.renews
  /\ ToDo' /\ Sending' /\ Carrying' /\ Left'

(* Such a step keeps the invariant.                                          *)
LEMMA StaysKeeps == ASSUME Inv, KInv, pc # "idle", Stays PROVE KInv'
<1> USE AreNumbers DEF Inv
<1>0. /\ UNCHANGED <<vault, answer, issued, sess, doc, clock, mine>>
      /\ slot'.login \in {slot.login, Unread}
      /\ \A l \in Logins \cup {0} : Out(l) => Out(l)'
  BY DEF Stays, service, world, Out
<1>01. index'.renewing \subseteq index.renewing
  BY DEF Stays, Forgets, KInv, Copies
<1>1. Issue'
  <2>1. run'.seen.login <= issued /\ run'.sent <= issued /\ run'.fresh <= issued
    BY DEF KInv, Issue, Stays
  <2> QED  BY <1>0, <1>01, <2>1 DEF KInv, Issue
<1>2. Sessions'
  BY <1>0 DEF KInv, Sessions, Unseen, Out, Stays
<1>3. Copies'
  <2>1. CASE UNCHANGED mem
    BY <1>0, <2>1 DEF KInv, Copies, Stays
  <2> QED  BY <2>1 DEF Stays, Forgets
<1>4. Copied'
  BY <1>0, <1>01 DEF KInv, Copied, Out
<1>5. Held'
  <2> SUFFICES ASSUME NEW l \in {slot.login, doc.login}, l \in mine, l \notin lost'
               PROVE  Covered(l)'
    BY <1>0 DEF Held
  <2>1. l \notin lost
    BY DEF Stays
  <2>2. CASE Carries(l)
    BY <1>0, <2>1, <2>2 DEF Covered, Stays, Handed
  <2>3. CASE ~Carries(l)
    <3>1. PICK w \in index.renewing : w.sent = l /\ vault[w.copy] = answer[l]
      BY <2>1, <2>3 DEF KInv, Held, Covered
    <3>2. vault[w.copy] # NoLogin /\ ~Out(w.sent) /\ w.sent \notin lost
      BY <2>1, <3>1 DEF KInv, Issue, Out
    <3>3. w \in mem.renewing \/ index' = index
      BY <3>2 DEF KInv, Dropped, Idle, Stays
    <3>4. w \in index'.renewing
      BY <3>1, <3>2, <3>3 DEF Stays, Forgets
    <3> QED  BY <1>0, <3>1, <3>4 DEF Covered
  <2> QED  BY <2>2, <2>3
<1>6. Dropped'
  <2> SUFFICES ASSUME pc' # "idle", NEW w \in index'.renewing \ mem'.renewing PROVE Idle(w)'
    BY DEF Dropped
  <2>1. w \in index.renewing /\ index' = index
    BY <1>01 DEF Stays
  <2>2. CASE w \in mem.renewing
    BY <2>1, <2>2 DEF Stays, Forgets
  <2>3. CASE w \notin mem.renewing
    <3>1. Idle(w)
      BY <2>1, <2>3 DEF KInv, Dropped
    <3> QED  BY <1>0, <3>1 DEF Idle, Out, Unseen, Stays
  <2> QED  BY <2>2, <2>3
<1> QED  BY <1>1, <1>2, <1>3, <1>4, <1>5, <1>6 DEF KInv, Stays

(* A run that ends leaves nothing but what is saved.                         *)
LEMMA EndKeeps ==
  ASSUME Inv, KInv, pc # "idle", pc' = "idle", run' = NoRun,
         slot'.login \in {slot.login, Unread}, UNCHANGED <<vault, service, world, clock, mine>>,
         UNCHANGED mem \/ Forgets, index' \in {index, mem'},
         lost \subseteq lost', Handed, writeLock = "session" => writeLock' = "session"
  PROVE  KInv'
<1> USE AreNumbers DEF Inv
<1>1. /\ run'.seen.login = NoLogin /\ run'.sent = NoLogin /\ run'.fresh = NoLogin
      /\ ~run'.renews /\ run'.todo = {}
  BY DEF NoRun, NoDoc
<1>2. ToDo' /\ Sending' /\ Carrying' /\ Left'
  BY <1>1 DEF ToDo, AtLeft, Sending, Carrying, Left
<1>3. Stays
  BY <1>1, <1>2 DEF Stays
<1> QED  BY <1>3, StaysKeeps

(* Letting go of a lock gives it to no session.                              *)
LEMMA ReleasedIs == Released(writeLock) = "session" <=> writeLock = "session"
  BY DEF Released

(* Only from the answer to the end of its save does a run carry one.         *)
LEMMA NothingInHand ==
  ASSUME ~run.renews \/ pc \notin {"copy", "saveLock", "save", "write", "saved"}
  PROVE  Handed
  BY DEF Handed, Carries

(* A step that ends the run, or moves it, where it has no answer in hand.    *)
LEMMA EndsKeep ==
  ASSUME Inv, KInv, pc # "idle", Ends, Moves,
         ~run.renews \/ pc \notin {"copy", "saveLock", "save", "write", "saved"}
  PROVE  KInv'
<1>1. pc' = "idle" /\ run' = NoRun /\ (writeLock = "session" => writeLock' = "session")
  BY ReleasedIs DEF Ends, GoesFree
<1> QED  BY <1>1, EndKeeps, NothingInHand DEF Moves, disk, history

(* A renewal left waiting that waits on keeps the run from renewing.         *)
LEMMA WaitsKeeps ==
  ASSUME Inv, KInv, AtLeft, Waits,
         UNCHANGED <<slot, vault, index, service, world, mem, clock, mine>>, lost \subseteq lost'
  PROVE  KInv'
<1> USE AreNumbers DEF Inv
<1>1. /\ pc' = "finish" /\ run' = [run EXCEPT !.stuck = TRUE]
      /\ writeLock = "session" => writeLock' = "session"
  BY ReleasedIs DEF Waits, GoesFree
<1>2. /\ run'.stuck /\ run'.todo = run.todo /\ run'.renews = run.renews
      /\ run'.seen = run.seen /\ run'.sent = run.sent /\ run'.fresh = run.fresh
  BY <1>1 DEF TypeOK, Runs
<1>3. ToDo' /\ Sending' /\ Carrying' /\ Left'
  BY <1>1, <1>2 DEF KInv, ToDo, AtLeft, Sending, Carrying, Left, Hidden
<1>4. Stays
  <2>1. run'.sent <= issued /\ Handed
    BY <1>2, NothingInHand DEF KInv, Issue, AtLeft
  <2> QED  BY <1>1, <1>2, <1>3, <2>1 DEF Stays, AtLeft
<1> QED  BY <1>4, StaysKeeps DEF AtLeft

(* Looking at what was left.                                                 *)
LEMMA LeftKeeps ==
  ASSUME Inv, KInv, NextLeft \/ Settled \/ Finished \/ Stopped PROVE KInv'
<1> USE AreNumbers DEF Inv
<1>0. /\ pc = "finish" /\ ~run.renews /\ Moves
      /\ UNCHANGED <<slot, vault, index, service, world, mem, clock, mine, lost>>
  BY DEF KInv, ToDo, NextLeft, Settled, Finished, Stopped, Moves, disk, history
<1>1. CASE NextLeft
  <2>1. PICK w \in run.todo :
          Goes("left", [NoRun EXCEPT !.strict = run.strict, !.todo = run.todo \ {w},
                                     !.stuck = run.stuck, !.sent = w.sent, !.copy = w.copy])
    BY <1>1 DEF NextLeft
  <2>2. /\ pc' = "left" /\ UNCHANGED locks /\ ~run'.renews /\ run'.outcome = "none"
        /\ ~run'.landed
        /\ run'.strict = run.strict /\ run'.stuck = run.stuck /\ run'.todo = run.todo \ {w}
        /\ run'.sent = w.sent /\ run'.copy = w.copy
        /\ run'.seen.login = NoLogin /\ run'.fresh = NoLogin
    BY <2>1 DEF Goes, NoRun, NoDoc
  <2>3. w \in mem.renewing /\ w \in index.renewing /\ w.sent \in 1 .. issued
    <3>1. w \in mem.renewing /\ w \in index.renewing
      BY DEF KInv, ToDo, Copies
    <3> QED  BY <3>1 DEF KInv, Issue, Logins
  <2>4. Own' = w
    BY <2>2, <2>3 DEF Own, TypeOK, States, Waiting
  <2>5. ToDo'
    BY <1>0, <2>2, <2>3, <2>4 DEF KInv, ToDo, AtLeft
  <2>6. Sending' /\ Carrying' /\ Left'
    BY <2>2 DEF Sending, Carrying, AtLeft, Left
  <2>7. Stays
    BY <1>0, <2>2, <2>3, <2>5, <2>6, NothingInHand DEF Stays, locks
  <2> QED  BY <1>0, <2>7, StaysKeeps
<1>2. CASE Settled
  <2>1. /\ pc' = "purge" /\ UNCHANGED locks /\ ~run'.renews /\ run'.outcome = "none"
        /\ run'.todo = mem.renewing
        /\ run'.sent = NoLogin /\ run'.seen.login = NoLogin /\ run'.fresh = NoLogin
    BY <1>2 DEF Settled, Goes, NoRun, NoDoc
  <2>2. ToDo' /\ Sending' /\ Carrying' /\ Left'
    BY <1>0, <2>1 DEF ToDo, AtLeft, Sending, Carrying, Left
  <2>3. Stays
    BY <1>0, <2>1, <2>2, NothingInHand DEF Stays, locks
  <2> QED  BY <1>0, <2>3, StaysKeeps
<1>3. CASE Ends
  BY <1>0, <1>3, EndsKeep
<1>4. CASE Finished /\ Goes("refreshLock", Finds(run))
  <2>1. /\ pc' = "refreshLock" /\ UNCHANGED locks /\ run'.renews /\ run'.outcome = "none"
        /\ ~run'.landed
        /\ run'.todo = {} /\ run'.seen = slot
        /\ run'.sent = NoLogin /\ run'.fresh = NoLogin
    BY <1>4 DEF Goes, Finds, NoRun
  <2>2. mem.renewing = {}
    BY <1>4 DEF Finished, KInv, ToDo
  <2>3. ToDo' /\ Sending' /\ Carrying' /\ Left'
    BY <1>0, <2>1, <2>2 DEF ToDo, AtLeft, Sending, Carrying, Hidden, Left
  <2>4. Stays
    BY <1>0, <2>1, <2>3, NothingInHand DEF Stays, locks
  <2> QED  BY <1>0, <2>4, StaysKeeps
<1> QED  BY <1>1, <1>2, <1>3, <1>4 DEF Finished, Stopped

(* Reading the copy of one, and the write lock to save it.                   *)
LEMMA LeftSaveKeeps == ASSUME Inv, KInv, LeftRead \/ LeftLocks PROVE KInv'
<1> USE AreNumbers DEF Inv
<1>0. /\ AtLeft /\ pc \in {"left", "leftLock"} /\ Moves /\ pc # "idle"
      /\ UNCHANGED <<slot, vault, index, service, world, mem, clock, mine, lost>>
  BY DEF LeftRead, LeftLocks, KInv, ToDo, AtLeft, Moves, disk, history
<1>1. CASE Waits
  BY <1>0, <1>1, WaitsKeeps
<1>2. CASE LeftRead /\ ~Waits
  <2>1. Goes(IF vault[run.copy] = NoLogin THEN "letGo" ELSE "refreshLock",
             [run EXCEPT !.fresh = vault[run.copy]])
    BY <1>2 DEF LeftRead
  <2>2. /\ UNCHANGED locks /\ pc' = IF vault[run.copy] = NoLogin THEN "letGo" ELSE "refreshLock"
        /\ run' = [run EXCEPT !.fresh = vault[run.copy]] /\ run.copy \in Names
    BY <1>2, <2>1 DEF Goes, Knows, LeftRead
  <2>3. /\ run'.renews = run.renews /\ run'.todo = run.todo /\ run'.stuck = run.stuck
        /\ run'.strict = run.strict /\ run'.sent = run.sent /\ run'.copy = run.copy
        /\ run'.seen = run.seen /\ run'.outcome = run.outcome /\ run'.landed = run.landed
        /\ run'.fresh = vault[run.copy]
    BY <2>2 DEF TypeOK, Runs
  <2>4. ToDo'
    BY <1>0, <2>2, <2>3 DEF KInv, ToDo, AtLeft, Own
  <2>5. Sending' /\ Carrying' /\ Left'
    BY <1>0, <1>2, <2>2, <2>3
       DEF KInv, LeftRead, Sending, Carrying, AtLeft, Hidden, Left
  <2>6. Stays
    <3>1. run'.sent <= issued /\ Handed
      BY <1>0, <2>3, NothingInHand DEF KInv, Issue
    <3> QED  BY <1>0, <2>2, <2>3, <2>4, <2>5, <3>1 DEF Stays, AtLeft, locks
  <2> QED  BY <1>0, <2>6, StaysKeeps
<1>3. CASE LeftLocks /\ ~Waits
  <2>1. /\ pc = "leftLock" /\ pc' = "save" /\ run' = run
        /\ writeLock = "free" /\ writeLock' = "pitboard"
    BY <1>3 DEF LeftLocks
  <2>2. ToDo' /\ Sending' /\ Carrying' /\ Left'
    BY <1>0, <2>1 DEF KInv, ToDo, AtLeft, Own, Sending, Carrying, Hidden, Left
  <2>3. Stays
    <3>1. run'.sent <= issued /\ Handed
      BY <1>0, <2>1, NothingInHand DEF KInv, Issue
    <3> QED  BY <1>0, <2>1, <2>2, <3>1 DEF Stays
  <2> QED  BY <1>0, <2>3, StaysKeeps
<1> QED  BY <1>1, <1>2, <1>3

-----------------------------------------------------------------------------
(* Renewing                                                                  *)

(* The second look begins as the first did, or the run ends.                 *)
LEMMA LooksAgainKeeps ==
  ASSUME Inv, KInv, pc # "idle", LooksAgain, run.renews,
         UNCHANGED <<slot, vault, service, world, clock, mine>>,
         UNCHANGED mem \/ Forgets, index' \in {index, mem'}, mem'.renewing = {},
         lost \subseteq lost', Handed
  PROVE  KInv'
<1> USE AreNumbers DEF Inv
<1>1. CASE Ends
  <2>1. pc' = "idle" /\ run' = NoRun /\ (writeLock = "session" => writeLock' = "session")
    BY <1>1, ReleasedIs DEF Ends, GoesFree
  <2> QED  BY <2>1, EndKeeps
<1>2. CASE ~Ends
  <2>1. /\ pc' = "again" /\ run' = [NoRun EXCEPT !.renews = TRUE, !.seen = run.seen, !.second = TRUE]
        /\ writeLock' = Released(writeLock)
    BY <1>2, LookIsRun DEF LooksAgain
  <2>2. /\ NoRun.fresh = NoLogin /\ NoRun.sent = NoLogin
        /\ NoRun.todo = {} /\ NoRun.outcome = "none" /\ ~NoRun.landed
        /\ NoRun \in Runs
    BY NoRunIsRun DEF NoRun
  <2>3. /\ run'.renews /\ run'.outcome = "none" /\ run'.todo = {} /\ run'.seen = run.seen
        /\ ~run'.landed
        /\ run'.sent = NoLogin /\ run'.fresh = NoLogin
    BY <2>1, <2>2 DEF Runs
  <2>4. ToDo' /\ Sending' /\ Carrying' /\ Left'
    BY <2>1, <2>3 DEF ToDo, AtLeft, Sending, Carrying, Hidden, Left
  <2>5. Stays
    BY <2>1, <2>3, <2>4, ReleasedIs DEF Stays
  <2> QED  BY <2>5, StaysKeeps
<1> QED  BY <1>1, <1>2

(* What is in the store is no login whose answer Pitboard has, once nothing  *)
(* is left to be looked at.                                                  *)
LEMMA NothingSpent ==
  ASSUME Inv, KInv, pc = "again" PROVE slot.login \notin mine \ lost
<1> USE AreNumbers DEF Inv
<1> SUFFICES ASSUME slot.login \in mine, slot.login \notin lost PROVE FALSE
  OBVIOUS
<1>1. PICK w \in index.renewing : w.sent = slot.login /\ vault[w.copy] = answer[slot.login]
  BY DEF KInv, Held, Covered, Carries
<1>2. vault[w.copy] # NoLogin
  BY <1>1 DEF KInv, Issue
<1>3. w \notin mem.renewing
  BY DEF KInv, ToDo
<1> QED  BY <1>1, <1>2, <1>3 DEF KInv, Dropped, Idle, Out

(* The refresh lock, and the document read under it.                         *)
LEMMA LooksKeep == ASSUME Inv, KInv, Refreshing \/ Again \/ Check PROVE KInv'
<1> USE AreNumbers DEF Inv
<1>0. /\ pc \in {"refreshLock", "again", "check"} /\ Moves
      /\ UNCHANGED <<slot, vault, index, service, world, mem, clock, mine, lost>>
  BY DEF Refreshing, Again, Check, Moves, disk, history
<1>1. CASE Ends
  BY <1>0, <1>1, EndsKeep
<1>2. CASE Refreshing /\ ~Ends
  <2>1. CASE Waits /\ ~run.renews
    BY <1>0, <1>2, <2>1, WaitsKeeps DEF AtLeft, Refreshing
  <2>2. CASE ~(Waits /\ ~run.renews)
    <3>1. /\ pc = "refreshLock" /\ pc' = IF run.renews THEN "again" ELSE "leftLock"
          /\ UNCHANGED <<run, writeLock>>
      BY <1>2, <2>2 DEF Refreshing
    <3>2. ToDo' /\ Sending' /\ Carrying' /\ Left'
      BY <1>0, <3>1 DEF KInv, ToDo, AtLeft, Own, Sending, Carrying, Hidden, Left
    <3>3. Stays
      <4>1. run'.sent <= issued /\ Handed
        BY <1>0, <3>1, NothingInHand DEF KInv, Issue
      <4> QED  BY <1>0, <3>1, <3>2, <4>1 DEF Stays
    <3> QED  BY <1>0, <3>3, StaysKeeps
  <2> QED  BY <2>1, <2>2
<1>3. CASE Again /\ ~Ends
  <2>1. pc = "again" /\ slot.login \in Logins /\ Goes("check", Finds(run))
    BY <1>3 DEF Again
  <2>2. /\ pc' = "check" /\ UNCHANGED locks /\ run'.renews /\ run'.outcome = "none"
        /\ ~run'.landed
        /\ run'.todo = {} /\ run'.seen = slot
        /\ run'.sent = NoLogin /\ run'.fresh = NoLogin
    BY <2>1 DEF Goes, Finds, NoRun
  <2>3. mem.renewing = {} /\ slot.login \notin mine \ lost
    BY <2>1, NothingSpent DEF KInv, ToDo
  <2>4. ToDo' /\ Sending' /\ Carrying' /\ Left'
    BY <1>0, <2>2, <2>3 DEF ToDo, AtLeft, Sending, Carrying, Hidden, Left
  <2>5. Stays
    BY <1>0, <2>2, <2>4, NothingInHand DEF Stays, locks
  <2> QED  BY <1>0, <2>5, StaysKeeps
<1>4. CASE Check /\ ~Ends
  <2>1. run.renews /\ mem.renewing = {} /\ Handed
    BY <1>4, NothingInHand DEF Check, KInv, ToDo
  <2>2. CASE LooksAgain
    BY <1>0, <2>1, <2>2, LooksAgainKeeps
  <2>3. CASE Goes("reserve", run)
    <3>1. pc = "check" /\ pc' = "reserve" /\ run' = run /\ UNCHANGED locks
      BY <1>4, <2>3 DEF Check, Goes
    <3>2. ToDo' /\ Sending' /\ Carrying' /\ Left'
      BY <1>0, <3>1, <2>1 DEF KInv, ToDo, AtLeft, Sending, Carrying, Hidden, Left
    <3>3. Stays
      <4>1. run'.sent <= issued
        BY <3>1 DEF KInv, Issue
      <4> QED  BY <1>0, <2>1, <3>1, <3>2, <4>1 DEF Stays, locks
    <3> QED  BY <1>0, <3>3, StaysKeeps
  <2> QED  BY <1>4, <2>2, <2>3 DEF Check
<1> QED  BY <1>0, <1>1, <1>2, <1>3, <1>4

(* Nothing is sent, or it is with no copy to be made.                        *)
LEMMA NotReservedKeeps == ASSUME Inv, KInv, ReserveNone \/ NothingSent PROVE KInv'
<1> USE AreNumbers DEF Inv
<1>1. CASE NothingSent
  BY <1>1, EndsKeep DEF NothingSent
<1>2. CASE ReserveNone
  <2>1. /\ pc = "reserve" /\ pc' = "send" /\ UNCHANGED locks
        /\ run' = [run EXCEPT !.sent = run.seen.login]
        /\ UNCHANGED <<slot, vault, index, service, world, mem, clock, mine, lost>>
    BY <1>2 DEF ReserveNone, Goes, Moves, disk, history
  <2>2. /\ run'.renews = run.renews /\ run'.todo = run.todo /\ run'.outcome = run.outcome
        /\ run'.landed = run.landed
        /\ run'.seen = run.seen /\ run'.fresh = run.fresh /\ run'.copy = run.copy
        /\ run'.sent = run.seen.login
    BY <2>1 DEF TypeOK, Runs
  <2>3. run.renews /\ mem.renewing = {} /\ run.copy = NoName /\ run.fresh = NoLogin /\ Handed
    BY <2>1, NothingInHand DEF KInv, ToDo, Knows
  <2>4. ToDo' /\ Sending' /\ Carrying' /\ Left'
    BY <2>1, <2>2, <2>3 DEF KInv, ToDo, AtLeft, Sending, Carrying, Hidden, Left
  <2>5. Stays
    <3>1. run'.sent <= issued
      BY <2>2 DEF KInv, Issue
    <3> QED  BY <2>1, <2>2, <2>3, <2>4, <3>1 DEF Stays, locks
  <2> QED  BY <2>1, <2>5, StaysKeeps
<1> QED  BY <1>1, <1>2

(* The name of a copy, saved before anything is sent, is a new one.          *)
LEMMA ReserveKeeps == ASSUME Inv, KInv, Reserve PROVE KInv'
<1> USE AreNumbers DEF Inv
<1> DEFINE w0 == [sent |-> run.seen.login, copy |-> clock + 1]
<1>1. /\ pc = "reserve" /\ pc' = "send" /\ clock' = clock + 1 /\ index' = mem'
      /\ mem' = [mem EXCEPT !.renewing = @ \cup {w0}]
      /\ run' = [run EXCEPT !.sent = run.seen.login, !.copy = clock + 1]
      /\ UNCHANGED <<slot, vault, service, world, history, locks>>
      /\ UNCHANGED <<answer, issued, sess, doc, mine, lost, writeLock>>
      /\ run.renews /\ mem.renewing = {} /\ run.seen.login \in Logins /\ run.fresh = NoLogin
  BY DEF Reserve, Goes, KInv, ToDo, Knows, service, world, history, locks
<1>2. /\ mem'.renewing = {w0} /\ mem'.discarded = mem.discarded /\ clock + 1 \in Names
      /\ w0.sent = run.seen.login /\ w0.copy = clock + 1
  <2>1. clock + 1 \in Names
    <3>1. clock \in Nat /\ clock < MaxCopies /\ MaxCopies \in Nat
      BY RefreshBounds DEF Reserve
    <3> QED  BY <3>1 DEF Names
  <2> QED  BY <1>1, <2>1 DEF TypeOK, States
<1>3. /\ run'.renews = run.renews /\ run'.todo = run.todo /\ run'.outcome = run.outcome
      /\ run'.landed = run.landed
      /\ run'.seen = run.seen /\ run'.fresh = run.fresh /\ run'.copy = clock + 1
      /\ run'.sent = run.seen.login
  BY <1>1 DEF TypeOK, Runs
<1>4. Own' = w0
  BY <1>3 DEF Own
<1>5. vault[clock + 1] = NoLogin /\ clock + 1 \notin mem.discarded
  BY <1>2 DEF KInv, Copies
<1>6. Issue'
  BY <1>1, <1>2, <1>3 DEF KInv, Issue
<1>7. Sessions'
  BY <1>1, <1>3 DEF KInv, Sessions, Unseen, Out
<1>8. Copies'
  BY <1>1, <1>2, <1>5 DEF KInv, Copies
<1>9. Copied'
  BY <1>1, <1>2, <1>5 DEF Copied
<1>10. Held'
  <2> SUFFICES ASSUME NEW l \in {slot.login, doc.login}, l \in mine, l \notin lost PROVE FALSE
    BY <1>1 DEF Held
  <2>1. PICK w \in index.renewing : w.sent = l /\ vault[w.copy] = answer[l]
    BY <1>1 DEF KInv, Held, Covered, Carries
  <2>2. vault[w.copy] # NoLogin
    BY <2>1 DEF KInv, Issue
  <2> QED  BY <1>1, <2>1, <2>2 DEF KInv, Dropped, Idle, Out
<1>11. Dropped'
  BY <1>1 DEF Dropped
<1>12. ToDo'
  BY <1>1, <1>2, <1>3, <1>4 DEF KInv, ToDo, AtLeft
<1>13. Sending' /\ Carrying' /\ Left'
  BY <1>1, <1>3, <1>5 DEF KInv, Sending, Carrying, AtLeft, Hidden, Left
<1> QED  BY <1>6, <1>7, <1>8, <1>9, <1>10, <1>11, <1>12, <1>13 DEF KInv

-----------------------------------------------------------------------------
(* The service's answer                                                      *)

(* Pitboard spends a login that no renewal it has the answer of waits for,   *)
(* and the answer is a login nobody has seen.                                *)
LEMMA SpendsKeeps ==
  ASSUME Inv, KInv, pc = "send", Answers(run.sent), mine' = mine \cup {run.sent},
         UNCHANGED <<disk, world, mem, clock>>, lost \subseteq lost',
         writeLock = "session" => writeLock' = "session",
         run'.seen.login \in {run.seen.login, NoLogin}, run'.sent \in {run.sent, NoLogin},
         run'.fresh \in {NoLogin, issued'}, pc' # "idle" => run'.renews
  PROVE  /\ Issue' /\ Sessions' /\ Copies' /\ Copied' /\ Dropped'
         /\ \A l \in {slot.login, doc.login} : l \in mine \ lost /\ l # run.sent => Covered(l)'
         /\ issued' = issued + 1 /\ answer'[run.sent] = issued' /\ issued' \notin mine'
<1> USE AreNumbers DEF Inv
<1>1. /\ issued' = issued + 1 /\ run.sent \in Logins /\ answer[run.sent] = NoLogin
      /\ \A l \in Logins : answer'[l] = IF l = run.sent THEN issued + 1 ELSE answer[l]
  BY AnswersTypes DEF Answers, TypeOK
<1>2. UNCHANGED <<slot, vault, index, sess, doc, mem, clock>>
  BY DEF disk, world
<1>3. run.sent \notin mine /\ run.sent <= issued /\ run.sent = run.seen.login
  BY <1>1 DEF KInv, Issue, Sending
<1>4. issued' \notin mine'
  BY <1>1, <1>3, SpentIsIssued DEF KInv
<1>5. Issue'
  BY <1>1, <1>2, <1>3 DEF KInv, Issue
<1>6. Sessions'
  BY <1>1, <1>2, <1>3 DEF KInv, Sessions, Unseen, Out
<1>7. Copies'
  BY <1>2 DEF KInv, Copies
<1>8. Copied'
  <2> SUFFICES ASSUME NEW w \in index.renewing, vault[w.copy] # NoLogin
               PROVE  /\ w.sent \in mine' /\ vault[w.copy] = answer'[w.sent]
                      /\ vault[w.copy] \in mine' => Out(w.sent)
    BY <1>2 DEF Copied, Out
  <2>1. /\ w.sent \in mine /\ vault[w.copy] = answer[w.sent]
        /\ vault[w.copy] \in mine => Out(w.sent)
    BY DEF KInv, Copied
  <2>2. ASSUME vault[w.copy] = run.sent PROVE Out(w.sent)
    <3>1. w \notin mem.renewing
      BY DEF KInv, ToDo, Sending, Own
    <3> QED  BY <1>3, <2>2, <3>1 DEF KInv, Dropped, Idle, Unseen
  <2> QED  BY <1>1, <1>3, <2>1, <2>2
<1>9. Dropped'
  <2> SUFFICES ASSUME pc' # "idle", NEW w \in index.renewing \ mem.renewing PROVE Idle(w)'
    BY <1>2 DEF Dropped
  <2>1. Idle(w) /\ vault[w.copy] <= issued
    BY DEF KInv, Dropped, Issue
  <2> QED  BY <1>1, <1>2, <1>3, <2>1 DEF Idle, Out, Unseen
<1>10. ASSUME NEW l \in {slot.login, doc.login}, l \in mine \ lost, l # run.sent PROVE Covered(l)'
  <2>1. \E w \in index.renewing : w.sent = l /\ vault[w.copy] = answer[l]
    BY <1>10 DEF KInv, Held, Covered, Carries
  <2> QED  BY <1>1, <1>2, <1>10, <2>1 DEF Covered
<1> QED  BY <1>1, <1>4, <1>5, <1>6, <1>7, <1>8, <1>9, <1>10

(* The answer is in the run's hands.                                         *)
LEMMA AnsweredKeeps == ASSUME Inv, KInv, Answered PROVE KInv'
<1> USE AreNumbers DEF Inv
<1>1. /\ pc = "send" /\ pc' = "copy" /\ Answers(run.sent) /\ mine' = mine \cup {run.sent}
      /\ run' = [run EXCEPT !.fresh = issued'] /\ issued' \in Logins
      /\ UNCHANGED <<slot, vault, index, sess, doc, mem, clock, lost, writeLock>>
  BY AnswersTypes DEF Answered, Goes, disk, world, locks
<1>2. /\ run'.renews = run.renews /\ run'.todo = run.todo /\ run'.outcome = run.outcome
      /\ run'.landed = run.landed /\ run'.seen = run.seen /\ run'.sent = run.sent
      /\ run'.copy = run.copy /\ run'.fresh = issued'
  BY <1>1 DEF TypeOK, Runs
<1>3. run.renews
  BY <1>1 DEF KInv, ToDo
<1>4. /\ Issue' /\ Sessions' /\ Copies' /\ Copied' /\ Dropped'
      /\ \A l \in {slot.login, doc.login} : l \in mine \ lost /\ l # run.sent => Covered(l)'
      /\ issued' = issued + 1 /\ answer'[run.sent] = issued' /\ issued' \notin mine'
  BY <1>1, <1>2, <1>3, SpendsKeeps DEF Answered
<1>5. Held'
  <2>1. Carries(run.sent)'
    BY <1>1, <1>2, <1>3, <1>4 DEF Carries
  <2> QED  BY <1>1, <1>4, <2>1 DEF Held, Covered
<1>6. ToDo'
  BY <1>1, <1>2, <1>3 DEF KInv, ToDo, AtLeft, Own
<1>7. Sending' /\ Left'
  BY <1>1, <1>2 DEF KInv, Sending, Left
<1>8. Carrying'
  <2>1. Unseen(run.fresh)'
    BY <1>1, <1>2, <1>4 DEF KInv, Issue, Unseen, Out
  <2> QED  BY <1>1, <1>2, <1>3, <1>4, <2>1 DEF Carrying, AtLeft
<1> QED  BY <1>4, <1>5, <1>6, <1>7, <1>8 DEF KInv

(* No answer came, whether or not the service gave one.                      *)
LEMMA NotAnsweredKeeps == ASSUME Inv, KInv, NotAnswered PROVE KInv'
<1> USE AreNumbers DEF Inv
<1>1. /\ pc = "send" /\ run.renews /\ run.outcome = "none"
      /\ UNCHANGED <<slot, vault, index, sess, doc, mem, clock>>
  BY DEF NotAnswered, KInv, ToDo, Sending, disk, world
<1>2. \/ run.copy = NoName /\ Ends
      \/ run.copy # NoName /\ pc' = "letGo" /\ run' = run /\ UNCHANGED locks
  BY DEF NotAnswered, Goes
<1>3. /\ pc' \in {"idle", "letGo"} /\ run' \in {run, NoRun} /\ (pc' = "idle" => run' = NoRun)
      /\ pc' = "letGo" => run' = run /\ run.copy # NoName
      /\ writeLock = "session" => writeLock' = "session"
  BY <1>2, ReleasedIs DEF Ends, GoesFree, locks
<1>4. ToDo' /\ Sending' /\ Carrying' /\ Left'
  <2>1. CASE pc' = "idle"
    <3>1. run' = NoRun /\ ~run'.renews /\ run'.todo = {}
      BY <1>3, <2>1 DEF NoRun
    <3> QED  BY <2>1, <3>1 DEF ToDo, AtLeft, Sending, Carrying, Left
  <2>2. CASE pc' = "letGo"
    <3>1. vault[run.copy] = NoLogin
      BY <1>1, <1>3, <2>2 DEF KInv, Sending
    <3> QED  BY <1>1, <1>3, <2>2, <3>1
                DEF KInv, ToDo, AtLeft, Own, Sending, Carrying, Hidden, Left
  <2> QED  BY <1>3, <2>1, <2>2
<1>5. CASE UNCHANGED <<service, history>>
  <2>1. CASE pc' = "idle"
    BY <1>1, <1>3, <1>5, <2>1, EndKeeps, NothingInHand DEF NotAnswered, world, history
  <2>2. CASE pc' = "letGo"
    <3>1. run'.sent <= issued /\ Handed
      BY <1>1, <1>3, <2>2, NothingInHand DEF KInv, Issue
    <3>2. Stays
      BY <1>1, <1>3, <1>4, <1>5, <2>2, <3>1 DEF Stays, NotAnswered, world, history
    <3> QED  BY <1>1, <3>2, StaysKeeps
  <2> QED  BY <1>3, <2>1, <2>2
<1>6. CASE /\ Answers(run.sent) /\ mine' = mine \cup {run.sent}
           /\ lost' = lost \cup {run.sent}
  <2>1. /\ run'.seen.login \in {run.seen.login, NoLogin} /\ run'.sent \in {run.sent, NoLogin}
        /\ run'.fresh = NoLogin /\ (pc' # "idle" => run'.renews)
    <3>1. run.fresh = NoLogin
      BY <1>1 DEF KInv, Sending
    <3>2. run' = run \/ (pc' = "idle" /\ run' = NoRun)
      BY <1>3
    <3>3. NoRun.seen.login = NoLogin /\ NoRun.sent = NoLogin /\ NoRun.fresh = NoLogin
      BY DEF NoRun, NoDoc
    <3> QED  BY <1>1, <3>1, <3>2, <3>3
  <2>2. /\ Issue' /\ Sessions' /\ Copies' /\ Copied' /\ Dropped'
        /\ \A l \in {slot.login, doc.login} : l \in mine \ lost /\ l # run.sent => Covered(l)'
    BY <1>1, <1>3, <1>6, <2>1, SpendsKeeps DEF NotAnswered
  <2>3. Held'
    BY <1>1, <1>6, <2>2 DEF Held
  <2> QED  BY <1>4, <2>2, <2>3 DEF KInv
<1> QED  BY <1>5, <1>6 DEF NotAnswered

-----------------------------------------------------------------------------
(* The copy, and the save                                                    *)

(* The answer is copied under the name the index has for it.                 *)
LEMMA CopyKeeps == ASSUME Inv, KInv, Copy PROVE KInv'
<1> USE AreNumbers DEF Inv
<1>1. PICK copied \in BOOLEAN, landed \in BOOLEAN :
        /\ landed => copied /\ run.copy # NoName
        /\ vault' = IF landed THEN [vault EXCEPT ![run.copy] = run.fresh] ELSE vault
        /\ Goes("saveLock", [run EXCEPT !.copied = copied, !.landed = landed])
  BY DEF Copy
<1>2. /\ pc = "copy" /\ pc' = "saveLock"
      /\ UNCHANGED <<slot, index, answer, issued, sess, doc, mem, clock, mine, lost, writeLock>>
      /\ run' = [run EXCEPT !.copied = copied, !.landed = landed]
  BY <1>1 DEF Copy, Goes, service, world, history, locks
<1>3. /\ run'.renews = run.renews /\ run'.todo = run.todo /\ run'.outcome = run.outcome
      /\ run'.seen = run.seen /\ run'.sent = run.sent /\ run'.copy = run.copy
      /\ run'.fresh = run.fresh /\ run'.landed = landed /\ run'.copied = copied
  BY <1>2 DEF TypeOK, Runs
<1>4. /\ run.renews /\ run.sent \in mine /\ run.fresh = answer[run.sent] /\ Unseen(run.fresh)
      /\ run.fresh \in Logins
  BY <1>2 DEF KInv, ToDo, Carrying, Hidden, Knows
<1>5. \A n \in Names : vault'[n] = IF landed /\ n = run.copy THEN run.fresh ELSE vault[n]
  BY <1>1 DEF TypeOK
<1>6. run.copy # NoName =>
        /\ mem.renewing = {Own} /\ Own \in index.renewing /\ vault[run.copy] = NoLogin
        /\ Own.copy = run.copy /\ Own.sent = run.sent
        /\ \A w \in index.renewing : w.copy = run.copy => w = Own
  BY <1>2, <1>4 DEF KInv, ToDo, Copies, Sending, Own
<1>7. Issue'
  BY <1>2, <1>3, <1>5 DEF KInv, Issue
<1>8. Sessions'
  BY <1>2, <1>3, <1>5 DEF KInv, Sessions, Unseen, Out
<1>9. Copies'
  BY <1>1, <1>2, <1>5, <1>6 DEF KInv, Copies
<1>10. Copied'
  <2> SUFFICES ASSUME NEW w \in index.renewing, vault'[w.copy] # NoLogin
               PROVE  /\ w.sent \in mine /\ vault'[w.copy] = answer[w.sent]
                      /\ vault'[w.copy] \in mine => Out(w.sent)
    BY <1>2 DEF Copied, Out
  <2>1. CASE landed /\ w.copy = run.copy
    BY <1>1, <1>4, <1>5, <1>6, <2>1 DEF Unseen
  <2>2. CASE ~(landed /\ w.copy = run.copy)
    BY <1>5, <2>2 DEF KInv, Copied
  <2> QED  BY <2>1, <2>2
<1>11. Held'
  <2> SUFFICES ASSUME NEW l \in {slot.login, doc.login}, l \in mine, l \notin lost
               PROVE  Covered(l)'
    BY <1>2 DEF Held
  <2>1. CASE Carries(l)
    BY <1>2, <1>3, <2>1 DEF Covered, Carries
  <2>2. CASE ~Carries(l)
    <3>1. PICK w \in index.renewing : w.sent = l /\ vault[w.copy] = answer[l]
      BY <2>2 DEF KInv, Held, Covered
    <3>2. vault[w.copy] # NoLogin
      BY <3>1 DEF KInv, Issue
    <3>3. vault'[w.copy] = vault[w.copy]
      BY <1>1, <1>5, <1>6, <3>2
    <3> QED  BY <1>2, <3>1, <3>3 DEF Covered
  <2> QED  BY <2>1, <2>2
<1>12. Dropped'
  <2> SUFFICES ASSUME NEW w \in index.renewing \ mem.renewing PROVE Idle(w)'
    BY <1>2 DEF Dropped
  <2>1. Idle(w)
    BY <1>2 DEF KInv, Dropped
  <2>2. vault'[w.copy] = vault[w.copy]
    BY <1>1, <1>5, <1>6
  <2> QED  BY <1>2, <1>3, <2>1, <2>2 DEF Idle, Out, Unseen
<1>13. ToDo'
  BY <1>2, <1>3 DEF KInv, ToDo, AtLeft, Own
<1>14. Sending' /\ Left'
  BY <1>2 DEF Sending, Left
<1>15. Carrying'
  <2>1. run.copy # NoName => vault'[run.copy] = IF landed THEN run.fresh ELSE NoLogin
    BY <1>5, <1>6
  <2>2. Unseen(run.fresh)'
    BY <1>2, <1>3, <1>4 DEF Unseen, Out
  <2> QED  BY <1>1, <1>2, <1>3, <1>4, <2>1, <2>2 DEF Carrying, AtLeft
<1> QED  BY <1>7, <1>8, <1>9, <1>10, <1>11, <1>12, <1>13, <1>14, <1>15 DEF KInv

(* The write lock is had, or it is not and the save goes on without.         *)
LEMMA SaveLocksKeeps == ASSUME Inv, KInv, SaveLocks PROVE KInv'
<1> USE AreNumbers DEF Inv
<1>1. /\ pc = "saveLock" /\ pc' = "save"
      /\ UNCHANGED <<slot, vault, index, service, world, mem, clock, mine, lost>>
      /\ writeLock = "session" => writeLock' = "session"
      /\ run' \in {run, [run EXCEPT !.bare = TRUE]}
  BY DEF SaveLocks, Goes, Moves, disk, history, locks
<1>2. /\ run'.renews = run.renews /\ run'.todo = run.todo /\ run'.outcome = run.outcome
      /\ run'.seen = run.seen /\ run'.sent = run.sent /\ run'.copy = run.copy
      /\ run'.fresh = run.fresh /\ run'.landed = run.landed /\ run'.copied = run.copied
  BY <1>1 DEF TypeOK, Runs
<1>3. UNCHANGED <<answer, issued, sess, doc>>
  BY <1>1 DEF service, world
<1>4. run.renews
  BY <1>1 DEF KInv, ToDo
<1>5. ToDo'
  BY <1>1, <1>2, <1>4 DEF KInv, ToDo, AtLeft, Own
<1>6. Sending' /\ Left'
  BY <1>1 DEF Sending, Left
<1>7. Carrying'
  BY <1>1, <1>2, <1>3, <1>4 DEF KInv, Carrying, AtLeft, Hidden, Unseen, Out
<1>8. Stays
  <2>1. run'.sent <= issued
    BY <1>2 DEF KInv, Issue
  <2>2. Handed
    BY <1>1, <1>2, <1>3 DEF Handed, Carries
  <2> QED  BY <1>1, <1>2, <1>5, <1>6, <1>7, <2>1, <2>2 DEF Stays
<1> QED  BY <1>1, <1>8, StaysKeeps

(* What is known of the answer a run saves: it is new, and comes after the   *)
(* login it is saved over.                                                   *)
LEMMA SavesNew ==
  ASSUME Inv, KInv, pc \in {"save", "write"}
  PROVE  /\ run.sent \in mine /\ run.fresh = answer[run.sent] /\ run.sent < run.fresh
         /\ run.renews => Unseen(run.fresh)
         /\ ~run.renews => (run.fresh \in mine => Out(run.sent))
<1> USE AreNumbers DEF Inv
<1>1. run.sent \in mine /\ run.fresh = answer[run.sent]
  <2>1. CASE run.renews
    BY <2>1 DEF KInv, Carrying
  <2>2. CASE ~run.renews
    <3>1. Own \in index.renewing /\ Own.copy = run.copy /\ Own.sent = run.sent
      BY <2>2 DEF KInv, ToDo, AtLeft, Copies, Own
    <3>2. vault[run.copy] = run.fresh /\ run.fresh # NoLogin
      BY <2>2 DEF KInv, Carrying, AtLeft
    <3> QED  BY <3>1, <3>2 DEF KInv, Copied
  <2> QED  BY <2>1, <2>2
<1>2. run.sent < run.fresh
  BY <1>1 DEF KInv, Issue
<1>3. run.renews => Unseen(run.fresh)
  BY DEF KInv, Carrying, Hidden
<1>4. ASSUME ~run.renews, run.fresh \in mine PROVE Out(run.sent)
  <2>1. Own \in index.renewing /\ Own.copy = run.copy /\ Own.sent = run.sent
    BY <1>4 DEF KInv, ToDo, AtLeft, Copies, Own
  <2>2. vault[run.copy] = run.fresh /\ run.fresh # NoLogin
    BY <1>4 DEF KInv, Carrying, AtLeft
  <2> QED  BY <1>4, <2>1, <2>2 DEF KInv, Copied
<1> QED  BY <1>1, <1>2, <1>3, <1>4

(* The document is read to be saved over, or the login sent is gone from it. *)
LEMMA SaveReadsKeeps == ASSUME Inv, KInv, SaveReads PROVE KInv'
<1> USE AreNumbers DEF Inv
<1>1. /\ pc = "save"
      /\ UNCHANGED <<slot, vault, index, service, world, mem, clock, mine, lost, writeLock>>
      /\ UNCHANGED <<answer, issued, sess, doc>>
  BY DEF SaveReads, Goes, Moves, disk, history, locks, service, world
<1>2. \/ pc' = "write" /\ slot.login = run.sent /\ run' = [run EXCEPT !.now = slot]
      \/ /\ pc' = "saved" /\ slot.login # run.sent
         /\ run' = [run EXCEPT !.outcome = "changed"]
      \/ pc' = "saved" /\ run' = [run EXCEPT !.outcome = "failed"]
  BY DEF SaveReads, Goes, SavesOver
<1>3. /\ run'.renews = run.renews /\ run'.todo = run.todo /\ run'.strict = run.strict
      /\ run'.stuck = run.stuck /\ run'.bare = run.bare
      /\ run'.seen = run.seen /\ run'.sent = run.sent /\ run'.copy = run.copy
      /\ run'.fresh = run.fresh /\ run'.landed = run.landed /\ run'.copied = run.copied
      /\ pc' = "saved" => run'.outcome \in {"changed", "failed"}
      /\ pc' = "saved" /\ run'.outcome = "changed" => slot.login # run.sent
  BY <1>2 DEF TypeOK, Runs
<1>4. ToDo'
  BY <1>1, <1>2, <1>3 DEF KInv, ToDo, AtLeft, Own
<1>5. Sending'
  BY <1>2 DEF Sending
<1>6. Carrying'
  <2>1. run.renews => Unseen(run.fresh)'
    BY <1>1, <1>3, SavesNew DEF Unseen, Out
  <2>2. pc' = "write" => run.fresh \notin mine
    BY <1>1, <1>2, SavesNew DEF Unseen, Out
  <2> QED  BY <1>1, <1>2, <1>3, <2>1, <2>2 DEF KInv, Carrying, AtLeft
<1>7. Left'
  <2>1. ~run.bare => writeLock = "pitboard"
    BY <1>1 DEF Guarded
  <2> QED  BY <1>1, <1>2, <1>3, <2>1 DEF Left
<1>8. Stays
  <2>1. run'.sent <= issued
    BY <1>3 DEF KInv, Issue
  <2>2. Handed
    BY <1>1, <1>2, <1>3 DEF Handed, Carries
  <2> QED  BY <1>1, <1>2, <1>3, <1>4, <1>5, <1>6, <1>7, <2>1, <2>2 DEF Stays
<1> QED  BY <1>1, <1>8, StaysKeeps

(* The answer is written over the login sent, or is not.                     *)
LEMMA WriteKeeps == ASSUME Inv, KInv, Write \/ WriteFails PROVE KInv'
<1> USE AreNumbers DEF Inv
<1>1. /\ pc = "write" /\ slot'.login \in {slot.login, run.fresh, Unread}
      /\ UNCHANGED <<vault, index, mem, clock, mine, lost, writeLock>>
      /\ UNCHANGED <<answer, issued, sess, doc>>
  BY RenewedIsDoc, SlotIs DEF Write, WriteFails, Goes, history, locks, service, world
<1>2. \/ /\ pc' = "saved" /\ slot'.login = run.fresh
         /\ run' = [run EXCEPT !.outcome = "saved"]
      \/ /\ pc' = "write" /\ slot'.login \in {slot.login, Unread}
         /\ run' = [run EXCEPT !.rewrites = TRUE]
      \/ pc' = "saved" /\ run' = [run EXCEPT !.outcome = "failed"]
  BY RenewedIsDoc, SlotIs DEF Write, WriteFails, Goes
<1>3. /\ run'.renews = run.renews /\ run'.todo = run.todo /\ run'.strict = run.strict
      /\ run'.stuck = run.stuck /\ run'.bare = run.bare
      /\ run'.seen = run.seen /\ run'.sent = run.sent /\ run'.copy = run.copy
      /\ run'.fresh = run.fresh /\ run'.landed = run.landed /\ run'.copied = run.copied
      /\ pc' = "saved" => run'.outcome \in {"saved", "failed"}
      /\ pc' = "saved" /\ run'.outcome = "saved" => slot'.login = run.fresh
      /\ pc' \in {"saved", "write"}
  BY <1>2 DEF TypeOK, Runs
<1>4. run.fresh \notin mine
  BY <1>1 DEF KInv, Carrying
<1>5. \A l \in mine : Out(l) => Out(l)'
  BY <1>1, <1>4 DEF Out
<1>6. Issue'
  BY <1>1, <1>3 DEF KInv, Issue
<1>7. Sessions'
  BY <1>1, <1>3 DEF KInv, Sessions, Unseen, Out
<1>8. Copies'
  BY <1>1 DEF KInv, Copies
<1>9. Copied'
  BY <1>1, <1>5 DEF KInv, Copied
<1>10. Held'
  <2> SUFFICES ASSUME NEW l \in {slot'.login, doc.login}, l \in mine, l \notin lost
               PROVE  Covered(l)'
    BY <1>1 DEF Held
  <2>1. l \in {slot.login, doc.login}
    BY <1>1, <1>4
  <2>2. Covered(l)
    BY <2>1 DEF KInv, Held
  <2> QED  BY <1>1, <1>3, <2>2 DEF Covered, Carries
<1>11. Dropped'
  <2> SUFFICES ASSUME NEW w \in index.renewing \ mem.renewing PROVE Idle(w)'
    BY <1>1 DEF Dropped
  <2>1. Idle(w)
    BY <1>1 DEF KInv, Dropped
  <2>2. vault[w.copy] # NoLogin => w.sent \in mine
    BY DEF KInv, Copied
  <2> QED  BY <1>1, <1>3, <1>5, <2>1, <2>2 DEF Idle, Out, Unseen
<1>12. ToDo'
  BY <1>1, <1>3 DEF KInv, ToDo, AtLeft, Own
<1>13. Sending'
  BY <1>3 DEF Sending
<1>14. Carrying'
  <2>1. run.renews /\ pc' = "write" => Unseen(run.fresh)'
    BY <1>1, <1>2, <1>3, SavesNew DEF Unseen, Out
  <2> QED  BY <1>1, <1>3, <1>4, <2>1 DEF KInv, Carrying, AtLeft, Hidden
<1>15. Left'
  <2>1. ~run.bare => writeLock = "pitboard"
    BY <1>1 DEF Guarded
  <2>2. run.sent # run.fresh
    BY <1>1, SavesNew
  <2> QED  BY <1>1, <1>3, <2>1, <2>2 DEF Left
<1> QED  BY <1>6, <1>7, <1>8, <1>9, <1>10, <1>11, <1>12, <1>13, <1>14, <1>15 DEF KInv

-----------------------------------------------------------------------------
(* What comes of the save, and the end of a copy                             *)

(* The run gives up no answer but in a copy, or as one lost, or of a login   *)
(* that is gone.                                                             *)
LEMMA SavedHands == ASSUME Inv, KInv, Saved PROVE Handed
<1> USE AreNumbers DEF Inv
<1> SUFFICES ASSUME NEW l \in {slot.login, doc.login}, l \in mine, l \notin lost', Carries(l)
             PROVE  \E w \in index.renewing : w.sent = l /\ vault[w.copy] = answer[l]
  BY DEF Handed, Saved, disk
<1>1. /\ pc = "saved" /\ run.renews /\ run.sent = l /\ run.fresh = answer[l]
      /\ run.fresh \in Logins
  BY DEF Saved, Carries, KInv, Issue
<1>2. CASE run.outcome = "failed"
  <2>1. run.landed
    BY <1>1, <1>2 DEF Saved, Loses
  <2>2. run.copy # NoName /\ vault[run.copy] = run.fresh
    BY <1>1, <2>1 DEF KInv, Carrying
  <2>3. Own \in index.renewing /\ Own.sent = run.sent /\ Own.copy = run.copy
    BY <1>1, <2>2 DEF KInv, ToDo, Copies, Own
  <2> QED  BY <1>1, <2>2, <2>3
<1>3. CASE run.outcome # "failed"
  <2>1. ~run.bare
    BY <1>1, <1>3 DEF Saved, MayLose
  <2>2. slot.login # run.sent /\ doc.login = NoLogin
    BY <1>1, <1>3, <2>1 DEF KInv, Left, Sessions
  <2> QED  BY <1>1, <2>2
<1> QED  BY <1>2, <1>3

(* The run ends, waits, looks again, or lets go of the copy.                 *)
LEMMA SavedKeeps == ASSUME Inv, KInv, Saved PROVE KInv'
<1> USE AreNumbers DEF Inv
<1>1. /\ pc = "saved" /\ lost \subseteq lost'
      /\ UNCHANGED <<slot, vault, index, service, world, mem, clock, mine>>
      /\ UNCHANGED <<answer, issued, sess, doc>>
  BY DEF Saved, disk, service, world, Loses, MayLose
<1>2. Handed
  BY SavedHands
<1>3. CASE Ends
  <2>1. pc' = "idle" /\ run' = NoRun /\ (writeLock = "session" => writeLock' = "session")
    BY <1>3, ReleasedIs DEF Ends, GoesFree
  <2> QED  BY <1>1, <1>2, <2>1, EndKeeps
<1>4. CASE Keeps /\ ~run.renews
  <2>1. Waits /\ AtLeft
    BY <1>1, <1>4 DEF Saved, AtLeft
  <2> QED  BY <1>1, <2>1, WaitsKeeps
<1>5. CASE ~Keeps /\ run.copy = NoName /\ ~Ends
  <2>1. run.renews /\ mem.renewing = {}
    BY <1>1, <1>5 DEF KInv, ToDo, AtLeft, Own
  <2>2. LooksAgain
    BY <1>5, <2>1 DEF Saved, GoesOn
  <2> QED  BY <1>1, <1>2, <2>1, <2>2, LooksAgainKeeps
<1>6. CASE ~Keeps /\ run.copy # NoName
  <2>1. pc' = "letGo" /\ run' = run /\ (writeLock = "session" => writeLock' = "session")
    BY <1>6, ReleasedIs DEF Saved, GoesFree
  <2>2. ToDo' /\ Sending'
    BY <1>1, <1>6, <2>1 DEF KInv, ToDo, AtLeft, Own, Sending
  <2>3. Carrying'
    BY <1>1, <2>1 DEF KInv, Carrying, AtLeft, Hidden, Unseen, Out
  <2>4. Left'
    <3>1. CASE run.outcome = "failed"
      <4>1. run.renews /\ ~run.copied
        BY <1>6, <3>1 DEF Keeps
      <4>2. vault[run.copy] = NoLogin
        BY <1>1, <1>6, <4>1 DEF KInv, Carrying
      <4> QED  BY <1>1, <2>1, <3>1, <4>2 DEF Left
    <3>2. CASE run.outcome # "failed"
      <4>1. run.bare => run.renews /\ run.sent \in lost'
        BY <3>2 DEF Saved, MayLose, Knows
      <4>2. ~run.bare => Out(run.sent)
        <5>1. ~run.bare => slot.login # run.sent /\ doc.login = NoLogin
          BY <1>1, <3>2 DEF KInv, Left, Sessions
        <5>2. run.sent \in Logins
          BY <1>1 DEF KInv, Carrying, ToDo, AtLeft, Own
        <5> QED  BY <5>1, <5>2 DEF Out
      <4>3. run.renews => run.sent \in mine /\ run.fresh = answer[run.sent]
        BY <1>1 DEF KInv, Carrying
      <4> QED  BY <1>1, <2>1, <4>1, <4>2, <4>3 DEF Left, Out
    <3> QED  BY <3>1, <3>2
  <2>5. Stays
    <3>1. run'.sent <= issued
      BY <2>1 DEF KInv, Issue
    <3> QED  BY <1>1, <1>2, <2>1, <2>2, <2>3, <2>4, <3>1 DEF Stays
  <2> QED  BY <1>1, <2>5, StaysKeeps
<1> QED  BY <1>3, <1>4, <1>5, <1>6 DEF Saved, Keeps

(* What letting go of the run's copy leaves in mind.                         *)
LEMMA ForgottenIs ==
  ASSUME Inv, KInv, pc = "letGo"
  PROVE  /\ Own \in mem.renewing /\ Own.sent = run.sent /\ Own.copy = run.copy
         /\ Forgotten(mem, run.copy).renewing = mem.renewing \ {Own}
         /\ Forgotten(mem, run.copy).discarded = mem.discarded \cup {run.copy}
<1> USE AreNumbers DEF Inv
<1>1. Own \in mem.renewing /\ Own.sent = run.sent /\ Own.copy = run.copy
  BY DEF KInv, ToDo, AtLeft, Own, Knows
<1>2. \A w \in mem.renewing : w.copy = run.copy => w = Own
  BY <1>1 DEF KInv, Copies
<1> QED  BY <1>1, <1>2 DEF Forgotten

(* The copy's renewal is off the list, and none it could answer is left.     *)
LEMMA LetGoKeeps == ASSUME Inv, KInv, LetGo PROVE KInv'
<1> USE AreNumbers DEF Inv
<1>1. /\ pc = "letGo" /\ index' \in {index, mem'}
      /\ UNCHANGED <<slot, vault, service, world, clock, mine, lost>>
      /\ UNCHANGED <<answer, issued, sess, doc>>
  BY DEF LetGo, service, world, history
<1>2. /\ Own \in mem.renewing /\ Own.sent = run.sent /\ Own.copy = run.copy
      /\ mem'.renewing = mem.renewing \ {Own}
      /\ mem'.discarded = mem.discarded \cup {run.copy}
      /\ Own \in index.renewing
  BY <1>1, ForgottenIs DEF LetGo, KInv, Copies
<1>3. Copies'
  BY <1>1, <1>2 DEF KInv, Copies
<1>4. vault[run.copy] = NoLogin \/ Out(run.sent) \/ (run.renews /\ run.sent \in lost)
  BY <1>1 DEF KInv, Left
<1>5. Handed
  BY <1>1, NothingInHand
<1>6. CASE Ends
  <2>1. pc' = "idle" /\ run' = NoRun /\ (writeLock = "session" => writeLock' = "session")
    BY <1>6, ReleasedIs DEF Ends, GoesFree
  <2>2. Forgets
    BY <1>1, <1>2, <1>3, <1>4, <2>1 DEF Forgets
  <2> QED  BY <1>1, <1>5, <2>1, <2>2, EndKeeps
<1>7. CASE LooksAgain /\ run.renews /\ run.outcome = "changed" /\ ~Ends /\ UNCHANGED index
  <2>1. pc' = "again" /\ run' = [NoRun EXCEPT !.renews = TRUE, !.seen = run.seen, !.second = TRUE]
    BY <1>7, LookIsRun DEF LooksAgain
  <2>2. NoRun.fresh = NoLogin /\ NoRun \in Runs
    BY NoRunIsRun DEF NoRun
  <2>3. run'.renews /\ run'.seen = run.seen /\ run'.fresh = NoLogin
    BY <2>1, <2>2 DEF Runs
  <2>4. ASSUME NEW w \in mem.renewing, w.sent = run.sent, w.copy = run.copy, vault[w.copy] # NoLogin
        PROVE  Idle(w)'
    <3>1. Own = w \/ (Own.sent = w.sent /\ Own.copy = w.copy)
      BY <2>4, <1>2
    <3>2. vault[w.copy] = run.fresh \/ Out(w.sent)
      BY <1>1, <1>2, <1>7, <2>4 DEF KInv, Copied, Left
    <3>3. Unseen(run.fresh)
      BY <1>1, <1>7 DEF KInv, Carrying, Hidden
    <3>4. CASE Out(w.sent)
      BY <1>1, <3>4 DEF Idle, Out
    <3>5. CASE vault[w.copy] = run.fresh /\ w.sent \in lost
      <4>1. vault'[w.copy] = run.fresh
        BY <1>1, <3>5
      <4>2. Unseen(vault[w.copy])'
        BY <1>1, <2>3, <3>3, <4>1 DEF Unseen, Out
      <4>3. w.sent \in lost' /\ vault'[w.copy] # run'.fresh
        BY <1>1, <2>3, <2>4, <3>5, <4>1
      <4> QED  BY <2>3, <4>2, <4>3 DEF Idle
    <3> QED  BY <1>4, <2>4, <3>2, <3>4, <3>5
  <2>5. mem'.renewing = {}
    BY <1>1, <1>2, <1>7 DEF KInv, ToDo
  <2>6. Forgets
    <3>1. ASSUME NEW w \in mem.renewing \ mem'.renewing
          PROVE  /\ vault[w.copy] = NoLogin \/ Out(w.sent) \/ w.sent \in lost'
                 /\ Idle(w)'
      <4>1. w.sent = run.sent /\ w.copy = run.copy
        BY <1>2
      <4>2. CASE vault[w.copy] = NoLogin
        BY <1>1, <4>2 DEF Idle
      <4>3. CASE vault[w.copy] # NoLogin
        BY <1>1, <1>4, <2>4, <4>1, <4>3
      <4> QED  BY <4>2, <4>3
    <3>2. mem'.renewing \subseteq mem.renewing
      BY <1>2
    <3> QED  BY <1>3, <3>1, <3>2 DEF Forgets
  <2> QED  BY <1>1, <1>5, <1>7, <2>5, <2>6, LooksAgainKeeps
<1>8. CASE ~run.renews /\ pc' = "finish" /\ UNCHANGED <<run, locks, index>>
  <2>1. Forgets
    <3>1. ASSUME NEW w \in mem.renewing \ mem'.renewing
          PROVE  /\ vault[w.copy] = NoLogin \/ Out(w.sent)
                 /\ Idle(w)'
      <4>1. w.sent = run.sent /\ w.copy = run.copy
        BY <1>2
      <4>2. vault[w.copy] = NoLogin \/ Out(w.sent)
        BY <1>4, <1>8, <4>1
      <4> QED  BY <1>1, <4>2 DEF Idle, Out
    <3>2. mem'.renewing \subseteq mem.renewing
      BY <1>2
    <3> QED  BY <1>3, <3>1, <3>2 DEF Forgets
  <2>2. ToDo'
    BY <1>1, <1>2, <1>8 DEF KInv, ToDo, AtLeft
  <2>3. Sending' /\ Carrying' /\ Left'
    BY <1>8 DEF Sending, Carrying, AtLeft, Left
  <2>4. run'.sent <= issued
    BY <1>8 DEF KInv, Issue
  <2>5. Stays
    BY <1>1, <1>5, <1>8, <2>1, <2>2, <2>3, <2>4 DEF Stays, locks
  <2> QED  BY <1>1, <2>5, StaysKeeps
<1>9. CASE index' = mem' /\ Goes("purge", run)
  <2>1. pc' = "purge" /\ run' = run /\ writeLock' = writeLock
    BY <1>9 DEF Goes, locks
  <2>2. Forgets
    <3>1. index' # index
      BY <1>2, <1>9
    <3> QED  BY <1>1, <1>2, <1>3, <1>4, <3>1 DEF Forgets
  <2>3. ToDo'
    BY <1>1, <1>2, <2>1 DEF KInv, ToDo, AtLeft
  <2>4. Sending' /\ Carrying' /\ Left'
    BY <2>1 DEF Sending, Carrying, AtLeft, Hidden, Left
  <2>5. run'.sent <= issued
    BY <2>1 DEF KInv, Issue
  <2>6. Stays
    BY <1>1, <1>5, <2>1, <2>2, <2>3, <2>4, <2>5 DEF Stays
  <2> QED  BY <1>1, <2>6, StaysKeeps
<1> QED  BY <1>6, <1>7, <1>8, <1>9 DEF LetGo, GoesOn, Goes

(* What is deleted is named by no renewal the run has not let go of.         *)
LEMMA PurgeKeeps == ASSUME Inv, KInv, Purge PROVE KInv'
<1> USE AreNumbers DEF Inv
<1>1. PICK kept \in SUBSET mem.discarded :
        /\ vault' = [n \in Names |-> IF n \in mem.discarded \ kept THEN NoLogin ELSE vault[n]]
        /\ mem' = [mem EXCEPT !.discarded = kept]
  BY DEF Purge
<1>2. /\ pc = "purge" /\ pc' = "purged" /\ run' = run
      /\ UNCHANGED <<slot, index, answer, issued, sess, doc, clock, mine, lost, writeLock>>
  BY DEF Purge, Goes, service, world, history, locks
<1>3. mem'.renewing = mem.renewing /\ mem'.discarded = kept
  BY <1>1 DEF TypeOK, States
<1>4. \A n \in Names : vault'[n] \in {vault[n], NoLogin}
                       /\ (n \notin mem.discarded => vault'[n] = vault[n])
  BY <1>1
<1>5. Issue'
  BY <1>2, <1>4 DEF KInv, Issue
<1>6. Sessions'
  BY <1>2, <1>4 DEF KInv, Sessions, Unseen, Out
<1>7. Copies'
  BY <1>1, <1>2, <1>3, <1>4 DEF KInv, Copies
<1>8. Copied'
  BY <1>2, <1>4 DEF KInv, Copied, Out
<1>9. Held'
  <2> SUFFICES ASSUME NEW l \in {slot.login, doc.login}, l \in mine, l \notin lost
               PROVE  Covered(l)'
    BY <1>2 DEF Held
  <2>1. PICK w \in index.renewing : w.sent = l /\ vault[w.copy] = answer[l]
    BY <1>2 DEF KInv, Held, Covered, Carries
  <2>2. vault[w.copy] # NoLogin
    BY <2>1 DEF KInv, Issue
  <2>3. w \in mem.renewing
    BY <1>2, <2>1, <2>2 DEF KInv, Dropped, Idle, Out
  <2>4. vault'[w.copy] = vault[w.copy]
    BY <1>4, <2>3 DEF KInv, Copies
  <2> QED  BY <1>2, <2>1, <2>4 DEF Covered
<1>10. Dropped'
  <2> SUFFICES ASSUME NEW w \in index.renewing \ mem.renewing PROVE Idle(w)'
    BY <1>2, <1>3 DEF Dropped
  <2>1. Idle(w)
    BY <1>2 DEF KInv, Dropped
  <2>2. vault'[w.copy] \in {vault[w.copy], NoLogin}
    BY <1>4
  <2> QED  BY <1>2, <2>1, <2>2 DEF Idle, Out, Unseen
<1>11. ToDo'
  BY <1>2, <1>3 DEF KInv, ToDo, AtLeft
<1>12. Sending' /\ Carrying' /\ Left'
  BY <1>2 DEF Sending, Carrying, AtLeft, Hidden, Left
<1> QED  BY <1>5, <1>6, <1>7, <1>8, <1>9, <1>10, <1>11, <1>12 DEF KInv

(* The index in mind is saved, or not, and the run goes on.                  *)
LEMMA PurgedKeeps == ASSUME Inv, KInv, Purged PROVE KInv'
<1> USE AreNumbers DEF Inv
<1>1. /\ pc = "purged" /\ index' \in {index, mem'} /\ GoesOn
      /\ UNCHANGED <<slot, vault, service, world, mem, clock, mine, lost>>
  BY DEF Purged, history
<1>2. Handed
  BY <1>1, NothingInHand
<1>3. CASE ~run.renews
  <2>1. pc' = "finish" /\ run' = run /\ writeLock' = writeLock
    BY <1>1, <1>3 DEF GoesOn, Goes, locks
  <2>2. ToDo' /\ Sending' /\ Carrying' /\ Left'
    BY <1>1, <1>3, <2>1 DEF KInv, ToDo, AtLeft, Sending, Carrying, Left
  <2>3. run'.sent <= issued
    BY <2>1 DEF KInv, Issue
  <2>4. Stays
    BY <1>1, <1>2, <1>3, <2>1, <2>2, <2>3 DEF Stays
  <2> QED  BY <1>1, <2>4, StaysKeeps
<1>4. CASE run.renews /\ Ends
  <2>1. pc' = "idle" /\ run' = NoRun /\ (writeLock = "session" => writeLock' = "session")
    BY <1>4, ReleasedIs DEF Ends, GoesFree
  <2> QED  BY <1>1, <1>2, <2>1, EndKeeps
<1>5. CASE run.renews /\ LooksAgain
  <2>1. mem'.renewing = {}
    BY <1>1, <1>5 DEF KInv, ToDo
  <2> QED  BY <1>1, <1>2, <1>5, <2>1, LooksAgainKeeps
<1> QED  BY <1>1, <1>3, <1>4, <1>5 DEF GoesOn

-----------------------------------------------------------------------------
(* The run's beginning and its death                                         *)

(* A run reads the index it is to act on.                                    *)
LEMMA StartKeeps == ASSUME Inv, KInv, Start PROVE KInv'
<1> USE AreNumbers DEF Inv
<1>1. /\ pc = "idle" /\ pc' = "finish" /\ mem' = index
      /\ UNCHANGED <<slot, vault, index, answer, issued, sess, doc, clock, mine, lost, writeLock>>
      /\ ~run'.renews /\ run'.todo = index.renewing
      /\ run'.seen.login = NoLogin /\ run'.sent = NoLogin /\ run'.fresh = NoLogin
  BY DEF Start, Goes, NoRun, NoDoc, disk, service, world, history, locks
<1>2. Issue'
  BY <1>1 DEF KInv, Issue
<1>3. Sessions'
  BY <1>1 DEF KInv, Sessions, Unseen, Out
<1>4. Copies' /\ Copied'
  BY <1>1 DEF KInv, Copies, Copied, Out
<1>5. Held'
  BY <1>1 DEF KInv, Held, Covered, Carries
<1>6. Dropped' /\ ToDo'
  BY <1>1 DEF Dropped, ToDo, AtLeft
<1>7. Sending' /\ Carrying' /\ Left'
  BY <1>1 DEF Sending, Carrying, AtLeft, Left
<1> QED  BY <1>2, <1>3, <1>4, <1>5, <1>6, <1>7 DEF KInv

(* A run dies, with what it had in mind; a copy that landed is left.         *)
LEMMA CrashKeeps == ASSUME Inv, KInv, Crash PROVE KInv'
<1> USE AreNumbers DEF Inv
<1>1. /\ pc # "idle" /\ pc' = "idle" /\ run' = NoRun /\ lost \subseteq lost'
      /\ UNCHANGED <<vault, index, service, world, mem, clock, mine>>
      /\ slot'.login \in {slot.login, Unread}
      /\ writeLock = "session" => writeLock' = "session"
  BY SlotIs DEF Crash, Loses
<1>2. Handed
  <2> SUFFICES ASSUME NEW l \in {slot.login, doc.login}, l \in mine, l \notin lost', Carries(l)
               PROVE  \E w \in index.renewing : w.sent = l /\ vault[w.copy] = answer[l]
    BY <1>1 DEF Handed
  <2>1. /\ run.renews /\ run.sent = l /\ run.fresh = answer[l] /\ run.fresh \in Logins
        /\ pc \in {"copy", "saveLock", "save", "write", "saved"}
    BY DEF Carries, KInv, Issue
  <2>2. run.landed
    BY <2>1 DEF Crash, Loses
  <2>3. run.copy # NoName /\ vault[run.copy] = run.fresh
    BY <2>1, <2>2 DEF KInv, Carrying, Sending
  <2>4. Own \in index.renewing /\ Own.sent = run.sent /\ Own.copy = run.copy
    BY <2>1, <2>3 DEF KInv, ToDo, Copies, Own
  <2> QED  BY <2>1, <2>3, <2>4
<1> QED  BY <1>1, <1>2, EndKeeps

(* Nothing is spent to begin with.                                           *)
LEMMA InitKeeps == Init => KInv
<1> SUFFICES ASSUME Init PROVE KInv
  OBVIOUS
<1>1. Inv
  BY InitFits
<1> USE AreNumbers DEF Inv
<1>2. /\ slot.login = 1 /\ issued = 1 /\ doc.login = NoLogin /\ sess.fresh = NoLogin
      /\ mine = {} /\ pc = "idle" /\ index.renewing = {} /\ mem.renewing = {}
      /\ index.discarded = {} /\ mem.discarded = {}
      /\ run.seen.login = NoLogin /\ run.sent = NoLogin /\ run.fresh = NoLogin
      /\ ~run.renews /\ run.todo = {}
      /\ \A n \in Names : vault[n] = NoLogin
      /\ \A l \in Logins : answer[l] = NoLogin
  BY DEF Init, NoRun, NoDoc, NoRenewal
<1>3. Issue /\ Sessions /\ Copies /\ Copied
  BY <1>1, <1>2 DEF Issue, Sessions, Copies, Copied
<1>4. Held /\ Dropped /\ ToDo /\ Sending /\ Carrying /\ Left
  BY <1>1, <1>2 DEF Held, Dropped, ToDo, AtLeft, Sending, Carrying, Left
<1> QED  BY <1>3, <1>4 DEF KInv

-----------------------------------------------------------------------------
(* The theorems                                                              *)

(* No step breaks the invariant.                                             *)
LEMMA NextKeeps == Inv /\ KInv /\ [Next]_vars => KInv'
<1> SUFFICES ASSUME Inv, KInv, [Next]_vars PROVE KInv'
  OBVIOUS
<1>1. CASE Process
  BY <1>1, LeftKeeps, LeftSaveKeeps, LooksKeep, ReserveKeeps, NotReservedKeeps, AnsweredKeeps,
     NotAnsweredKeeps, CopyKeeps, SaveLocksKeeps, SaveReadsKeeps, WriteKeeps, SavedKeeps,
     LetGoKeeps, PurgeKeeps, PurgedKeeps DEF Process
<1>2. CASE Start \/ Crash
  BY <1>2, StartKeeps, CrashKeeps
<1>3. CASE \/ SessionSends \/ SessionSaves \/ SessionReads \/ SessionWrites \/ SessionDies
           \/ Lapses \/ SignIn \/ LogOut
  BY <1>3, SessionRenews, SessionRewrites, SessionGoes, SigningKeeps
<1>4. CASE UNCHANGED vars
  <2>1. /\ UNCHANGED <<slot, vault, index, answer, issued, sess, doc, writeLock>>
        /\ UNCHANGED <<pc, mem, run, clock, mine, lost>>
    BY <1>4 DEF vars, disk, service, locks, world, process, history
  <2>2. Foreign
    BY <2>1 DEF KInv, Foreign, Issue, Sessions, Unseen, Out
  <2> QED  BY <2>2, ForeignKeeps
<1> QED  BY <1>1, <1>2, <1>3, <1>4 DEF Next

(* The invariant holds, whatever the bounds and whatever fails.              *)
THEOREM KeptHolds == Spec => [](Inv /\ KInv)
<1>1. Init => Inv /\ KInv
  BY InitFits, InitKeeps
<1>2. (Inv /\ KInv) /\ [Next]_vars => (Inv /\ KInv)'
  BY StepFits, NextKeeps
<1> QED  BY <1>1, <1>2, PTL DEF Spec

(* Where Claude Code is signed in with a login Pitboard spent, the answer is *)
(* in the run's hands or in a copy a later run finds by the saved index,     *)
(* wherever a run of refresh.rs stops.                                       *)
THEOREM AnswersAreKept == Spec => []AnswerKept
<1>1. Inv /\ KInv => AnswerKept
  BY DEF KInv, Held, Covered, AnswerKept
<1> QED  BY <1>1, KeptHolds, PTL

(* What a step sends is what was in the store at the last look.              *)
LEMMA SendsSeen ==
  ASSUME Inv, KInv, [Next]_vars, pc # "send", pc' = "send"
  PROVE  run'.sent \notin mine \ lost
<1>1. CASE Reserve \/ ReserveNone
  <2>1. pc = "reserve" /\ run'.sent = run.seen.login
    BY <1>1 DEF Reserve, ReserveNone, Goes, Inv, TypeOK, Runs
  <2> QED  BY <2>1 DEF KInv, Sending
<1>2. CASE Saved \/ LetGo \/ Purged \/ Check
  <2>1. pc' # "send"
    BY <1>2 DEF Saved, LetGo, Purged, Check, GoesOn, LooksAgain, Ends, Waits, Goes, GoesFree
  <2> QED  BY <2>1
<1>3. CASE LeftRead \/ LeftLocks \/ Refreshing
  <2>1. pc' # "send"
    BY <1>3 DEF LeftRead, LeftLocks, Refreshing, Waits, Ends, Goes, GoesFree
  <2> QED  BY <2>1
<1>4. CASE UNCHANGED <<pc>>
  BY <1>4
<1> QED
  BY <1>1, <1>2, <1>3, <1>4
     DEF Next, Process, Start, Crash, SessionSends, SessionSaves, SessionReads, SessionWrites,
         SessionDies, Lapses, SignIn, LogOut, NextLeft, Settled, Finished, Stopped, Again,
         NothingSent, Answered, NotAnswered, Copy, SaveLocks, SaveReads, Write, WriteFails,
         Purge, Goes, GoesFree, Ends, process, vars

(* Pitboard sends no login it has spent and has the answer of (`finished').  *)
THEOREM SpentIsNotSent == Spec => NotSentTwice
<1>1. (Inv /\ KInv) /\ [Next]_vars =>
        [pc # "send" /\ pc' = "send" => run'.sent \notin mine \ lost]_vars
  BY SendsSeen
<1> QED  BY <1>1, KeptHolds, PTL DEF Spec, NotSentTwice

=============================================================================
