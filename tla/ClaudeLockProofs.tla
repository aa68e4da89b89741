-------------------------- MODULE ClaudeLockProofs --------------------------
(* What TLAPS proves of ClaudeLock for any processes, timings and bounds:    *)
(*   TypeCorrect    Spec => []TypeOK                                         *)
(*   HolderIsTold   Spec => []ToldWithinABeat                                *)
(*   AlarmsAreTrue  Spec => AlarmIsTrue                                      *)
(*   LockExcludes   on time, Spec => []Exclusive                             *)
(*   OneOfTwoIsTold with steps less late than a beat, Spec => []OneIsTold    *)
(*   SaversOutwait  with waits enough, Spec => SaverOutwaits                 *)
(* The second and third are parts of one invariant, Inv: how long each step  *)
(* may last, how long its process has been astray there, what its guard      *)
(* remembers.  LockExcludes adds how old the directory may be at each step   *)
(* of its holder, which is what keeps anybody from finding it abandoned; the *)
(* next, how long two have kept the lock at each pair of their steps; the    *)
(* last, how old a lock that stood when a saver began asking is by now.      *)
EXTENDS ClaudeLock, TLAPS

-----------------------------------------------------------------------------
(* Types                                                                     *)

(* Moving a process to a step keeps the types of pc and since.               *)
LEMMA AtTypes ==
  ASSUME TypeOK, NEW p \in Process, NEW step \in Steps, At(p, step)
  PROVE  pc' \in [Process -> Steps] /\ since' \in [Process -> Nat]
  BY DEF TypeOK, At

(* Another attempt, or the end of the last one, keeps the types too.         *)
LEMMA NextTryTypes ==
  ASSUME TypeOK, NEW p \in Process, NEW step \in Steps, NextTry(p, step)
  PROVE  /\ pc' \in [Process -> Steps] /\ since' \in [Process -> Nat]
         /\ tries' \in [Process -> 0 .. Retries]
         /\ round' \in [Process -> 1 .. SaveRounds]
<1>1. CASE tries[p] < Retries
  BY <1>1, AtTypes, TimingAssumption DEF NextTry, TypeOK
<1>2. CASE ~(tries[p] < Retries)
  <2>1. tries[p] = Retries /\ tries' = [tries EXCEPT ![p] = 0]
    BY <1>2 DEF NextTry, TypeOK
  <2>2. CASE p \in Savers /\ round[p] < SaveRounds /\ At(p, "ask")
               /\ round' = [round EXCEPT ![p] = @ + 1]
    <3>1. "ask" \in Steps
      BY DEF Steps
    <3> QED  BY <2>1, <2>2, <3>1, AtTypes, TimingAssumption DEF TypeOK
  <2>3. CASE At(p, "idle") /\ UNCHANGED round
    <3>1. "idle" \in Steps
      BY DEF Steps
    <3> QED  BY <2>1, <2>3, <3>1, AtTypes, TimingAssumption DEF TypeOK
  <2> QED  BY <1>2, <2>2, <2>3 DEF NextTry
<1> QED  BY <1>1, <1>2

(* A directory made or touched by a process is of its type.                  *)
LEMMA BecomesTypes ==
  ASSUME TypeOK, NEW p \in Process, NEW s \in FreshStamps(p),
         NEW age \in 0 .. Stale + 1, Becomes([stamp |-> s, age |-> age])
  PROVE  /\ dir' \in [stamp : Stamp, age : 0 .. Stale + 1]
         /\ stood' \in [Process -> BOOLEAN]
  BY DEF Becomes, FreshStamps

(* Starting a process's time together anew keeps the type of together.       *)
LEMMA AnewTypes ==
  ASSUME TypeOK, NEW p \in Process
  PROVE  Anew(p) \in [Process \X Process -> 0 .. TwoBeats + 1]
<1>1. 0 \in 0 .. TwoBeats + 1
  BY TimingAssumption DEF TwoBeats
<1> QED  BY <1>1 DEF Anew, TypeOK

(* The initial state is of its type.                                         *)
LEMMA InitTypes == Init => TypeOK
  BY TimingAssumption DEF Init, TypeOK, Steps, TwoBeats

(* Asking keeps the types.                                                   *)
LEMMA AskingTypes ==
  ASSUME TypeOK, NEW p \in Process,
         \/ Ask(p) \/ Create(p) \/ Exists(p) \/ AskFails(p) \/ FindHeld(p)
         \/ FindAbandoned(p) \/ Remove(p) \/ WaitOver(p)
  PROVE  TypeOK'
<1> USE TimingAssumption
<1>0. {"idle", "ask", "look", "remove", "wait", "made"} \subseteq Steps
  BY DEF Steps
<1>1. CASE Ask(p)
  BY <1>0, <1>1, AtTypes DEF Ask, TypeOK, bounds, history
<1>2. CASE Create(p)
  <2>1. dir' \in [stamp : Stamp, age : 0 .. Stale + 1]
        /\ stood' \in [Process -> BOOLEAN]
    BY <1>2, BecomesTypes DEF Create
  <2>2. together' \in [Process \X Process -> 0 .. TwoBeats + 1]
    BY <1>2, AnewTypes DEF Create
  <2>3. pc' \in [Process -> Steps] /\ since' \in [Process -> Nat]
    BY <1>0, <1>2, AtTypes DEF Create
  <2>4. astray' \in [Process -> 0 .. Beat + 2 * Late + 1]
    BY <1>2 DEF Create, TypeOK
  <2> QED  BY <1>2, <2>1, <2>2, <2>3, <2>4 DEF Create, TypeOK, bounds
<1>3. CASE Exists(p)
  BY <1>0, <1>3, AtTypes DEF Exists, TypeOK, bounds, history
<1>4. CASE AskFails(p)
  BY <1>0, <1>4, AtTypes DEF AskFails, TypeOK, Fault, history
<1>5. CASE FindHeld(p)
  BY <1>0, <1>5, NextTryTypes DEF FindHeld, TypeOK, bounds, history
<1>6. CASE FindAbandoned(p)
  BY <1>0, <1>6, AtTypes DEF FindAbandoned, TypeOK, bounds, history
<1>7. CASE Remove(p)
  <2>1. CASE Becomes(NoDir) /\ UNCHANGED faults
    <3>1. dir' = NoDir /\ stood' \in [Process -> BOOLEAN]
      BY <2>1 DEF Becomes
    <3> QED  BY <1>0, <1>7, <2>1, <3>1, NextTryTypes DEF Remove, TypeOK, history
  <2>2. CASE Fault /\ UNCHANGED <<dir, stood>>
    <3>1. faults' \in 0 .. MaxFaults
      BY <2>2 DEF Fault, TypeOK
    <3> QED  BY <1>0, <1>7, <2>2, <3>1, NextTryTypes DEF Remove, TypeOK, history
  <2> QED  BY <1>7, <2>1, <2>2 DEF Remove
<1>8. CASE WaitOver(p)
  BY <1>0, <1>8, AtTypes DEF WaitOver, TypeOK, bounds, history
<1> QED  BY <1>1, <1>2, <1>3, <1>4, <1>5, <1>6, <1>7, <1>8

(* Holding keeps the types.                                                  *)
LEMMA HoldingTypes ==
  ASSUME TypeOK, NEW p \in Process,
         \/ Started(p) \/ NotStarted(p) \/ Look(p) \/ Touch(p) \/ ReadBack(p)
         \/ FindLost(p) \/ Stop(p) \/ Drop(p) \/ DropLost(p) \/ Crash(p)
  PROVE  TypeOK'
<1> USE TimingAssumption
<1>0. {"idle", "held", "touch", "stored", "drop", "lost"} \subseteq Steps
  BY DEF Steps
<1>1. CASE Started(p)
  BY <1>0, <1>1, AtTypes, AnewTypes DEF Started, TypeOK, bounds, history
<1>2. CASE NotStarted(p)
  BY <1>0, <1>2, AtTypes DEF NotStarted, TypeOK, Fault, history
<1>3. CASE Look(p)
  BY <1>0, <1>3, AtTypes DEF Look, TypeOK, bounds, history
<1>4. CASE Touch(p)
  BY <1>0, <1>4, AtTypes, BecomesTypes DEF Touch, TypeOK, bounds, history
<1>5. CASE ReadBack(p)
  BY <1>0, <1>5, AtTypes, AnewTypes DEF ReadBack, TypeOK, bounds, history
<1>6. CASE FindLost(p)
  BY <1>0, <1>6, AtTypes DEF FindLost, TypeOK, Fault, history
<1>7. CASE Stop(p)
  BY <1>0, <1>7, AtTypes DEF Stop, TypeOK, bounds, history
<1>8. CASE Drop(p)
  <2>1. CASE Becomes(NoDir) /\ UNCHANGED faults
    <3>1. dir' = NoDir /\ stood' \in [Process -> BOOLEAN]
      BY <2>1 DEF Becomes
    <3> QED  BY <1>0, <1>8, <2>1, <3>1, AtTypes DEF Drop, TypeOK, history
  <2>2. CASE Fault /\ UNCHANGED <<dir, stood>>
    <3>1. faults' \in 0 .. MaxFaults
      BY <2>2 DEF Fault, TypeOK
    <3> QED  BY <1>0, <1>8, <2>2, <3>1, AtTypes DEF Drop, TypeOK, history
  <2> QED  BY <1>8, <2>1, <2>2 DEF Drop
<1>9. CASE DropLost(p)
  BY <1>0, <1>9, AtTypes DEF DropLost, TypeOK, bounds, history
<1>10. CASE Crash(p)
  BY <1>0, <1>10, AtTypes DEF Crash, TypeOK, history
<1> QED  BY <1>1, <1>2, <1>3, <1>4, <1>5, <1>6, <1>7, <1>8, <1>9, <1>10

(* Time and sleep keep the types.                                            *)
LEMMA TimeTypes ==
  ASSUME TypeOK, Tick \/ Sleep
  PROVE  TypeOK'
<1> USE TimingAssumption
<1>1. CASE Tick
  <2>1. dir' \in [stamp : Stamp, age : 0 .. Stale + 1] \cup {NoDir}
    BY <1>1 DEF Tick, TypeOK, Older
  <2>2. since' \in [Process -> Nat]
    BY <1>1 DEF Tick, TypeOK
  <2>3. woke' \in [Process -> 0 .. Stale + 1]
    BY <1>1 DEF Tick, TypeOK, Older
  <2>4. astray' \in [Process -> 0 .. Beat + 2 * Late + 1]
    BY <1>1 DEF Tick, TypeOK
  <2>5. together' \in [Process \X Process -> 0 .. TwoBeats + 1]
    BY <1>1 DEF Tick, TypeOK, TwoBeats
  <2> QED  BY <1>1, <2>1, <2>2, <2>3, <2>4, <2>5 DEF Tick, TypeOK, bounds, history
<1>2. CASE Sleep
  BY <1>2 DEF Sleep, TypeOK, history
<1> QED  BY <1>1, <1>2

(* Every step keeps the types.                                               *)
LEMMA StepTypes == TypeOK /\ [Next]_vars => TypeOK'
<1> SUFFICES ASSUME TypeOK, [Next]_vars PROVE TypeOK'
  OBVIOUS
<1>1. CASE UNCHANGED vars
  BY <1>1 DEF TypeOK, vars, procVars, bounds, history
<1>2. CASE Next
  BY <1>2, AskingTypes, HoldingTypes, TimeTypes DEF Next, Acts
<1> QED  BY <1>1, <1>2

(* ClaudeLock's variables keep their types.                                  *)
THEOREM TypeCorrect == Spec => []TypeOK
  BY InitTypes, StepTypes, PTL DEF Spec

-----------------------------------------------------------------------------
(* A holder is told within a beat                                            *)

(* No process is at a step for longer than it may be, awake.                 *)
Timed == \A p \in Process : since[p] <= Limit(pc[p])

(* What each step knows of how long p has been astray, and p's mtime being   *)
(* on the directory of p's not being astray.                                 *)
Astray(p) ==
  /\ Keeps(p) /\ Stamped(p) => astray[p] = 0
  /\ pc[p] \in {"made", "stored"} => astray[p] <= since[p]
  /\ pc[p] \in {"held", "touch"} /\ held[p].by = p => astray[p] <= since[p]
  /\ pc[p] = "drop" /\ held[p].by = p => astray[p] <= Beat + Late + since[p]

(* The mtime a guard remembers: one, from its start on; and the directory's, *)
(* between two beats, where the process stored that.                         *)
Remembers(p) ==
  /\ pc[p] \in {"held", "touch", "drop"} => held[p] # NoDir
  /\ pc[p] = "held" /\ Stamped(p) => held[p] = dir.stamp

Inv == TypeOK /\ Timed /\ \A p \in Process : Astray(p) /\ Remembers(p)

(* What Astray and Remembers say of a process survives any step that leaves  *)
(* it where it is and the mtime on the directory alone, or puts on another's.*)
LEMMA OthersKept ==
  ASSUME Inv, NEW q \in Process,
         UNCHANGED <<pc[q], since[q], held[q], astray[q]>>,
         Stamped(q)' => Stamped(q) /\ dir'.stamp = dir.stamp
  PROVE  Astray(q)' /\ Remembers(q)'
  BY DEF Inv, Astray, Remembers, Keeps, Stamped

(* At keeps Timed: a process has been at a new step for no time at all.      *)
LEMMA AtTimed ==
  ASSUME Inv, NEW p \in Process, NEW step \in Steps, At(p, step)
  PROVE  Timed'
  BY TimingAssumption DEF Inv, TypeOK, Timed, At, Limit

(* A step that ends or has no guard keeps the invariant.                     *)
LEMMA GuardlessKept ==
  ASSUME Inv, NEW p \in Process, NEW step \in Steps \ Keeping, At(p, step),
         dir' \in {dir, NoDir},
         held' \in {held, [held EXCEPT ![p] = NoDir]}, UNCHANGED astray
  PROVE  Timed' /\ \A q \in Process : Astray(q)' /\ Remembers(q)'
<1>1. Timed'
  BY AtTimed
<1>2. ASSUME NEW q \in Process PROVE Astray(q)' /\ Remembers(q)'
  <2>1. CASE q = p
    <3>1. pc'[p] \notin Keeping
      BY DEF At, Inv, TypeOK
    <3> QED  BY <2>1, <3>1 DEF Astray, Remembers, Keeps, Keeping
  <2>2. CASE q # p
    BY <2>2, OthersKept DEF At, Inv, TypeOK, Stamped
  <2> QED  BY <2>1, <2>2
<1> QED  BY <1>1, <1>2

(* So do all those steps.                                                    *)
LEMMA GuardlessSteps ==
  ASSUME Inv, NEW p \in Process,
         \/ Ask(p) \/ Exists(p) \/ AskFails(p) \/ FindHeld(p)
         \/ FindAbandoned(p) \/ Remove(p) \/ WaitOver(p) \/ NotStarted(p)
         \/ FindLost(p) \/ Drop(p) \/ DropLost(p) \/ Crash(p)
  PROVE  Timed' /\ \A q \in Process : Astray(q)' /\ Remembers(q)'
<1>0. {"idle", "ask", "look", "remove", "wait", "lost"} \subseteq Steps \ Keeping
  BY DEF Steps, Keeping
<1>1. ASSUME NEW step \in {"ask", "wait"}, NextTry(p, step)
      PROVE  \E s \in Steps \ Keeping : At(p, s)
  BY <1>0, <1>1 DEF NextTry
<1>2. \E s \in Steps \ Keeping : At(p, s)
  BY <1>0, <1>1 DEF Ask, Exists, AskFails, FindHeld, FindAbandoned, Remove,
       WaitOver, NotStarted, FindLost, Drop, DropLost, Crash
<1>3. dir' \in {dir, NoDir}
  BY DEF Ask, Exists, AskFails, FindHeld, FindAbandoned, Remove, Becomes,
       WaitOver, NotStarted, FindLost, Drop, DropLost, Crash
<1>4. held' \in {held, [held EXCEPT ![p] = NoDir]} /\ UNCHANGED astray
  BY DEF Ask, Exists, AskFails, FindHeld, FindAbandoned, Remove,
       WaitOver, NotStarted, FindLost, Drop, DropLost, Crash, history
<1> QED  BY <1>2, <1>3, <1>4, GuardlessKept

(* A directory made or touched carries the mtime of whoever did it.          *)
LEMMA StampKept ==
  ASSUME Inv, NEW p \in Process, Create(p) \/ Touch(p)
  PROVE  Timed' /\ \A q \in Process : Astray(q)' /\ Remembers(q)'
<1>0. {"made", "stored"} \subseteq Steps
  BY DEF Steps
<1>1. /\ At(p, "made") \/ At(p, "stored")
      /\ UNCHANGED held /\ astray' = [astray EXCEPT ![p] = 0]
  BY DEF Create, Touch
<1>2. PICK s \in FreshStamps(p) : dir' # NoDir /\ dir'.stamp = s
  <2>1. PICK s \in FreshStamps(p), age \in 0 .. Stale + 1 :
           Becomes([stamp |-> s, age |-> age])
    <3>1. 0 \in 0 .. Stale + 1 /\ woke[p] \in 0 .. Stale + 1
      BY TimingAssumption DEF Inv, TypeOK
    <3>2. CASE Create(p)
      BY <3>1, <3>2 DEF Create
    <3>3. CASE Touch(p)
      BY <3>1, <3>3 DEF Touch
    <3> QED  BY <3>2, <3>3
  <2>2. [stamp |-> s, age |-> age] \in [stamp : Stamp, age : Nat]
    BY TimingAssumption DEF FreshStamps
  <2> QED  BY <2>1, <2>2, TimingAssumption DEF Becomes
<1>3. Timed'
  BY <1>0, <1>1, AtTimed
<1>4. ASSUME NEW q \in Process PROVE Astray(q)' /\ Remembers(q)'
  <2>1. CASE q = p
    BY <1>1, <2>1 DEF At, Inv, TypeOK, Astray, Remembers
  <2>2. CASE q # p
    BY <1>1, <1>2, <2>2, OthersKept DEF At, Inv, TypeOK, Stamped, FreshStamps
  <2> QED  BY <2>1, <2>2
<1> QED  BY <1>3, <1>4

(* A guard reads the directory's mtime.                                      *)
LEMMA ReadKept ==
  ASSUME Inv, NEW p \in Process, Started(p) \/ ReadBack(p)
  PROVE  Timed' /\ \A q \in Process : Astray(q)' /\ Remembers(q)'
<1>0. "held" \in Steps
  BY DEF Steps
<1>1. /\ At(p, "held") /\ dir # NoDir /\ held' = [held EXCEPT ![p] = dir.stamp]
      /\ UNCHANGED <<dir, astray>> /\ Keeps(p)
  BY DEF Started, ReadBack, Keeps, Keeping
<1>2. dir.stamp \in Stamp /\ dir.stamp # NoDir
  BY <1>1, TimingAssumption DEF Inv, TypeOK
<1>3. Timed'
  BY <1>0, <1>1, AtTimed
<1>4. ASSUME NEW q \in Process PROVE Astray(q)' /\ Remembers(q)'
  <2>1. CASE q = p
    <3>1. pc'[p] = "held" /\ since'[p] = 0 /\ held'[p] = dir.stamp
      BY <1>1 DEF At, Inv, TypeOK
    <3>2. Stamped(p) => astray[p] = 0
      BY <1>1 DEF Inv, Astray
    <3> QED  BY <1>1, <1>2, <2>1, <3>1, <3>2 DEF Astray, Remembers, Stamped
  <2>2. CASE q # p
    BY <1>1, <2>2, OthersKept DEF At, Inv, TypeOK, Stamped
  <2> QED  BY <2>1, <2>2
<1> QED  BY <1>3, <1>4

(* A look that finds the directory its own, and the end of the heartbeat.    *)
LEMMA LookStopKept ==
  ASSUME Inv, NEW p \in Process, Look(p) \/ Stop(p)
  PROVE  Timed' /\ \A q \in Process : Astray(q)' /\ Remembers(q)'
<1>0. {"touch", "drop"} \subseteq Steps
  BY DEF Steps
<1>1. /\ pc[p] = "held" /\ Keeps(p) /\ UNCHANGED <<dir, held, astray>>
      /\ \/ At(p, "touch") /\ IsMine(p)
         \/ At(p, "drop")
  BY DEF Look, Stop, Keeps, Keeping, history
<1>2. Timed'
  BY <1>0, <1>1, AtTimed
<1>3. ASSUME NEW q \in Process PROVE Astray(q)' /\ Remembers(q)'
  <2>1. CASE q = p
    <3>1. held'[p] # NoDir /\ Stamped(p)' = Stamped(p) /\ since'[p] = 0
      BY <1>1 DEF Inv, Remembers, Stamped, At, TypeOK
    <3>2. Stamped(p) => astray'[p] = 0
      BY <1>1 DEF Inv, Astray
    <3>3. CASE At(p, "touch") /\ IsMine(p)
      <4>1. held'[p].by = p => astray'[p] = 0
        BY <1>1, <3>2, <3>3 DEF IsMine, Stamped
      <4>2. pc'[p] = "touch"
        BY <3>3 DEF At, Inv, TypeOK
      <4> QED  BY <2>1, <3>1, <3>2, <4>1, <4>2 DEF Astray, Remembers
    <3>4. CASE At(p, "drop")
      <4>1. held'[p].by = p => astray'[p] <= Beat + Late
        BY <1>1, TimingAssumption
           DEF Inv, Timed, Astray, Limit, Untimed, TypeOK
      <4>2. pc'[p] = "drop"
        BY <3>4 DEF At, Inv, TypeOK
      <4> QED  BY <2>1, <3>1, <3>2, <4>1, <4>2, TimingAssumption
                  DEF Astray, Remembers, Inv, TypeOK
    <3> QED  BY <1>1, <3>3, <3>4
  <2>2. CASE q # p
    BY <1>1, <2>2, OthersKept DEF At, Inv, TypeOK, Stamped
  <2> QED  BY <2>1, <2>2
<1> QED  BY <1>2, <1>3

(* Time goes by for a process at its step and for what it is astray alike.   *)
LEMMA TickKept ==
  ASSUME Inv, Tick
  PROVE  Timed' /\ \A q \in Process : Astray(q)' /\ Remembers(q)'
<1> USE TimingAssumption
<1>1. Timed'
  BY DEF Inv, TypeOK, Timed, Tick, Untimed, Limit
<1>2. ASSUME NEW q \in Process PROVE Astray(q)' /\ Remembers(q)'
  <2>1. UNCHANGED <<pc, held>> /\ (Stamped(q)' <=> Stamped(q))
        /\ (Stamped(q) => dir'.stamp = dir.stamp)
    <3>1. CASE dir = NoDir
      BY <3>1 DEF Tick, Stamped
    <3>2. CASE dir # NoDir
      <4>1. dir \in [stamp : Stamp, age : 0 .. Stale + 1]
            /\ dir' = [dir EXCEPT !.age = Older(@)]
        BY <3>2 DEF Tick, Inv, TypeOK
      <4>2. Older(dir.age) \in Nat
        BY <4>1 DEF Older
      <4>3. dir' \in [stamp : Stamp, age : Nat] /\ dir'.stamp = dir.stamp
        BY <4>1, <4>2
      <4>4. dir' # NoDir
        BY <4>3
      <4> QED  BY <3>2, <4>3, <4>4 DEF Tick, Stamped
    <3> QED  BY <3>1, <3>2
  <2>2. Keeps(q) => since'[q] = since[q] + 1
    BY DEF Tick, Keeps, Keeping, Untimed
  <2>3. /\ Keeps(q) /\ Stamped(q) => astray'[q] = 0
        /\ astray'[q] <= astray[q] + 1
    BY DEF Tick, Inv, TypeOK
  <2>4. Keeps(q)' = Keeps(q) /\ (pc[q] \in Keeping => Keeps(q))
    BY <2>1 DEF Keeps
  <2>5. Astray(q)'
    <3>1. /\ astray[q] \in Nat /\ astray'[q] \in Nat /\ since[q] \in Nat
          /\ pc'[q] = pc[q] /\ held'[q] = held[q] /\ Astray(q)
      BY <2>1, <1>1, TimeTypes DEF Inv, TypeOK
    <3>2. CASE Keeps(q)
      BY <2>1, <2>2, <2>3, <2>4, <3>1, <3>2 DEF Astray
    <3>3. CASE ~Keeps(q)
      BY <2>4, <3>1, <3>3 DEF Astray, Keeps, Keeping
    <3> QED  BY <3>2, <3>3
  <2>6. Remembers(q)'
    BY <2>1 DEF Remembers, Inv
  <2> QED  BY <2>5, <2>6
<1> QED  BY <1>1, <1>2

(* Asleep nothing is counted.                                                *)
LEMMA SleepKept ==
  ASSUME Inv, Sleep
  PROVE  Timed' /\ \A q \in Process : Astray(q)' /\ Remembers(q)'
<1>1. Timed'
  BY DEF Sleep, Inv, Timed, Limit, Untimed
<1>2. ASSUME NEW q \in Process PROVE Stamped(q)' => Stamped(q) /\ dir'.stamp = dir.stamp
  BY DEF Sleep, Stamped, Inv, TypeOK
<1> QED  BY <1>1, <1>2, OthersKept DEF Sleep, history

(* The invariant is inductive.                                               *)
LEMMA InvInit == Init => Inv
<1> SUFFICES ASSUME Init PROVE Inv
  OBVIOUS
<1>1. TypeOK
  BY InitTypes
<1>2. Timed
  <2>1. ASSUME NEW p \in Process PROVE pc[p] = "idle" /\ since[p] = 0
    BY DEF Init
  <2>2. Limit("idle") = Late
    BY DEF Limit
  <2>3. 0 <= Late
    BY TimingAssumption
  <2> QED  BY <2>1, <2>2, <2>3 DEF Timed
<1>3. ASSUME NEW p \in Process PROVE Astray(p) /\ Remembers(p)
  BY DEF Init, Astray, Remembers, Keeps, Keeping
<1> QED  BY <1>1, <1>2, <1>3 DEF Inv

(* No step leaves it.                                                        *)
LEMMA InvStep == Inv /\ [Next]_vars => Inv'
<1> SUFFICES ASSUME Inv, [Next]_vars PROVE Inv'
  OBVIOUS
<1>1. TypeOK'
  BY StepTypes DEF Inv
<1>2. Timed' /\ \A q \in Process : Astray(q)' /\ Remembers(q)'
  <2>1. CASE UNCHANGED vars
    BY <2>1 DEF Inv, Timed, Limit, Astray, Remembers, Keeps, Stamped, vars, procVars,
         history
  <2>2. CASE Next
    BY <2>2, GuardlessSteps, StampKept, ReadKept, LookStopKept, TickKept, SleepKept
       DEF Next, Acts
  <2> QED  BY <2>1, <2>2
<1> QED  BY <1>1, <1>2 DEF Inv

(* Whatever sleeps, dies or fails, a holder whose lock was taken goes on for *)
(* no longer than a beat, awake, unless it read back another's mtime.        *)
THEOREM HolderIsTold == Spec => []ToldWithinABeat
<1>1. Inv => ToldWithinABeat
  <2> SUFFICES ASSUME Inv, NEW p \in Process, Keeps(p), ~Misread(p)
               PROVE  astray[p] <= Beat + 2 * Late
    BY DEF ToldWithinABeat
  <2>1. since[p] <= Limit(pc[p])
    BY DEF Inv, Timed, Keeps, Keeping, Untimed
  <2>2. pc[p] \in {"held", "touch", "drop"} => held[p].by = p
    BY DEF Inv, Remembers, Misread
  <2> QED  BY <2>1, <2>2, TimingAssumption
              DEF Inv, TypeOK, Astray, Limit, Keeps, Keeping
<1> QED  BY <1>1, InvInit, InvStep, PTL DEF Spec

(* No heartbeat calls a lock lost that is still its own and can be reached.  *)
THEOREM AlarmsAreTrue == Spec => AlarmIsTrue
<1>1. ASSUME Inv, [Next]_vars, NEW p \in Process,
             pc[p] \in {"held", "touch", "stored"}, pc'[p] = "lost"
      PROVE  ~Stamped(p) \/ faults' # faults
  <2>1. FindLost(p)
    <3>1. ASSUME NEW q \in Process, NEW step \in Steps, At(q, step)
          PROVE  q = p /\ step = "lost"
      BY <1>1, <3>1 DEF At, Inv, TypeOK
    <3>2. Next
      BY <1>1 DEF vars, procVars, history
    <3>3. ~Tick /\ ~Sleep
      BY <1>1 DEF Tick, Sleep
    <3>4. PICK q \in Process : Ask(q) \/ Acts(q) \/ Crash(q)
      BY <3>2, <3>3 DEF Next
    <3>5. q = p
      BY <1>1, <3>4 DEF Acts, Ask, Create, Exists, AskFails, FindHeld, FindAbandoned,
           Remove, WaitOver, Started, NotStarted, Look, Touch, ReadBack, FindLost, Stop,
           Drop, DropLost, Crash, NextTry, At, Inv, TypeOK
    <3> QED
      BY <1>1, <3>4, <3>5 DEF Acts, Ask, Create, Exists, AskFails, FindHeld, FindAbandoned,
           Remove, WaitOver, Started, NotStarted, Look, Touch, ReadBack, Stop,
           Drop, DropLost, Crash, NextTry, At, Inv, TypeOK
  <2>2. CASE dir = NoDir
    BY <2>2 DEF Stamped
  <2>3. CASE pc[p] = "held" /\ ~IsMine(p)
    BY <2>3 , <1>1 DEF Inv, Remembers, Stamped, IsMine
  <2>4. CASE Fault
    BY <2>4, <1>1 DEF Fault, Inv, TypeOK
  <2> QED  BY <2>1, <2>2, <2>3, <2>4 DEF FindLost
<1>2. Inv /\ [Next]_vars
        => [\A p \in Process :
              pc[p] \in {"held", "touch", "stored"} /\ pc'[p] = "lost"
                => ~Stamped(p) \/ faults' # faults]_vars
  BY <1>1
<1> QED  BY <1>2, InvInit, InvStep, PTL DEF Spec, AlarmIsTrue

-----------------------------------------------------------------------------
(* Awake and on time the lock excludes                                       *)

(* A beat with each of its steps late is not yet stale: the look, the touch, *)
(* the reading back and the next look, each by Late.                         *)
OnTime == Beat + 4 * Late <= Stale

(* At most one process holds the lock.                                       *)
Alone == \A p, q \in Process : Keeps(p) /\ Keeps(q) => p = q

(* How old the directory's mtime may be when its holder is at a step.        *)
AgeAt(p) ==
  IF pc[p] = "made" THEN since[p]
  ELSE IF pc[p] = "stored" THEN Late + since[p]
  ELSE IF pc[p] = "held" THEN 2 * Late + since[p]
  ELSE Beat + 3 * Late + since[p]

(* A holder's directory is there, young, and carries the mtime it remembers. *)
HoldsYoung(p) ==
  /\ dir # NoDir /\ dir.age <= AgeAt(p)
  /\ pc[p] \in {"held", "touch", "drop"} => held[p] = dir.stamp
  /\ pc[p] = "touch" => woke[p] <= since[p]

(* The inductive invariant: one holder at most, a young directory while      *)
(* there is one, and no directory else; so nobody ever finds one abandoned.  *)
Timely ==
  /\ Inv
  /\ \A p \in Process : pc[p] \notin {"remove", "lost"}
  /\ Alone
  /\ \A p \in Process : Keeps(p) => HoldsYoung(p)
  /\ dir # NoDir => \E p \in Process : Keeps(p)

(* The young directory of a holder is not stale.                             *)
LEMMA NotAbandoned == ASSUME OnTime, Timely PROVE ~Abandoned
<1> SUFFICES ASSUME dir # NoDir PROVE dir.age <= Stale
  BY TimingAssumption DEF Abandoned, Timely, Inv, TypeOK
<1>1. PICK p \in Process : Keeps(p)
  BY DEF Timely
<1>2. since[p] <= Limit(pc[p])
  BY <1>1 DEF Timely, Inv, Timed, Keeps, Keeping, Untimed
<1>3. dir.age <= AgeAt(p)
  BY <1>1 DEF Timely, HoldsYoung
<1>4. AgeAt(p) <= Beat + 4 * Late
  BY <1>1, <1>2, TimingAssumption
     DEF AgeAt, Limit, Keeps, Keeping, Timely, Inv, TypeOK
<1>5. dir.age \in Nat /\ AgeAt(p) \in Nat
  BY <1>4, TimingAssumption DEF AgeAt, Timely, Inv, TypeOK
<1> QED  BY <1>3, <1>4, <1>5, TimingAssumption DEF OnTime

(* The part of Timely that is not Inv.                                       *)
Held ==
  /\ \A p \in Process : pc[p] \notin {"remove", "lost"}
  /\ Alone
  /\ \A p \in Process : Keeps(p) => HoldsYoung(p)
  /\ dir # NoDir => \E p \in Process : Keeps(p)

(* A process with no guard moves to another step without one.                *)
LEMMA AskersHeld ==
  ASSUME Timely, NEW p \in Process, ~Keeps(p),
         NEW step \in Steps \ (Keeping \cup {"remove", "lost"}), At(p, step),
         UNCHANGED <<dir, held, woke>>
  PROVE  Held'
<1>1. \A q \in Process : Keeps(q)' <=> Keeps(q)
  BY DEF At, Keeps, Timely, Inv, TypeOK
<1>2. \A q \in Process : q # p => pc'[q] = pc[q] /\ since'[q] = since[q]
  BY DEF At, Timely, Inv, TypeOK
<1>3. \A q \in Process : Keeps(q) => AgeAt(q)' = AgeAt(q) /\ HoldsYoung(q)'
  BY <1>2 DEF AgeAt, HoldsYoung, Timely
<1>4. Alone'
  BY <1>1 DEF Alone, Timely
<1>5. \A q \in Process : pc'[q] \notin {"remove", "lost"}
  BY DEF At, Timely, Inv, TypeOK
<1> QED  BY <1>1, <1>3, <1>4, <1>5 DEF Held, Timely

(* The only holder moves to another step of holding.                         *)
LEMMA HolderHeld ==
  ASSUME Timely, NEW p \in Process, Keeps(p),
         NEW step \in Keeping, At(p, step), HoldsYoung(p)'
  PROVE  Held'
<1>1. \A q \in Process : Keeps(q)' <=> q = p
  BY DEF At, Keeps, Timely, Alone, Inv, TypeOK
<1>2. \A q \in Process : pc'[q] \notin {"remove", "lost"}
  BY DEF At, Keeping, Timely, Inv, TypeOK
<1>3. Alone'
  BY <1>1 DEF Alone
<1> QED  BY <1>1, <1>2, <1>3 DEF Held

(* On time, asking leaves at most one holder.                                *)
LEMMA AskingHeld ==
  ASSUME OnTime, Timely, Undisturbed', NEW p \in Process,
         \/ Ask(p) \/ Exists(p) \/ AskFails(p) \/ FindHeld(p)
         \/ FindAbandoned(p) \/ Remove(p) \/ WaitOver(p) \/ NotStarted(p)
  PROVE  Held'
<1>1. ~Remove(p) /\ ~FindAbandoned(p)
  BY NotAbandoned DEF Timely, Remove, FindAbandoned
<1>2. ~AskFails(p) /\ ~NotStarted(p)
  <2>1. ~Fault
    BY DEF Undisturbed, Fault, Timely, Inv, TypeOK
  <2>2. ASSUME NotStarted(p) PROVE dir # NoDir
    BY <2>2 DEF NotStarted, Timely, HoldsYoung, Keeps, Keeping
  <2> QED  BY <2>1, <2>2 DEF AskFails, NotStarted
<1>3. {"idle", "ask", "look", "wait"} \subseteq Steps \ (Keeping \cup {"remove", "lost"})
  BY DEF Steps, Keeping
<1>4. ~Keeps(p) /\ UNCHANGED <<dir, held, woke>>
  BY <1>1, <1>2 DEF Ask, Exists, FindHeld, WaitOver, Keeps, Keeping
<1>5. \E step \in {"idle", "ask", "look", "wait"} : At(p, step)
  BY <1>1, <1>2 DEF Ask, Exists, FindHeld, WaitOver, NextTry
<1> QED  BY <1>3, <1>4, <1>5, AskersHeld

(* Making the directory where there is none makes a first holder.            *)
LEMMA CreateHeld ==
  ASSUME OnTime, Timely, NEW p \in Process, Create(p)
  PROVE  Held'
<1>1. \A q \in Process : ~Keeps(q)
  BY DEF Create, Timely, HoldsYoung
<1>2. At(p, "made") /\ pc'[p] = "made" /\ since'[p] = 0
  BY DEF Create, At, Timely, Inv, TypeOK
<1>3. PICK s \in FreshStamps(p) : dir' = [stamp |-> s, age |-> 0]
  BY DEF Create, Becomes
<1>4. dir' # NoDir /\ dir'.age = 0
  <2>1. [stamp |-> s, age |-> 0] \in [stamp : Stamp, age : Nat]
    BY DEF FreshStamps
  <2> QED  BY <1>3, <2>1, TimingAssumption
<1>5. \A q \in Process : q # p => pc'[q] = pc[q]
  BY <1>2 DEF At, Timely, Inv, TypeOK
<1>6. \A q \in Process : Keeps(q)' <=> q = p
  BY <1>1, <1>2, <1>5 DEF Keeps, Keeping
<1>7. HoldsYoung(p)'
  BY <1>2, <1>4 DEF HoldsYoung, AgeAt
<1>8. Alone'
  BY <1>6 DEF Alone
<1>9. \A q \in Process : pc'[q] \notin {"remove", "lost"}
  BY <1>2, <1>5 DEF Timely
<1> QED  BY <1>6, <1>7, <1>8, <1>9 DEF Held

(* A holder goes from step to step within the time each may take.            *)
LEMMA HoldingHeld ==
  ASSUME OnTime, Timely, NEW p \in Process,
         Started(p) \/ Look(p) \/ Touch(p) \/ ReadBack(p) \/ Stop(p)
  PROVE  Held'
<1> USE TimingAssumption
<1>0. Keeps(p) /\ {"held", "touch", "stored", "drop"} \subseteq Keeping
  BY DEF Started, Look, Touch, ReadBack, Stop, Keeps, Keeping
<1>1. HoldsYoung(p) /\ since[p] <= Limit(pc[p]) /\ since[p] \in Nat
  BY <1>0 DEF Timely, Inv, Timed, TypeOK
<1>2. dir.age \in Nat /\ woke[p] \in Nat
  BY <1>1 DEF HoldsYoung, Timely, Inv, TypeOK
<1>3. CASE Started(p) \/ ReadBack(p)
  <2>1. /\ At(p, "held") /\ pc[p] \in {"made", "stored"} /\ UNCHANGED <<dir, woke>>
        /\ held' = [held EXCEPT ![p] = dir.stamp]
    BY <1>3 DEF Started, ReadBack
  <2>2. pc'[p] = "held" /\ since'[p] = 0 /\ held'[p] = dir.stamp
    BY <2>1 DEF At, Timely, Inv, TypeOK
  <2>3. dir.age <= 2 * Late
    BY <1>1, <1>2, <2>1 DEF HoldsYoung, AgeAt, Limit
  <2>4. HoldsYoung(p)'
    BY <1>1, <1>2, <2>1, <2>2, <2>3 DEF HoldsYoung, AgeAt
  <2> QED  BY <1>0, <2>1, <2>4, HolderHeld
<1>4. CASE Look(p) \/ Stop(p)
  <2>1. /\ \/ At(p, "touch") /\ woke' = [woke EXCEPT ![p] = 0]
           \/ At(p, "drop")
        /\ pc[p] = "held" /\ UNCHANGED <<dir, held>>
    BY <1>4 DEF Look, Stop
  <2>2. pc'[p] \in {"touch", "drop"} /\ since'[p] = 0
        /\ (pc'[p] = "touch" => woke'[p] = 0)
    BY <2>1 DEF At, Timely, Inv, TypeOK
  <2>3. dir.age <= Beat + 3 * Late /\ held[p] = dir.stamp
    BY <1>1, <1>2, <2>1 DEF HoldsYoung, AgeAt, Limit
  <2>4. HoldsYoung(p)'
    BY <1>1, <1>2, <2>1, <2>2, <2>3 DEF HoldsYoung, AgeAt
  <2> QED  BY <1>0, <2>1, <2>4, HolderHeld
<1>5. CASE Touch(p)
  <2>1. pc'[p] = "stored" /\ since'[p] = 0 /\ pc[p] = "touch" /\ At(p, "stored")
    BY <1>5 DEF Touch, At, Timely, Inv, TypeOK
  <2>2. woke[p] <= Late
    BY <1>1, <1>2, <2>1 DEF HoldsYoung, Limit
  <2>3. PICK s \in FreshStamps(p) : dir' = [stamp |-> s, age |-> woke[p]]
    BY <1>5 DEF Touch, Becomes
  <2>4. dir' # NoDir /\ dir'.age = woke[p]
    <3>1. [stamp |-> s, age |-> woke[p]] \in [stamp : Stamp, age : Nat]
      BY <1>2 DEF FreshStamps
    <3> QED  BY <2>3, <3>1
  <2>5. HoldsYoung(p)'
    BY <1>2, <2>1, <2>2, <2>4 DEF HoldsYoung, AgeAt
  <2> QED  BY <1>0, <2>1, <2>5, HolderHeld
<1> QED  BY <1>3, <1>4, <1>5

(* On time nobody finds its lock lost, and the holder that lets go removes   *)
(* the directory that is its own.                                            *)
LEMMA ReleaseHeld ==
  ASSUME OnTime, Timely, Undisturbed', NEW p \in Process,
         FindLost(p) \/ Drop(p) \/ DropLost(p) \/ Crash(p)
  PROVE  Held'
<1>1. ~Fault /\ ~Crash(p)
  BY DEF Undisturbed, Fault, Crash, Timely, Inv, TypeOK
<1>2. ~FindLost(p)
  <2> SUFFICES ASSUME FindLost(p) PROVE FALSE
    OBVIOUS
  <2>1. Keeps(p)
    BY DEF FindLost, Keeps, Keeping
  <2>2. dir # NoDir /\ (pc[p] = "held" => IsMine(p))
    BY <2>1 DEF Timely, HoldsYoung, IsMine
  <2> QED  BY <1>1, <2>2 DEF FindLost
<1>3. Drop(p)
  BY <1>1, <1>2 DEF DropLost, Timely
<1>4. dir' = NoDir /\ At(p, "idle") /\ Keeps(p)
  BY <1>1, <1>3 DEF Drop, Becomes, Keeps, Keeping
<1>5. \A q \in Process : ~Keeps(q)' /\ pc'[q] \notin {"remove", "lost"}
  BY <1>4 DEF At, Keeps, Keeping, Timely, Alone, Inv, TypeOK
<1> QED  BY <1>4, <1>5 DEF Held, Alone

(* The directory ages no faster than its holder's step.                      *)
LEMMA TickHeld ==
  ASSUME OnTime, Timely, Tick
  PROVE  Held'
<1> USE TimingAssumption
<1>1. UNCHANGED <<pc, held>>
  BY DEF Tick
<1>2. ASSUME NEW p \in Process, Keeps(p) PROVE HoldsYoung(p)'
  <2>1. since'[p] = since[p] + 1 /\ since[p] \in Nat /\ woke[p] \in Nat
    BY <1>2 DEF Tick, Keeps, Keeping, Untimed, Timely, Inv, TypeOK
  <2>2. HoldsYoung(p) /\ dir \in [stamp : Stamp, age : 0 .. Stale + 1]
    BY <1>2 DEF Timely, HoldsYoung, Inv, TypeOK
  <2>3. dir' = [dir EXCEPT !.age = Older(@)]
    BY <2>2 DEF HoldsYoung, Tick
  <2>4. Older(dir.age) \in Nat /\ Older(dir.age) <= dir.age + 1
    BY <2>2 DEF Older
  <2>5. dir' \in [stamp : Stamp, age : Nat] /\ dir'.stamp = dir.stamp
        /\ dir'.age <= dir.age + 1 /\ dir.age \in Nat /\ dir'.age \in Nat
    BY <2>2, <2>3, <2>4
  <2>6. dir' # NoDir
    BY <2>5
  <2>7. pc[p] = "touch" => woke'[p] <= woke[p] + 1 /\ woke'[p] \in Nat
    BY <2>1 DEF Tick, Older
  <2>8. dir'.age <= AgeAt(p)'
    BY <1>1, <2>1, <2>2, <2>5 DEF HoldsYoung, AgeAt
  <2>9. pc'[p] = "touch" => woke'[p] <= since'[p]
    BY <1>1, <2>1, <2>2, <2>7 DEF HoldsYoung
  <2> QED  BY <1>1, <2>2, <2>5, <2>6, <2>8, <2>9 DEF HoldsYoung
<1>3. dir' # NoDir => dir # NoDir
  BY DEF Tick
<1> QED  BY <1>1, <1>2, <1>3 DEF Held, Timely, Alone, Keeps

(* What has slept, died or failed has for good.                              *)
LEMMA DisturbedForGood ==
  ASSUME TypeOK, [Next]_vars, Undisturbed'
  PROVE  Undisturbed
<1>1. /\ sleeps' = sleeps \/ sleeps' = sleeps + 1
      /\ crashes' = crashes \/ crashes' = crashes + 1
      /\ faults' = faults \/ faults' = faults + 1
  BY DEF Next, Acts, Ask, Create, Exists, AskFails, FindHeld, FindAbandoned,
         Remove, WaitOver, Started, NotStarted, Look, Touch, ReadBack, FindLost,
         Stop, Drop, DropLost, Crash, Tick, Sleep, Fault, bounds, vars
<1> QED  BY <1>1 DEF Undisturbed, TypeOK

(* Timely lasts for as long as nothing sleeps, dies or fails.                *)
LEMMA TimelyStep ==
  ASSUME OnTime, Timely, [Next]_vars, Undisturbed'
  PROVE  Timely'
<1>1. Inv'
  BY InvStep DEF Timely
<1>2. CASE UNCHANGED vars
  BY <1>1, <1>2 DEF Timely, Alone, Keeps, HoldsYoung, AgeAt, vars, procVars, history
<1>3. CASE Next
  <2>1. ~Sleep
    BY DEF Sleep, Undisturbed, Timely, Inv, TypeOK
  <2>2. Held'
    BY <1>3, <2>1, AskingHeld, CreateHeld, HoldingHeld, ReleaseHeld, TickHeld
       DEF Next, Acts
  <2> QED  BY <1>1, <2>2 DEF Timely, Held
<1> QED  BY <1>2, <1>3

(* The inductive invariant of LockExcludes.                                  *)
Calm == Inv /\ (Undisturbed => Timely)

(* On time, whatever the timings and however many ask, at most one process   *)
(* holds the lock until the machine sleeps, a process dies or a call fails.  *)
THEOREM LockExcludes == OnTime => (Spec => []Exclusive)
<1> SUFFICES ASSUME OnTime PROVE Spec => []Exclusive
  OBVIOUS
<1>1. Init => Calm
  BY InvInit DEF Calm, Init, Timely, Alone, Keeps, Keeping
<1>2. Calm => Exclusive
  BY DEF Calm, Timely, Alone, Exclusive
<1>3. Calm /\ [Next]_vars => Calm'
  <2> SUFFICES ASSUME Calm, [Next]_vars PROVE Calm'
    OBVIOUS
  <2>1. Inv'
    BY InvStep DEF Calm
  <2>2. ASSUME Undisturbed' PROVE Timely'
    <3>1. Undisturbed
      BY <2>2, DisturbedForGood DEF Calm, Inv
    <3> QED  BY <2>2, <3>1, TimelyStep DEF Calm
  <2> QED  BY <2>1, <2>2 DEF Calm
<1> QED  BY <1>1, <1>2, <1>3, PTL DEF Spec

-----------------------------------------------------------------------------
(* Of two that keep the lock one is told                                     *)

(* The heartbeats of a process are further apart than a step of another's    *)
(* may be late.                                                              *)
StepsApart == Late < Beat

Time(p, q) == together[<<p, q>>]

(* p's next look tells it, or its reading back starts the time with q anew.  *)
Doomed(p, q) ==
  \/ pc[p] = "held" /\ ~IsMine(p) /\ Time(p, q) <= Beat + 3 * Late + since[p]
  \/ pc[p] \in {"made", "stored"} /\ ~Stamped(p) /\ Time(p, q) <= Beat + 3 * Late + since[p]
  \/ pc[p] = "made" /\ Time(p, q) <= since[p]
  \/ pc[p] = "drop" /\ Time(p, q) <= 2 * Beat + 4 * Late + since[p]

(* p's look found its mtime there, and its touch is to come.                 *)
Touches(p, q) ==
  pc[p] = "touch" /\ Time(p, q) <= Beat + 2 * Late + since[p]

(* Both of two go on: no lap but the first is over for both, as the one that *)
(* touches last finds the other between two looks.                           *)
GoesOn(p, q) ==
  \/ /\ pc[p] = "held" /\ IsMine(p) /\ Time(p, q) <= Late + since[p]
     /\ pc[q] = "held" /\ IsMine(q) /\ Time(p, q) <= Late + since[q]
  \/ /\ Touches(p, q)
     /\ pc[q] = "held" /\ IsMine(q)
     /\ Time(p, q) <= Late + since[q] \/ since[q] <= since[p]
  \/ Touches(p, q) /\ Touches(q, p)
  \/ /\ Touches(p, q)
     /\ pc[q] = "stored" /\ Stamped(q)
     /\ Time(p, q) <= since[q] \/ since[q] <= since[p]
  \/ /\ pc[p] = "stored" /\ Stamped(p) /\ Time(p, q) <= since[p]
     /\ pc[q] = "held" /\ IsMine(q)

Same(p, q) == Time(p, q) = Time(q, p)

Pair(p, q) ==
  Keeps(p) /\ Keeps(q) =>
    Doomed(p, q) \/ Doomed(q, p) \/ GoesOn(p, q) \/ GoesOn(q, p)

Pairs == \A p, q \in Process : p # q => Same(p, q) /\ Pair(p, q)

(* What the types and the limits of the steps say of two processes' times.   *)
LEMMA Measures ==
  ASSUME Inv, NEW p \in Process, NEW q \in Process
  PROVE  /\ Time(p, q) \in Nat /\ since[p] \in Nat /\ since[q] \in Nat
         /\ pc[p] = "held" => since[p] <= Beat + Late
         /\ pc[p] \in {"made", "touch", "stored", "drop"} => since[p] <= Late
         /\ Beat \in Nat /\ Late \in Nat
<1>1. since[p] <= Limit(pc[p])
  BY DEF Inv, Timed
<1>2. Time(p, q) \in 0 .. TwoBeats + 1
  BY DEF Inv, TypeOK, Time
<1> QED  BY <1>1, <1>2, TimingAssumption DEF Limit, Inv, TypeOK, TwoBeats

(* A step of neither of two, that leaves the mtime on the directory or puts  *)
(* another's there.                                                          *)
LEMMA ElsewhereFits ==
  ASSUME Inv, NEW p \in Process, NEW q \in Process, p # q, Pair(p, q), Same(p, q),
         UNCHANGED <<pc[p], since[p], pc[q], since[q], Time(p, q), Time(q, p)>>,
         \/ /\ IsMine(p)' = IsMine(p) /\ Stamped(p)' = Stamped(p)
            /\ IsMine(q)' = IsMine(q) /\ Stamped(q)' = Stamped(q)
         \/ ~IsMine(p)' /\ ~Stamped(p)' /\ ~IsMine(q)' /\ ~Stamped(q)'
  PROVE  Pair(p, q)' /\ Same(p, q)'
<1>1. Same(p, q)'
  BY DEF Same
<1>2. SUFFICES ASSUME Keeps(p)', Keeps(q)'
      PROVE  (Doomed(p, q) \/ Doomed(q, p) \/ GoesOn(p, q) \/ GoesOn(q, p))'
  BY <1>1 DEF Pair
<1>3. Keeps(p) /\ Keeps(q)
  BY <1>2 DEF Keeps
<1>4. CASE /\ IsMine(p)' = IsMine(p) /\ Stamped(p)' = Stamped(p)
           /\ IsMine(q)' = IsMine(q) /\ Stamped(q)' = Stamped(q)
  BY <1>3, <1>4 DEF Pair, Doomed, GoesOn, Touches
<1>5. CASE ~IsMine(p)' /\ ~Stamped(p)' /\ ~IsMine(q)' /\ ~Stamped(q)'
  <2>1. ASSUME NEW x \in Process, NEW y \in Process, Doomed(x, y), 
               {x, y} = {p, q}, ~IsMine(x)', ~Stamped(x)'
        PROVE  Doomed(x, y)'
    BY <2>1, <1>5 DEF Doomed
  <2>2. ASSUME NEW x \in Process, NEW y \in Process, GoesOn(x, y), {x, y} = {p, q}
        PROVE  Doomed(x, y)' \/ Doomed(y, x)' \/ GoesOn(x, y)'
    <3>1. /\ UNCHANGED <<pc[x], since[x], pc[y], since[y], Time(x, y), Time(y, x)>>
          /\ ~IsMine(x)' /\ ~Stamped(x)' /\ ~IsMine(y)' /\ ~Stamped(y)'
          /\ Time(x, y) = Time(y, x)
      BY <2>2, <1>5 DEF Same
    <3>2. CASE Touches(x, y) /\ Touches(y, x)
      BY <3>1, <3>2 DEF GoesOn, Touches
    <3>3. CASE pc[y] = "held"
      BY <2>2, <3>1, <3>3, Measures DEF GoesOn, Doomed, Touches
    <3>4. CASE pc[y] = "stored"
      BY <2>2, <3>1, <3>4, Measures DEF GoesOn, Doomed, Touches
    <3> QED  BY <2>2, <3>2, <3>3, <3>4 DEF GoesOn
  <2> QED  BY <1>3, <1>5, <2>1, <2>2 DEF Pair
<1> QED  BY <1>4, <1>5

(* Where two have been together for a step's lateness at most, and one reads *)
(* the mtime on the directory, both go on or the other is doomed.            *)
LEMMA EarlyFits ==
  ASSUME Inv, Inv', NEW p \in Process, NEW q \in Process, p # q, Same(p, q)',
         pc'[p] = "held", IsMine(p)', Time(p, q)' <= Late,
         Stamped(q)' => Time(p, q)' = 0
  PROVE  Pair(p, q)'
<1> SUFFICES ASSUME Keeps(q)'
    PROVE (Doomed(p, q) \/ Doomed(q, p) \/ GoesOn(p, q) \/ GoesOn(q, p))'
  BY DEF Pair
<1>1. /\ Time(p, q)' \in Nat /\ Time(q, p)' = Time(p, q)' /\ Late \in Nat /\ Beat \in Nat
      /\ since'[p] \in Nat /\ since'[q] \in Nat
  BY TimingAssumption DEF Same, Inv, TypeOK, Time
<1>2. CASE pc'[q] = "held"
  BY <1>1, <1>2 DEF GoesOn, Doomed
<1>3. CASE pc'[q] = "touch"
  BY <1>1, <1>3 DEF GoesOn, Touches
<1>4. CASE pc'[q] \in {"made", "stored"}
  BY <1>1, <1>4 DEF GoesOn, Doomed
<1>5. CASE pc'[q] = "drop"
  BY <1>1, <1>5 DEF Doomed
<1> QED  BY <1>2, <1>3, <1>4, <1>5 DEF Keeps, Keeping

(* What a step of p's leaves of another process.                             *)
LEMMA OtherStays ==
  ASSUME Inv, NEW p \in Process, NEW step \in Steps, At(p, step),
         NEW q \in Process, q # p
  PROVE  /\ UNCHANGED <<pc[q], since[q]>>
         /\ pc'[p] = step /\ since'[p] = 0
  BY DEF Inv, TypeOK, At

(* p reads the mtime on the directory.                                       *)
LEMMA ReadsFits ==
  ASSUME Inv, Inv', Pairs, NEW p \in Process, NEW q \in Process, p # q,
         Started(p) \/ ReadBack(p)
  PROVE  Pair(p, q)' /\ Same(p, q)'
<1>1. /\ pc[p] \in {"made", "stored"} /\ dir # NoDir /\ At(p, "held") /\ UNCHANGED dir
      /\ held' = [held EXCEPT ![p] = dir.stamp]
      /\ together' = IF Stamped(p) THEN together ELSE Anew(p)
  BY DEF Started, ReadBack
<1>2. /\ UNCHANGED <<pc[q], since[q], held[q]>> /\ pc'[p] = "held" /\ since'[p] = 0
      /\ IsMine(p)'
  <2>1. "held" \in Steps
    BY DEF Steps
  <2>2. held'[p] = dir.stamp /\ held'[q] = held[q]
    BY <1>1 DEF Inv, TypeOK
  <2> QED  BY <1>1, <2>1, <2>2, OtherStays DEF IsMine
<1>3. CASE ~Stamped(p)
  <2>1. Time(p, q)' = 0 /\ Time(q, p)' = 0
    BY <1>1, <1>3 DEF Anew, Time
  <2>2. Same(p, q)'
    BY <2>1 DEF Same
  <2> QED  BY <1>2, <2>1, <2>2, EarlyFits, TimingAssumption
<1>4. CASE Stamped(p)
  <2>1. UNCHANGED <<Time(p, q), Time(q, p)>> /\ Same(p, q) /\ Pair(p, q)
    BY <1>1, <1>4 DEF Time, Pairs
  <2>2. Same(p, q)'
    BY <2>1 DEF Same
  <2>3. ~Stamped(q) /\ ~Stamped(q)'
    BY <1>1, <1>4 DEF Stamped
  <2>4. CASE Time(p, q) <= Late
    BY <1>2, <2>1, <2>2, <2>3, <2>4, EarlyFits
  <2>5. CASE ~(Time(p, q) <= Late) /\ Keeps(q)
    <3>1. since[p] <= Late /\ Keeps(p) /\ Time(p, q) = Time(q, p)
      BY <1>1, <2>1, Measures DEF Keeps, Keeping, Same
    <3>2. Doomed(q, p) \/ (Touches(q, p) /\ pc[p] = "stored" /\ pc[q] = "touch")
      BY <1>1, <1>4, <2>1, <2>3, <2>5, <3>1, Measures
         DEF Pair, Doomed, GoesOn, Touches
    <3>3. IsMine(q)' = IsMine(q)
      BY <1>1, <1>2 DEF IsMine
    <3>4. CASE Doomed(q, p)
      BY <1>2, <2>1, <2>2, <2>3, <3>3, <3>4 DEF Pair, Doomed
    <3>5. CASE Touches(q, p) /\ pc[q] = "touch"
      <4>1. Touches(q, p)' /\ since'[p] <= since'[q]
        BY <1>2, <2>1, <3>5, Measures DEF Touches
      <4> QED  BY <1>2, <2>2, <4>1 DEF Pair, GoesOn
    <3> QED  BY <3>2, <3>4, <3>5
  <2>6. CASE ~Keeps(q)
    BY <1>2, <2>2, <2>6 DEF Pair, Keeps
  <2> QED  BY <2>2, <2>4, <2>5, <2>6
<1> QED  BY <1>3, <1>4

(* p touches the directory: whoever looked at it before is doomed, but one   *)
(* whose own touch is to come.                                               *)
LEMMA TouchFits ==
  ASSUME Inv, Pairs, NEW p \in Process, NEW q \in Process, p # q, Touch(p)
  PROVE  Pair(p, q)' /\ Same(p, q)'
<1>1. PICK s \in FreshStamps(p) : Becomes([stamp |-> s, age |-> woke[p]])
  BY DEF Touch
<1>2. dir' = [stamp |-> s, age |-> woke[p]] /\ dir' # NoDir /\ dir'.stamp = s
  <2>1. [stamp |-> s, age |-> woke[p]] \in [stamp : Stamp, age : Nat]
    BY TimingAssumption DEF FreshStamps, Inv, TypeOK
  <2> QED  BY <1>1, <2>1, TimingAssumption DEF Becomes
<1>3. ~IsMine(q)' /\ ~Stamped(q)' /\ Stamped(p)'
  BY <1>2 DEF FreshStamps, IsMine, Stamped, Touch
<1>4. /\ UNCHANGED <<pc[q], since[q], Time(p, q), Time(q, p)>>
      /\ pc[p] = "touch" /\ pc'[p] = "stored" /\ since'[p] = 0
      /\ Same(p, q) /\ Pair(p, q) /\ Same(p, q)'
  <2>1. "stored" \in Steps
    BY DEF Steps
  <2> QED  BY <2>1, OtherStays DEF Touch, Time, Pairs, Same
<1> SUFFICES ASSUME Keeps(q)' PROVE Doomed(q, p)' \/ GoesOn(q, p)'
  BY <1>4 DEF Pair
<1>5. Keeps(p) /\ Keeps(q) /\ Time(p, q) = Time(q, p)
  BY <1>4 DEF Keeps, Keeping, Same
<1>6. \/ Doomed(q, p)
      \/ Touches(p, q) /\ pc[q] \in {"held", "stored"}
         /\ (pc[q] = "held" => Time(p, q) <= Late + since[q] \/ since[q] <= since[p])
      \/ Touches(q, p)
  BY <1>4, <1>5 DEF Pair, Doomed, GoesOn, Touches
<1>7. CASE Doomed(q, p)
  BY <1>3, <1>4, <1>7 DEF Doomed
<1>8. CASE Touches(p, q) /\ pc[q] \in {"held", "stored"}
  <2>1. Time(q, p) <= Beat + 3 * Late + since[q]
    BY <1>4, <1>5, <1>8, Measures DEF Touches
  <2> QED  BY <1>3, <1>4, <1>8, <2>1 DEF Doomed
<1>9. CASE Touches(q, p)
  <2>1. Touches(q, p)' /\ since'[p] <= since'[q]
    BY <1>4, <1>9, Measures DEF Touches
  <2> QED  BY <1>3, <1>4, <2>1 DEF GoesOn
<1> QED  BY <1>6, <1>7, <1>8, <1>9

(* p looks and finds its mtime there; or it is told to stop.                 *)
LEMMA LookStopFits ==
  ASSUME StepsApart, Inv, Pairs, NEW p \in Process, NEW q \in Process, p # q,
         Look(p) \/ Stop(p)
  PROVE  Pair(p, q)' /\ Same(p, q)'
<1>1. /\ UNCHANGED <<pc[q], since[q], Time(p, q), Time(q, p)>>
      /\ pc[p] = "held" /\ since'[p] = 0
      /\ (Look(p) => pc'[p] = "touch") /\ (Stop(p) => pc'[p] = "drop")
      /\ UNCHANGED <<dir, held>>
      /\ Same(p, q) /\ Pair(p, q) /\ Same(p, q)'
  <2>1. {"touch", "drop"} \subseteq Steps
    BY DEF Steps
  <2> QED  BY <2>1, OtherStays DEF Look, Stop, Time, Pairs, Same, history
<1> SUFFICES ASSUME Keeps(q)'
    PROVE  (Doomed(p, q) \/ Doomed(q, p) \/ GoesOn(p, q) \/ GoesOn(q, p))'
  BY <1>1 DEF Pair
<1>2. Keeps(p) /\ Keeps(q) /\ Time(p, q) = Time(q, p)
  BY <1>1 DEF Keeps, Keeping, Same
<1>3. IsMine(q)' = IsMine(q) /\ Stamped(q)' = Stamped(q)
  BY <1>1 DEF IsMine, Stamped
<1>4. CASE Doomed(q, p)
  BY <1>1, <1>3, <1>4 DEF Doomed
<1>5. CASE Stop(p) /\ ~Doomed(q, p)
  <2>1. Time(p, q) <= 2 * Beat + 4 * Late
    BY <1>1, <1>2, <1>5, Measures DEF Pair, Doomed, GoesOn, Touches
  <2> QED  BY <1>1, <1>5, <2>1, Measures DEF Doomed
<1>6. CASE Look(p) /\ ~Doomed(q, p)
  <2>1. pc'[p] = "touch" /\ IsMine(p) /\ since[p] >= Beat
    BY <1>1, <1>6 DEF Look
  <2>2. CASE pc[q] = "held"
    <3>1. IsMine(q) /\ Time(p, q) <= Late + since[p] /\ Time(p, q) <= Late + since[q]
      BY <1>1, <1>2, <1>6, <2>1, <2>2 DEF Pair, Doomed, GoesOn, Touches
    <3>2. Touches(p, q)'
      BY <1>1, <2>1, <3>1, Measures DEF Touches
    <3> QED  BY <1>1, <1>3, <2>2, <3>1, <3>2 DEF GoesOn
  <2>3. CASE pc[q] = "touch"
    <3>1. Touches(q, p) /\ Time(p, q) <= Late + since[p]
      BY <1>1, <1>2, <1>6, <2>1, <2>3, Measures
         DEF Pair, Doomed, GoesOn, Touches, StepsApart
    <3>2. Touches(p, q)'
      BY <1>1, <2>1, <3>1, Measures DEF Touches
    <3> QED  BY <1>1, <3>1, <3>2 DEF GoesOn, Touches
  <2>4. CASE pc[q] \notin {"held", "touch"}
    <3>1. pc[q] = "stored" /\ Stamped(q) /\ Time(p, q) <= since[q]
      BY <1>1, <1>2, <1>6, <2>1, <2>4 DEF Pair, Doomed, GoesOn, Touches
    <3>2. Touches(p, q)'
      BY <1>1, <2>1, <3>1, Measures DEF Touches
    <3> QED  BY <1>1, <1>3, <3>1, <3>2 DEF GoesOn
  <2> QED  BY <2>2, <2>3, <2>4
<1> QED  BY <1>1, <1>4, <1>5, <1>6

(* A process that takes the directory has been together with nobody yet, and *)
(* one with no guard is together with nobody.                                *)
LEMMA AloneFits ==
  ASSUME Inv, Pairs, NEW p \in Process, NEW q \in Process, p # q,
         \/ Create(p)
         \/ ~Keeps(p)' /\ UNCHANGED together
  PROVE  Pair(p, q)' /\ Same(p, q)'
<1>1. CASE Create(p)
  <2>1. "made" \in Steps
    BY DEF Steps
  <2>2. pc'[p] = "made" /\ since'[p] = 0
    BY <1>1, <2>1, OtherStays DEF Create
  <2>3. Time(p, q)' = 0 /\ Time(q, p)' = 0
    BY <1>1 DEF Create, Anew, Time
  <2> QED  BY <2>2, <2>3 DEF Pair, Doomed, Same
<1>2. CASE ~Keeps(p)' /\ UNCHANGED together
  BY <1>2 DEF Pair, Pairs, Same, Time
<1> QED  BY <1>1, <1>2

(* Time passes for two alike.                                                *)
LEMMA TickFits ==
  ASSUME Inv, Pairs, NEW p \in Process, NEW q \in Process, p # q, Tick
  PROVE  Pair(p, q)' /\ Same(p, q)'
<1>1. Same(p, q) /\ Pair(p, q) /\ UNCHANGED <<pc, held>>
  BY DEF Pairs, Tick
<1>2. Same(p, q)'
  BY <1>1 DEF Tick, Same, Time
<1> SUFFICES ASSUME Keeps(p), Keeps(q)
    PROVE  (Doomed(p, q) \/ Doomed(q, p) \/ GoesOn(p, q) \/ GoesOn(q, p))'
  BY <1>1, <1>2 DEF Pair, Keeps
<1>3. since'[p] = since[p] + 1 /\ since'[q] = since[q] + 1
  BY DEF Tick, Keeps, Keeping, Untimed
<1>4. Time(p, q)' <= Time(p, q) + 1 /\ Time(q, p)' = Time(p, q)' /\ Time(q, p) = Time(p, q)
      /\ Time(p, q)' \in Nat
  BY <1>1, <1>2, Measures DEF Tick, Time, Same
<1>5. /\ IsMine(p)' = IsMine(p) /\ Stamped(p)' = Stamped(p)
      /\ IsMine(q)' = IsMine(q) /\ Stamped(q)' = Stamped(q)
  <2>1. (dir' = NoDir <=> dir = NoDir) /\ (dir # NoDir => dir'.stamp = dir.stamp)
    <3>1. CASE dir = NoDir
      BY <3>1 DEF Tick
    <3>2. CASE dir # NoDir
      <4>1. dir \in [stamp : Stamp, age : 0 .. Stale + 1] /\ Older(dir.age) \in Nat
        BY <3>2, TimingAssumption DEF Inv, TypeOK, Older
      <4>2. dir' = [dir EXCEPT !.age = Older(@)]
        BY <3>2 DEF Tick
      <4>3. dir' \in [stamp : Stamp, age : Nat] /\ dir'.stamp = dir.stamp
        BY <4>1, <4>2
      <4> QED  BY <3>2, <4>3, TimingAssumption
    <3> QED  BY <3>1, <3>2
  <2> QED  BY <1>1, <2>1 DEF IsMine, Stamped
<1>6. ASSUME NEW x \in {p, q}, NEW y \in {p, q}, x # y, Doomed(x, y)
      PROVE  Doomed(x, y)'
  BY <1>1, <1>3, <1>4, <1>5, <1>6, Measures DEF Doomed
<1>7. ASSUME NEW x \in {p, q}, NEW y \in {p, q}, x # y, Touches(x, y)
      PROVE  Touches(x, y)'
  BY <1>1, <1>3, <1>4, <1>7, Measures DEF Touches
<1>8. ASSUME NEW x \in {p, q}, NEW y \in {p, q}, x # y, GoesOn(x, y)
      PROVE  GoesOn(x, y)'
  <2>1. CASE Touches(x, y)
    BY <1>1, <1>3, <1>4, <1>5, <1>7, <1>8, <2>1, Measures DEF GoesOn
  <2>2. CASE ~Touches(x, y)
    BY <1>1, <1>3, <1>4, <1>5, <1>8, <2>2, Measures DEF GoesOn
  <2> QED  BY <2>1, <2>2
<1> QED  BY <1>1, <1>6, <1>8 DEF Pair

(* The machine's sleep is no time of the processes'.                         *)
LEMMA SleepFits ==
  ASSUME Inv, Pairs, NEW p \in Process, NEW q \in Process, p # q, Sleep
  PROVE  Pair(p, q)' /\ Same(p, q)'
<1>1. UNCHANGED <<pc, since, held, together>> /\ Same(p, q) /\ Pair(p, q)
  BY DEF Pairs, Sleep, history
<1>2. (dir' = NoDir <=> dir = NoDir) /\ (dir # NoDir => dir'.stamp = dir.stamp)
  <2>1. CASE dir = NoDir
    BY <2>1 DEF Sleep
  <2>2. CASE dir # NoDir
    <3>1. dir \in [stamp : Stamp, age : Nat] /\ dir' = [dir EXCEPT !.age = Stale + 1]
      BY <2>2, TimingAssumption DEF Inv, TypeOK, Sleep
    <3>2. dir' \in [stamp : Stamp, age : Nat] /\ dir'.stamp = dir.stamp
      BY <3>1, TimingAssumption
    <3> QED  BY <2>2, <3>2, TimingAssumption
  <2> QED  BY <2>1, <2>2
<1>3. /\ IsMine(p)' = IsMine(p) /\ Stamped(p)' = Stamped(p)
      /\ IsMine(q)' = IsMine(q) /\ Stamped(q)' = Stamped(q)
  BY <1>1, <1>2 DEF IsMine, Stamped
<1> QED  BY <1>1, <1>3, ElsewhereFits DEF Time

(* A step of a third process.                                                *)
LEMMA ThirdFits ==
  ASSUME Inv, Pairs, NEW r \in Process, Ask(r) \/ Acts(r) \/ Crash(r),
         NEW p \in Process, NEW q \in Process, p # q, r # p, r # q
  PROVE  Pair(p, q)' /\ Same(p, q)'
<1>1. \E step \in Steps : At(r, step)
  <2>1. {"idle", "ask", "look", "remove", "wait", "made", "held", "touch", "stored",
         "drop", "lost"} \subseteq Steps
    BY DEF Steps
  <2>2. ASSUME NextTry(r, "wait") \/ NextTry(r, "ask") PROVE \E step \in Steps : At(r, step)
    BY <2>1, <2>2 DEF NextTry
  <2> QED
    BY <2>1, <2>2 DEF Acts, Ask, Create, Exists, AskFails, FindHeld, FindAbandoned, Remove,
       WaitOver, Started, NotStarted, Look, Touch, ReadBack, FindLost, Stop, Drop, DropLost,
       Crash
<1>2. UNCHANGED <<pc[p], since[p], pc[q], since[q]>>
  BY <1>1, OtherStays
<1>3. UNCHANGED <<held[p], held[q], Time(p, q), Time(q, p)>>
  BY DEF Acts, Ask, Create, Exists, AskFails, FindHeld, FindAbandoned, Remove,
     WaitOver, Started, NotStarted, Look, Touch, ReadBack, FindLost, Stop, Drop, DropLost,
     Crash, Time, Anew, history, Inv, TypeOK
<1>4. dir' \in {dir, NoDir} \/ Create(r) \/ Touch(r)
  BY DEF Acts, Ask, Exists, AskFails, FindHeld, FindAbandoned, Remove, Becomes,
     WaitOver, Started, NotStarted, Look, ReadBack, FindLost, Stop, Drop, DropLost, Crash
<1>5. CASE dir' \in {dir, NoDir}
  BY <1>2, <1>3, <1>5, ElsewhereFits DEF IsMine, Stamped, Pairs
<1>6. CASE Create(r) \/ Touch(r)
  <2>1. PICK s \in FreshStamps(r), age \in 0 .. Stale + 1 :
           dir' = [stamp |-> s, age |-> age]
    <3>1. 0 \in 0 .. Stale + 1 /\ woke[r] \in 0 .. Stale + 1
      BY TimingAssumption DEF Inv, TypeOK
    <3>2. CASE Create(r)
      BY <3>1, <3>2 DEF Create, Becomes
    <3>3. CASE Touch(r)
      BY <3>1, <3>3 DEF Touch, Becomes
    <3> QED  BY <1>6, <3>2, <3>3
  <2>2. dir' \in [stamp : Stamp, age : Nat] /\ dir'.stamp = s /\ s.by = r
    BY <2>1 DEF FreshStamps
  <2>3. s # held[p] /\ s # held[q]
    BY <2>1 DEF FreshStamps
  <2>4. ~IsMine(p)' /\ ~Stamped(p)' /\ ~IsMine(q)' /\ ~Stamped(q)'
    BY <1>3, <2>2, <2>3 DEF IsMine, Stamped
  <2> QED  BY <1>2, <1>3, <2>4, ElsewhereFits DEF Pairs
<1> QED  BY <1>4, <1>5, <1>6

(* A step of one of two.                                                     *)
LEMMA OwnFits ==
  ASSUME StepsApart, Inv, Inv', Pairs, NEW p \in Process, Ask(p) \/ Acts(p) \/ Crash(p),
         NEW q \in Process, p # q
  PROVE  Pair(p, q)' /\ Same(p, q)'
<1>1. CASE \/ Ask(p) \/ Exists(p) \/ AskFails(p) \/ FindHeld(p)
           \/ FindAbandoned(p) \/ Remove(p) \/ WaitOver(p) \/ NotStarted(p)
           \/ FindLost(p) \/ Drop(p) \/ DropLost(p) \/ Crash(p)
  <2>0. {"idle", "ask", "look", "remove", "wait", "lost"} \subseteq Steps \ Keeping
    BY DEF Steps, Keeping
  <2>1. ASSUME NEW step \in {"ask", "wait"}, NextTry(p, step)
        PROVE  \E s \in Steps \ Keeping : At(p, s)
    BY <2>0, <2>1 DEF NextTry
  <2>2. \E s \in Steps \ Keeping : At(p, s)
    BY <1>1, <2>0, <2>1 DEF Ask, Exists, AskFails, FindHeld, FindAbandoned, Remove,
         WaitOver, NotStarted, FindLost, Drop, DropLost, Crash
  <2>3. ~Keeps(p)'
    BY <2>2 DEF At, Keeps, Inv, TypeOK
  <2>4. UNCHANGED together
    BY <1>1 DEF Ask, Exists, AskFails, FindHeld, FindAbandoned, Remove,
         WaitOver, NotStarted, FindLost, Drop, DropLost, Crash, history
  <2> QED  BY <2>3, <2>4, AloneFits
<1>2. CASE Create(p)
  BY <1>2, AloneFits
<1>3. CASE Started(p) \/ ReadBack(p)
  BY <1>3, ReadsFits
<1>4. CASE Touch(p)
  BY <1>4, TouchFits
<1>5. CASE Look(p) \/ Stop(p)
  BY <1>5, LookStopFits
<1> QED  BY <1>1, <1>2, <1>3, <1>4, <1>5 DEF Acts

(* Every step keeps it of every two.                                         *)
LEMMA PairsStep ==
  ASSUME StepsApart, Inv, Inv', Pairs, [Next]_vars
  PROVE  Pairs'
<1> SUFFICES ASSUME NEW p \in Process, NEW q \in Process, p # q
    PROVE  Pair(p, q)' /\ Same(p, q)'
  BY DEF Pairs
<1>1. CASE UNCHANGED vars
  BY <1>1 DEF Pairs, Pair, Same, Doomed, GoesOn, Touches, Time, Keeps, IsMine, Stamped,
     vars, procVars, history
<1>2. CASE Tick \/ Sleep
  BY <1>2, TickFits, SleepFits
<1>3. ASSUME NEW r \in Process, Ask(r) \/ Acts(r) \/ Crash(r)
      PROVE  Pair(p, q)' /\ Same(p, q)'
  <2>1. CASE r = p
    BY <1>3, <2>1, OwnFits
  <2>2. CASE r = q
    <3>1. Pair(q, p)' /\ Same(q, p)'
      BY <1>3, <2>2, OwnFits
    <3> QED  BY <3>1 DEF Pair, Same
  <2>3. CASE r # p /\ r # q
    BY <1>3, <2>3, ThirdFits
  <2> QED  BY <2>1, <2>2, <2>3
<1> QED  BY <1>1, <1>2, <1>3 DEF Next

(* No two keep the lock together for longer than two heartbeats, whatever    *)
(* sleeps, dies or fails, where a heartbeat outlasts a late step.            *)
THEOREM OneOfTwoIsTold == StepsApart => (Spec => []OneIsTold)
<1> SUFFICES ASSUME StepsApart PROVE Spec => []OneIsTold
  OBVIOUS
<1>1. Init => Pairs
  BY DEF Init, Pairs, Pair, Same, Time, Keeps, Keeping
<1>2. Inv /\ Pairs => OneIsTold
  <2> SUFFICES ASSUME Inv, Pairs, NEW p \in Process, NEW q \in Process, p # q,
                      Keeps(p), Keeps(q)
               PROVE  Time(p, q) <= TwoBeats
    BY DEF OneIsTold, Time
  <2>1. Same(p, q) /\ Pair(p, q)
    BY DEF Pairs
  <2>2. ASSUME NEW x \in Process, NEW y \in Process, Doomed(x, y) \/ GoesOn(x, y)
        PROVE  Time(x, y) <= 2 * Beat + 5 * Late
    BY <2>2, Measures DEF Doomed, GoesOn, Touches
  <2> QED  BY <2>1, <2>2 DEF Pair, Same, TwoBeats
<1>3. (Inv /\ Pairs) /\ [Next]_vars => (Inv /\ Pairs)'
  BY InvStep, PairsStep
<1> QED  BY <1>1, <1>2, <1>3, InvInit, PTL DEF Spec

-----------------------------------------------------------------------------
(* A saver outwaits a lock left behind                                       *)

(* The waits of all of a saver's rounds but one, and but one for each call   *)
(* that may fail, are longer than the staleness.                             *)
Outwaits == (SaveRounds * Retries - 1 - MaxFaults) * Wait > Stale

(* The attempts p's asking has had that a wait follows.                      *)
Attempts(p) == (round[p] - 1) * Retries + tries[p]

Asking == {"ask", "look", "remove", "wait"}

(* A lock that stood when p began asking is as old as p's waits since, each  *)
(* attempt without one being a call that failed; and while p went on waiting *)
(* it was not past its staleness.                                            *)
Patient(p) ==
  stood[p] /\ pc[p] \in Asking =>
    /\ dir # NoDir
    /\ \/ dir.age > Stale
       \/ /\ pc[p] # "wait"
          /\ (Attempts(p) - faults) * Wait <= dir.age
       \/ /\ pc[p] = "wait"
          /\ (Attempts(p) - 1 - faults) * Wait + since[p] <= dir.age
    /\ (Attempts(p) - 1 - faults) * Wait <= Stale

PatientAll == \A p \in Savers : Patient(p)

(* More waits take longer, and one more takes one wait longer.               *)
LEMMA Waits ==
  /\ \A a, b \in Int : a <= b => a * Wait <= b * Wait
  /\ \A a \in Int : (a + 1) * Wait = a * Wait + Wait
  /\ \A a \in Int : a * Wait \in Int
<1>1. Wait \in Nat
  BY TimingAssumption
<1>2. ASSUME NEW a \in Int, NEW b \in Int, a <= b PROVE a * Wait <= b * Wait
  BY <1>1, <1>2
<1>3. ASSUME NEW a \in Int PROVE (a + 1) * Wait = a * Wait + Wait /\ a * Wait \in Int
  BY <1>1
<1> QED  BY <1>2, <1>3

(* Attempts are counted.                                                     *)
LEMMA AttemptsCount ==
  ASSUME TypeOK, NEW p \in Process
  PROVE  Attempts(p) \in Int
<1>1. round[p] \in Int /\ tries[p] \in Int /\ Retries \in Int
  BY TimingAssumption DEF TypeOK
<1> QED  BY <1>1 DEF Attempts

(* What starts a saver's next attempt, or its next round.                    *)
LEMMA NextAttempt ==
  ASSUME TypeOK, NEW p \in Savers, NEW step \in Asking, NextTry(p, step)
  PROVE  \/ pc'[p] = step /\ since'[p] = 0 /\ Attempts(p)' = Attempts(p) + 1
         \/ pc'[p] = "ask" /\ since'[p] = 0 /\ Attempts(p)' = Attempts(p)
         \/ pc'[p] = "idle" /\ Attempts(p) = SaveRounds * Retries
<1>1. /\ p \in Process /\ Retries \in Nat /\ SaveRounds \in Nat
      /\ round[p] \in Nat /\ tries[p] \in Nat
      /\ pc \in [Process -> Steps] /\ since \in [Process -> Nat]
      /\ round \in [Process -> 1 .. SaveRounds] /\ tries \in [Process -> 0 .. Retries]
  BY TimingAssumption DEF TypeOK
<1>2. \A r \in Int : (r - 1) * Retries + Retries = r * Retries /\ r * Retries \in Int
  BY <1>1
<1>3. CASE At(p, step) /\ tries' = [tries EXCEPT ![p] = @ + 1] /\ UNCHANGED round
  <2>1. pc'[p] = step /\ since'[p] = 0 /\ tries'[p] = tries[p] + 1 /\ round'[p] = round[p]
    BY <1>1, <1>3 DEF At
  <2> QED  BY <1>1, <1>2, <2>1 DEF Attempts
<1>4. CASE /\ tries[p] = Retries /\ tries' = [tries EXCEPT ![p] = 0]
           /\ At(p, "ask") /\ round' = [round EXCEPT ![p] = @ + 1]
  <2>1. pc'[p] = "ask" /\ since'[p] = 0 /\ tries'[p] = 0 /\ round'[p] = round[p] + 1
    BY <1>1, <1>4 DEF At
  <2> QED  BY <1>1, <1>2, <1>4, <2>1 DEF Attempts
<1>5. CASE tries[p] = Retries /\ At(p, "idle") /\ round[p] = SaveRounds
  <2>1. pc'[p] = "idle"
    BY <1>1, <1>5 DEF At
  <2> QED  BY <1>1, <1>2, <1>5, <2>1 DEF Attempts
<1> QED  BY <1>3, <1>4, <1>5 DEF NextTry

(* After all its attempts it has waited for longer than the staleness.       *)
LEMMA Exhausted ==
  ASSUME Outwaits, NEW f \in Nat, f <= MaxFaults, NEW a, a = SaveRounds * Retries
  PROVE  (a - 1 - f) * Wait > Stale
<1>1. /\ a \in Int /\ MaxFaults \in Int /\ Stale \in Int
      /\ a - 1 - MaxFaults \in Int /\ a - 1 - f \in Int /\ a - 1 - MaxFaults <= a - 1 - f
  <2>1. SaveRounds * Retries \in Int /\ MaxFaults \in Int /\ Stale \in Int
    BY TimingAssumption
  <2> QED  BY <2>1
<1>2. PICK x \in Int, y \in Int : /\ x = (a - 1 - MaxFaults) * Wait
                                 /\ y = (a - 1 - f) * Wait /\ x <= y
  BY <1>1, Waits
<1>3. x > Stale
  BY <1>2 DEF Outwaits
<1> QED  BY <1>1, <1>2, <1>3

(* A step of others takes no wait from p's: it touches the lock, or leaves   *)
(* it, and a call that fails only counts.                                    *)
LEMMA OthersPatient ==
  ASSUME TypeOK, TypeOK', NEW p \in Savers, Patient(p),
         UNCHANGED <<pc[p], since[p], tries[p], round[p]>>,
         stood'[p] => stood[p] /\ dir' = dir, faults' >= faults
  PROVE  Patient(p)'
<1> SUFFICES ASSUME stood'[p], pc[p] \in Asking PROVE Patient(p)'
  BY DEF Patient
<1>1. p \in Process /\ Attempts(p) \in Int /\ faults \in Int /\ faults' \in Int
      /\ Attempts(p)' = Attempts(p) /\ Stale \in Nat /\ since[p] \in Nat
  BY AttemptsCount, TimingAssumption DEF TypeOK, Attempts
<1>2. dir \in [stamp : Stamp, age : 0 .. Stale + 1] /\ dir.age \in Int
  BY <1>1 DEF TypeOK, Patient
<1>3. /\ (Attempts(p) - faults') * Wait <= (Attempts(p) - faults) * Wait
      /\ (Attempts(p) - 1 - faults') * Wait <= (Attempts(p) - 1 - faults) * Wait
  BY <1>1, Waits
<1>4. /\ (Attempts(p) - faults') * Wait \in Int /\ (Attempts(p) - faults) * Wait \in Int
      /\ (Attempts(p) - 1 - faults') * Wait \in Int /\ (Attempts(p) - 1 - faults) * Wait \in Int
  <2>1. /\ Attempts(p) - faults' \in Int /\ Attempts(p) - faults \in Int
        /\ Attempts(p) - 1 - faults' \in Int /\ Attempts(p) - 1 - faults \in Int
    BY <1>1
  <2> QED  BY <2>1, Waits
<1>5. PICK w \in Int, v \in Int : /\ w = (Attempts(p) - faults) * Wait
                                 /\ v = (Attempts(p) - 1 - faults) * Wait
  BY <1>4
<1>6. PICK x \in Int, y \in Int : /\ x = (Attempts(p)' - faults') * Wait
                                 /\ y = (Attempts(p)' - 1 - faults') * Wait
  BY <1>1, <1>4
<1>7. x <= w /\ y <= v
  BY <1>1, <1>3, <1>5, <1>6
<1>8. /\ dir.age > Stale \/ (pc[p] # "wait" /\ w <= dir.age)
                         \/ (pc[p] = "wait" /\ v + since[p] <= dir.age)
      /\ v <= Stale /\ dir # NoDir /\ stood[p]
  BY <1>5 DEF Patient
<1>9. dir' = dir /\ pc'[p] = pc[p] /\ since'[p] = since[p]
  BY <1>8
<1>10. /\ dir'.age > Stale \/ (pc'[p] # "wait" /\ x <= dir'.age)
                           \/ (pc'[p] = "wait" /\ y + since'[p] <= dir'.age)
       /\ y <= Stale /\ dir' # NoDir
  BY <1>1, <1>2, <1>7, <1>8, <1>9
<1> QED  BY <1>6, <1>10 DEF Patient

(* Time makes the lock older, and no wait longer than it is old.             *)
LEMMA TimePatient ==
  ASSUME TypeOK, NEW p \in Savers, Patient(p), Tick \/ Sleep
  PROVE  Patient(p)'
<1> SUFFICES ASSUME stood[p], pc[p] \in Asking PROVE Patient(p)'
  BY DEF Patient, Tick, Sleep
<1>1. p \in Process /\ Attempts(p) \in Int /\ faults \in Int /\ Stale \in Nat /\ since[p] \in Nat
  BY AttemptsCount, TimingAssumption DEF TypeOK
<1>2. /\ Attempts(p)' = Attempts(p) /\ UNCHANGED <<pc, stood, faults>>
      /\ since'[p] \in {since[p], since[p] + 1}
  BY <1>1 DEF Tick, Sleep, Attempts, bounds, Untimed, Asking
<1>3. dir \in [stamp : Stamp, age : 0 .. Stale + 1] /\ dir # NoDir
  BY DEF TypeOK, Patient
<1>4. /\ dir' # NoDir
      /\ dir'.age > Stale \/ (dir'.age = dir.age + 1 /\ dir.age <= Stale)
  <2>1. CASE Tick
    BY <1>1, <1>3, <2>1, TimingAssumption DEF Tick, Older, Stamp
  <2>2. CASE Sleep
    BY <1>1, <1>3, <2>2, TimingAssumption DEF Sleep, Stamp
  <2> QED  BY <2>1, <2>2
<1>5. (Attempts(p) - faults) * Wait \in Int /\ (Attempts(p) - 1 - faults) * Wait \in Int
  BY <1>1, Waits
<1>6. dir.age \in Int
  BY <1>1, <1>3
<1> QED  BY <1>1, <1>2, <1>3, <1>4, <1>5, <1>6 DEF Patient

(* p's own asking takes its waits, and p gives up only once it has had all.  *)
LEMMA AskingPatient ==
  ASSUME TypeOK, NEW p \in Savers, Patient(p), Outwaits,
         \/ Ask(p) \/ Create(p) \/ Exists(p) \/ AskFails(p) \/ FindHeld(p)
         \/ FindAbandoned(p) \/ Remove(p) \/ WaitOver(p)
  PROVE  Patient(p)' /\ (GivesUp(p) => ~stood[p])
<1>1. /\ p \in Process /\ Attempts(p) \in Int /\ faults \in Nat /\ Stale \in Nat /\ Wait \in Nat
      /\ faults <= MaxFaults /\ MaxFaults \in Nat
      /\ since[p] \in Nat /\ pc \in [Process -> Steps] /\ since \in [Process -> Nat]
      /\ stood \in [Process -> BOOLEAN]
  BY AttemptsCount, TimingAssumption DEF TypeOK
<1>2. dir # NoDir => dir.age \in Nat
  BY <1>1 DEF TypeOK
<1>3. PICK w \in Int, v \in Int : /\ w = (Attempts(p) - faults) * Wait
                                 /\ v = (Attempts(p) - 1 - faults) * Wait
                                 /\ w = v + Wait
  BY <1>1, Waits
<1>4. stood[p] /\ pc[p] \in Asking =>
        /\ dir.age > Stale \/ (pc[p] # "wait" /\ w <= dir.age)
                           \/ (pc[p] = "wait" /\ v + since[p] <= dir.age)
        /\ v <= Stale /\ dir # NoDir
  BY <1>3 DEF Patient
<1>5. CASE Ask(p)
  <2>1. /\ pc[p] = "idle" /\ pc'[p] = "ask" /\ tries'[p] = 0 /\ round'[p] = 1
        /\ dir' = dir /\ faults' = faults /\ (stood'[p] => dir # NoDir)
    BY <1>1, <1>5 DEF Ask, At, bounds, TypeOK
  <2>2. Attempts(p)' = 0
    BY <2>1, TimingAssumption DEF Attempts
  <2>3. /\ (0 - faults) * Wait <= 0 * Wait /\ (0 - 1 - faults) * Wait <= 0 * Wait
        /\ (0 - faults) * Wait \in Int /\ (0 - 1 - faults) * Wait \in Int /\ 0 * Wait = 0
    BY <1>1, Waits
  <2> QED  BY <1>1, <1>2, <2>1, <2>2, <2>3 DEF Patient, GivesUp
<1>6. CASE Create(p)
  BY <1>1, <1>6 DEF Create, Becomes, Patient, GivesUp
<1>7. CASE AskFails(p)
  BY <1>1, <1>7 DEF AskFails, At, Patient, GivesUp, Asking
<1>8. CASE Exists(p) \/ FindAbandoned(p) \/ WaitOver(p)
  <2>1. /\ UNCHANGED <<dir, faults, stood>> /\ Attempts(p)' = Attempts(p)
        /\ pc[p] \in Asking /\ pc'[p] \in Asking \ {"wait"}
        /\ pc[p] = "wait" => since[p] >= Wait
    BY <1>1, <1>8 DEF Exists, FindAbandoned, WaitOver, At, bounds, Attempts, Asking
  <2>2. stood[p] => (dir.age > Stale \/ w <= dir.age) /\ v <= Stale /\ dir # NoDir
    BY <1>1, <1>2, <1>3, <1>4, <2>1
  <2>3. /\ (Attempts(p) - faults)' * Wait = w /\ (Attempts(p) - 1 - faults)' * Wait = v
    BY <1>3, <2>1
  <2> QED  BY <2>1, <2>2, <2>3 DEF Patient, GivesUp, Asking
<1>9. CASE FindHeld(p)
  <2>1. /\ UNCHANGED <<dir, faults, stood, crashes>> /\ pc[p] = "look" /\ ~Abandoned
        /\ NextTry(p, "wait")
    BY <1>9 DEF FindHeld, bounds
  <2>2. stood[p] => dir.age <= Stale /\ w <= dir.age /\ v <= Stale /\ dir # NoDir /\ w <= Stale
    BY <1>1, <1>2, <1>4, <2>1 DEF Abandoned, Asking
  <2>3. CASE pc'[p] = "wait" /\ since'[p] = 0 /\ Attempts(p)' = Attempts(p) + 1
    <3>1. (Attempts(p) - 1 - faults)' * Wait = w
      <4>1. (Attempts(p) - 1 - faults)' = Attempts(p) - faults
        BY <1>1, <2>1, <2>3
      <4> QED  BY <1>3, <4>1
    <3> QED  BY <1>1, <1>2, <1>3, <2>1, <2>2, <2>3, <3>1 DEF Patient, GivesUp
  <2>4. CASE pc'[p] = "ask" /\ since'[p] = 0 /\ Attempts(p)' = Attempts(p)
    <3>1. /\ (Attempts(p) - faults)' * Wait = w /\ (Attempts(p) - 1 - faults)' * Wait = v
      BY <1>3, <2>1, <2>4
    <3> QED  BY <1>1, <1>2, <2>1, <2>2, <2>4, <3>1 DEF Patient, GivesUp
  <2>5. CASE pc'[p] = "idle" /\ Attempts(p) = SaveRounds * Retries
    <3>1. ~stood[p]
      BY <1>1, <1>3, <2>2, <2>5, Exhausted
    <3> QED  BY <2>5, <3>1 DEF Patient, Asking
  <2> QED  BY <2>1, <2>3, <2>4, <2>5, NextAttempt DEF Asking
<1>10. CASE Remove(p)
  <2>1. /\ pc[p] = "remove" /\ NextTry(p, "ask")
        /\ \/ ~stood'[p]
           \/ faults' = faults + 1 /\ UNCHANGED <<dir, stood>>
    BY <1>1, <1>10 DEF Remove, Becomes, Fault
  <2>2. stood[p] => v <= Stale /\ dir # NoDir /\ (dir.age > Stale \/ w <= dir.age)
    BY <1>4, <2>1 DEF Asking
  <2>3. CASE pc'[p] = "ask" /\ Attempts(p)' \in {Attempts(p), Attempts(p) + 1}
    <3>1. CASE ~stood'[p]
      BY <2>3, <3>1 DEF Patient, GivesUp
    <3>2. CASE faults' = faults + 1 /\ UNCHANGED <<dir, stood>>
      <4>1. /\ (Attempts(p)' - faults') <= Attempts(p) - faults
            /\ (Attempts(p)' - 1 - faults') <= Attempts(p) - 1 - faults
            /\ Attempts(p)' \in Int /\ faults' \in Int
        BY <1>1, <2>3, <3>2
      <4>2. PICK x \in Int, y \in Int : /\ x = (Attempts(p)' - faults') * Wait
                                       /\ y = (Attempts(p)' - 1 - faults') * Wait
                                       /\ x <= w /\ y <= v
        BY <1>1, <1>3, <4>1, Waits
      <4>3. stood[p] => y <= Stale /\ dir # NoDir /\ (dir.age > Stale \/ x <= dir.age)
        BY <1>1, <1>2, <2>2, <4>2
      <4>4. Patient(p)'
        BY <2>3, <3>2, <4>2, <4>3 DEF Patient
      <4> QED  BY <2>3, <4>4 DEF GivesUp
    <3> QED  BY <2>1, <3>1, <3>2
  <2>4. CASE pc'[p] = "idle" /\ Attempts(p) = SaveRounds * Retries
    <3>1. ~stood[p]
      BY <1>1, <1>3, <2>2, <2>4, Exhausted
    <3> QED  BY <2>4, <3>1 DEF Patient, Asking
  <2> QED  BY <2>1, <2>3, <2>4, NextAttempt DEF Asking
<1> QED  BY <1>5, <1>6, <1>7, <1>8, <1>9, <1>10

(* A process that steps leaves the asking of the others alone.               *)
LEMMA ElsewherePatient ==
  ASSUME TypeOK, NEW p \in Savers, NEW q \in Process, p # q, Ask(q) \/ Acts(q) \/ Crash(q)
  PROVE  /\ UNCHANGED <<pc[p], since[p], tries[p], round[p]>>
         /\ stood'[p] => stood[p] /\ dir' = dir
         /\ faults' >= faults
<1>1. p \in Process /\ faults \in Int
  BY TimingAssumption DEF TypeOK
<1>2. CASE Ask(q) \/ Create(q) \/ Exists(q) \/ AskFails(q) \/ FindAbandoned(q) \/ WaitOver(q)
  BY <1>1, <1>2 DEF TypeOK, Ask, Create, Exists, AskFails, FindAbandoned, WaitOver, At, Becomes,
                    Fault, bounds
<1>3. CASE FindHeld(q) \/ Remove(q)
  <2>1. /\ UNCHANGED <<pc[p], since[p], tries[p], round[p]>>
    BY <1>1, <1>3 DEF TypeOK, FindHeld, Remove, NextTry, At
  <2>2. /\ stood'[p] => stood[p] /\ dir' = dir
        /\ faults' >= faults
    BY <1>1, <1>3 DEF FindHeld, Remove, Becomes, Fault, bounds
  <2> QED  BY <2>1, <2>2
<1>4. CASE Started(q) \/ NotStarted(q) \/ Look(q) \/ Touch(q) \/ ReadBack(q)
  BY <1>1, <1>4 DEF TypeOK, Started, NotStarted, Look, Touch, ReadBack, At, Becomes, Fault,
                    bounds, history
<1>5. CASE FindLost(q) \/ Stop(q) \/ Drop(q) \/ DropLost(q) \/ Crash(q)
  BY <1>1, <1>5 DEF TypeOK, FindLost, Stop, Drop, DropLost, Crash, At, Becomes, Fault,
                    bounds, history
<1> QED  BY <1>2, <1>3, <1>4, <1>5 DEF Acts

(* A process that has the lock, or dies, asks no more.                       *)
LEMMA HoldingPatient ==
  ASSUME TypeOK, NEW p \in Savers,
         \/ Started(p) \/ NotStarted(p) \/ Look(p) \/ Touch(p) \/ ReadBack(p)
         \/ FindLost(p) \/ Stop(p) \/ Drop(p) \/ DropLost(p) \/ Crash(p)
  PROVE  Patient(p)' /\ ~GivesUp(p)
<1>1. p \in Process /\ crashes \in Int
  BY TimingAssumption DEF TypeOK
<1>2. pc'[p] \in {"idle", "held", "touch", "stored", "drop", "lost"}
  BY <1>1 DEF TypeOK, Started, NotStarted, Look, Touch, ReadBack, FindLost, Stop, Drop, DropLost,
              Crash, At
<1>3. pc[p] \notin {"look", "remove"} \/ crashes' # crashes
  BY <1>1 DEF Started, NotStarted, Look, Touch, ReadBack, FindLost, Stop, Drop, DropLost, Crash
<1> QED  BY <1>2, <1>3 DEF Patient, GivesUp, Asking

(* No step has a saver give up before its waits are over.                    *)
LEMMA PatientStep ==
  ASSUME TypeOK, TypeOK', NEW p \in Savers, Patient(p), Outwaits, [Next]_vars
  PROVE  Patient(p)' /\ (GivesUp(p) => ~stood[p])
<1>1. CASE UNCHANGED vars
  BY <1>1 DEF vars, procVars, history, bounds, Patient, Attempts, GivesUp
<1>2. CASE Tick \/ Sleep
  BY <1>2, TimePatient DEF GivesUp, Tick, Sleep
<1>3. CASE \E q \in Process : q # p /\ (Ask(q) \/ Acts(q) \/ Crash(q))
  BY <1>3, ElsewherePatient, OthersPatient DEF GivesUp
<1>4. CASE Ask(p) \/ Acts(p) \/ Crash(p)
  BY <1>4, AskingPatient, HoldingPatient DEF Acts
<1> QED  BY <1>1, <1>2, <1>3, <1>4 DEF Next

(* SaverOutwaits: where the waits of all rounds outlast the staleness, a     *)
(* saver gives up the write lock, and saves without it, only where somebody  *)
(* touched or let go of the lock since it began asking, whoever dies, sleeps *)
(* or fails to remove it meanwhile.                                          *)
THEOREM SaversOutwait == Outwaits => (Spec => SaverOutwaits)
<1> SUFFICES ASSUME Outwaits PROVE Spec => SaverOutwaits
  OBVIOUS
<1>1. Init => PatientAll
  BY TimingAssumption DEF Init, PatientAll, Patient
<1>2. (TypeOK /\ PatientAll) /\ TypeOK' /\ [Next]_vars
        => PatientAll' /\ [\A p \in Savers : GivesUp(p) => ~stood[p]]_vars
  BY PatientStep DEF PatientAll
<1> QED  BY <1>1, <1>2, TypeCorrect, PTL DEF Spec, SaverOutwaits

=============================================================================
