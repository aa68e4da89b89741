----------------------------- MODULE AutoSwitch -----------------------------
(***************************************************************************)
(* The automatic switch: Claude Code moved to another account once a limit *)
(* of the one in use reaches a share, or before it under the order         *)
(* "resets-soonest".  What keeps it from trying one thing too often, or    *)
(* saying one thing twice, is a record kept between runs, autoswitch.json, *)
(* by the limit and the time it resets.                                    *)
(*                                                                         *)
(* Every front end that acts by itself decides under state.lock, so there  *)
(* is one process here, deciding again and again; it dies anywhere.        *)
(* Meanwhile time passes, readings of usage come, a person switches, and   *)
(* somebody signs in outside.  A reading gives a window's reset up to      *)
(* Jitter late, so two readings of one window need not agree on it.        *)
(*                                                                         *)
(* The look front ends take first, from files alone and on no lock, writes *)
(* nothing and decides again under the lock: a decision here may come at   *)
(* any time.                                                               *)
(***************************************************************************)
EXTENDS Integers, Bags, BagsExt

CONSTANTS Accounts,     \* Claude Code accounts enrolled, each parked or in use
          Nobody,       \* no account
          Weekless,     \* accounts with no weekly limit, such as a Team seat
          Offset,       \* [Accounts -> Nat]: when in the cycle an account's windows reset
          Length,       \* [Limits -> Nat]: how long a window runs
          Orders,       \* the orders front ends choose accounts in
          Percents,     \* the shares used a reading gives
          Share,        \* the share to switch at
          Same,         \* SAME_RESET: resets closer than this are one
          Jitter,       \* how late a reading gives a reset
          Settling,     \* SETTLING_SECONDS
          Retry, RetryMost, \* RETRY_SECONDS, RETRY_MOST_SECONDS
          Attempts,     \* ATTEMPTS
          Fresh,        \* UNREACHABLE_MOST: how old a reading to move by may be
          Lasting,      \* how long a decision takes at most
          First,        \* bound: the account in use at first
          FirstLate,    \* bound: how late the answers had at first give a reset
          Start, End,   \* bounds: when it begins and ends
          MaxReadings,  \* bound: answers about usage
          MaxEvents     \* bound: switches by a person, sign-ins and sign-outs, switches
                        \* refused, answers not had, saves that fail, crashes

Limits == {"session", "weekly"}

ASSUME AutoSwitchAssumption ==
  /\ Nobody \notin Accounts /\ First \in Accounts /\ Weekless \subseteq Accounts
  /\ FirstLate \subseteq 0 .. Jitter
  /\ Offset \in [Accounts -> Nat] /\ Length \in [Limits -> Nat \ {0}]
  /\ Orders \subseteq {"most-left", "resets-soonest"}
  /\ Percents \subseteq Nat /\ Share \in Nat \ {0}
  /\ {Same, Jitter, Settling, Retry, RetryMost, Attempts, Fresh, Lasting, Start, End} \subseteq Nat
  /\ Jitter < Same /\ \A l \in Limits : Length[l] >= Same + Jitter
  /\ Start > RetryMost /\ Start > Same + Jitter

VARIABLES
  now,        \* the clock
  readings,   \* usage.json: [at, windows], the last answer about each account
  stored,     \* whose login Claude Code has stored
  parked,     \* accounts with a login parked
  inUse,      \* the record of whose login is stored: [owner, at]
  lastUsed,   \* when each account was last put in use
  ledger,     \* autoswitch.json: [limits, early, asked]
  pc,         \* "idle", "ask", "switching", "switched", "cut"
  run,        \* the decision under way: [at, order, plan]
  \* History, by the thing tried as it really is, whatever reset a reading gave it.
  left,       \* how often each was switched for
  begun,      \* the attempts at each that count
  unrecorded, \* the switches for each that the ledger lost
  lastEarly,  \* when a move to each account before the share was last begun
  logged,     \* the reasons in the activity log
  repeated,   \* whether one was logged twice
  taken, events \* bounds: what MaxReadings and MaxEvents bound, so far

logins  == <<stored, parked, inUse, lastUsed>>
history == <<left, begun, unrecorded, lastEarly>>
log     == <<logged, repeated>>
vars    == <<now, readings, logins, ledger, pc, run, history, log, taken, events>>

-----------------------------------------------------------------------------
(* Windows and readings (usage/mod.rs). *)

LimitsOf(a) == IF a \in Weekless THEN {"session"} ELSE Limits

\* The end of the window a reset is of, at most Jitter after it, and of the one running at t.
EndOf(a, l, resets) == resets - ((resets - Offset[a]) % Length[l])
Ends(a, l, t)       == EndOf(a, l, t) + Length[l]

SameReset(x, y)    == x < y + Same /\ y < x + Same
\* Mutant: a record goes with the reset it was kept under, and not a minute later.
RunsUntil(at, t) == at > t

MayStillRun(at, t) == at > t \/ SameReset(at, t)

NoAnswer      == [at |-> 0, windows |-> [l \in Limits |-> [used |-> 0, resets |-> 0]]]
Window(a, l)  == readings[a].windows[l]
Used(w, t)    == IF w.resets <= t THEN 0 ELSE w.used
Answered(a)   == readings[a].at # 0
AtShare(a, t) == {l \in LimitsOf(a) : Used(Window(a, l), t) >= Share}

\* The fuller of an account's limits first, then the one that resets sooner.
Furthest(a, ls, t) ==
  LET fuller(l, m) ==
        LET x == Window(a, l)
            y == Window(a, m)
        IN  \/ Used(x, t) > Used(y, t)
            \/ Used(x, t) = Used(y, t) /\ x.resets < y.resets
  IN  {l \in ls : \A m \in ls : ~fuller(m, l)}

-----------------------------------------------------------------------------
(* Which account first (usage/order.rs). *)

\* When what an account has left of its week is lost: never (0), at a time, or not known (2).
Week(a, t) ==
  IF a \in Weekless THEN [rank |-> 0, at |-> 0]
  ELSE IF Window(a, "weekly").resets > t THEN [rank |-> 1, at |-> Window(a, "weekly").resets]
  ELSE [rank |-> 2, at |-> 0]

ComesBefore(x, y) ==
  \/ x.rank = 0 /\ y.rank # 0
  \/ x.rank = 1 /\ y.rank = 1 /\ x.at < y.at /\ ~SameReset(x.at, y.at)

Sooner(order, x, y) ==
  IF order = "most-left" THEN x.rank = 0 /\ y.rank # 0
  ELSE x.rank < y.rank \/ ComesBefore(x, y)

Fullest(a, ls, t) ==
  LET shares == {0} \cup {Used(Window(a, l), t) : l \in ls \cap LimitsOf(a)}
  IN  CHOOSE s \in shares : \A r \in shares : r <= s

\* The first in the order, then with least used of the limits ls, then of its others.
Preferred(order, as, ls, t) ==
  LET before(a, b) ==
        LET x == Week(a, t)
            y == Week(b, t)
            mine(c)   == Fullest(c, ls, t)
            others(c) == Fullest(c, Limits \ ls, t)
        IN  \/ Sooner(order, x, y)
            \/ /\ ~Sooner(order, y, x)
               /\ \/ mine(a) < mine(b)
                  \/ mine(a) = mine(b) /\ others(a) < others(b)
  IN  {a \in as : \A b \in as : ~before(b, a)}

-----------------------------------------------------------------------------
(* What was tried and said (duty/ledger.rs, the ledger of duty/autoswitch.rs).  Nothing *)
(* kept of a thing, and a record of an earlier window of it, are New.                   *)

New(resets) == [resets |-> resets, attempts |-> 0, waits |-> 0, at |-> 0,
                said |-> {}, switched |-> FALSE, passed |-> {}]
NotAsked    == [at |-> 0, failures |-> 0]

\* Mutant: a record kept under one reset is not found under the next answer's.
OfExactly(tried, resets) == IF tried.resets = resets THEN tried ELSE New(resets)

Of(tried, resets) == IF SameReset(tried.resets, resets) THEN tried ELSE New(resets)
Open(tried)       == ~tried.switched /\ tried.attempts < Attempts

Doubled(waits)   == IF waits <= 1 THEN Retry ELSE (2 ^ (IF waits > 5 THEN 4 ELSE waits - 1)) * Retry
RetryAfter(waits) == IF Doubled(waits) < RetryMost THEN Doubled(waits) ELSE RetryMost
WaitsUntil(tried) == tried.at + RetryAfter(tried.waits)

Tried(k, a, l)  == Of(k.limits[a][l], Window(a, l).resets)
OpenEarly(k, a, t) == Open(Of(k.early[a], Week(a, t).at))
EarlyWaits(k, t) == \E a \in Accounts : Open(k.early[a]) /\ t < WaitsUntil(k.early[a])

\* Without the windows that have reset, as it is read and as it is written.
Dropped(k, t) ==
  LET stays(tried) == \/ MayStillRun(tried.resets, t)
                      \/ tried.resets = 0 /\ t - tried.at < Length["weekly"]
      still(tried) == IF stays(tried) THEN tried ELSE New(0)
  IN  [k EXCEPT !.limits = [a \in Accounts |-> [l \in Limits |-> still(k.limits[a][l])]],
                !.early  = [a \in Accounts |-> still(k.early[a])]]

\* What is kept of the thing a plan is for: a limit of the account left, or the week moved to.
TriedFor(k, plan) ==
  IF plan.on = "early" THEN Of(k.early[plan.to], plan.resets)
  ELSE Of(k.limits[plan.from][plan.on], plan.resets)

Trying(k, plan, tried) ==
  IF plan.on = "early" THEN [k EXCEPT !.early[plan.to] = tried]
  ELSE [k EXCEPT !.limits[plan.from][plan.on] = tried]

Attempted(k, plan, t) ==
  Trying(k, plan, [TriedFor(k, plan) EXCEPT !.attempts = @ + 1, !.at = t])

Waited(k, plan) ==
  Trying(k, plan, [TriedFor(k, plan) EXCEPT !.attempts = IF @ = 0 THEN 0 ELSE @ - 1,
                                            !.waits = @ + 1])

\* Mutant: an attempt refused over the account does not count, as one the moment refused.
PassedOverFree(k, plan) == Waited(k, plan)

PassedOver(k, plan) ==
  LET tried == TriedFor(k, plan)
  IN  Trying(k, plan,
        IF plan.on = "early"
        THEN [tried EXCEPT !.waits = 0, !.attempts = IF @ < Attempts THEN Attempts ELSE @]
        ELSE [tried EXCEPT !.waits = 0, !.passed = @ \cup {plan.to}])

SwitchedFor(k, plan) == Trying(k, plan, [TriedFor(k, plan) EXCEPT !.switched = TRUE])

Said(k, a, hold) == hold.why \in Of(k.limits[a][hold.on], hold.resets).said
Say(k, a, hold) ==
  LET tried == Of(k.limits[a][hold.on], hold.resets)
  IN  [k EXCEPT !.limits[a][hold.on] = [tried EXCEPT !.said = tried.said \cup {hold.why}]]

\* The times whose login is stored was not told, unless it was since.
NotTold == IF inUse.at > ledger.asked.at THEN NotAsked ELSE ledger.asked
AskWaits(t) == NotTold.failures > 0 /\ t < NotTold.at + RetryAfter(NotTold.failures)

-----------------------------------------------------------------------------
(* A decision about cur, the account in use, under a policy [order, overridden], from   *)
(* what is kept, at a time (duty/autoswitch.rs decide, early, judge): the set of those  *)
(* the order of rows and limits alike leaves open.                                      *)

Stay               == [do |-> "stay"]
Hold(on, resets, why) == [do |-> "hold", on |-> on, resets |-> resets, why |-> why]
Move(plan)         == [do |-> "move", plan |-> plan]
NoPlan             == [from |-> Nobody, to |-> Nobody, on |-> "early", resets |-> 0]

NoRun              == [at |-> 0, order |-> "most-left", plan |-> NoPlan]

Settles(cur, used, t) == used[cur] <= t /\ t - used[cur] < Settling

\* The accounts with room to go to.
Goes(cur, t) == {a \in parked \ {cur} : Answered(a) /\ AtShare(a, t) = {}}

\* Away from a limit at the share that is left to try.
Leaving(k, cur, l, policy, used, t) ==
  LET resets == Tried(k, cur, l).resets
      waits  == \E m \in AtShare(cur, t) :
                  ~Tried(k, cur, m).switched /\ t < WaitsUntil(Tried(k, cur, m))
      passed == UNION {Tried(k, cur, m).passed : m \in LimitsOf(cur)}
      best   == Preferred(policy.order, Goes(cur, t) \ passed, {l}, t)
  IN  IF Settles(cur, used, t) THEN {Hold(l, resets, "settling")}
      ELSE IF waits THEN {Stay}
      ELSE IF best = {} THEN {Hold(l, resets, "no_room")}
      ELSE IF policy.overridden THEN {Hold(l, resets, "auth_overridden")}
      ELSE {Move([from |-> cur, to |-> to, on |-> l, resets |-> resets]) : to \in best}

\* Before the share, to an account whose week is lost first.
Early(k, cur, policy, used, t) ==
  LET first == {a \in Goes(cur, t) :
                  /\ t - readings[a].at <= Fresh
                  /\ ComesBefore(Week(a, t), Week(cur, t))
                  /\ Used(Window(a, "session"), t) <= Used(Window(cur, "session"), t)
                  /\ OpenEarly(k, a, t)}
      best  == Preferred("resets-soonest", first, {}, t)
  IN  IF \/ policy.order # "resets-soonest" \/ policy.overridden
         \/ Settles(cur, used, t) \/ EarlyWaits(k, t) \/ best = {}
      THEN {Stay}
      ELSE {Move([from |-> cur, to |-> to, on |-> "early", resets |-> Week(to, t).at]) : to \in best}

Judged(k, cur, policy, used, t) ==
  LET reached == AtShare(cur, t)
      open    == {l \in reached : Open(Tried(k, cur, l))}
      why(l)  == IF Tried(k, cur, l).switched THEN "already_switched" ELSE "attempts_spent"
  IN  IF ~Answered(cur) THEN {Stay}
      ELSE IF reached = {} THEN Early(k, cur, policy, used, t)
      ELSE IF open = {}
      THEN {Hold(l, Tried(k, cur, l).resets, why(l)) : l \in Furthest(cur, reached, t)}
      ELSE UNION {Leaving(k, cur, l, policy, used, t) : l \in Furthest(cur, open, t)}

-----------------------------------------------------------------------------
(* History. *)

\* The thing a plan is for, as it really is: a window of a limit, or a week.
Thing(plan) ==
  IF plan.on # "early" THEN <<plan.from, plan.on, EndOf(plan.from, plan.on, plan.resets)>>
  ELSE <<plan.to, "early", IF plan.resets = 0 THEN 0 ELSE EndOf(plan.to, "weekly", plan.resets)>>

Times(x, bag) == IF x \in DOMAIN bag THEN bag[x] ELSE 0

\* A week that never ends is another thing once no move was begun for the length of one.
Rested(plan, t) ==
  plan.on = "early" /\ plan.resets = 0 /\ t - lastEarly[plan.to] >= Length["weekly"]

\* The moves to these accounts before the share are forgotten.
Without(bag, as) == [x \in {y \in DOMAIN bag : y[1] \notin as \/ y[2] # "early"} |-> bag[x]]
Forgets(as) == left' = Without(left, as) /\ unrecorded' = Without(unrecorded, as)

Log(a, hold) ==
  LET entry == <<a, hold.on, EndOf(a, hold.on, hold.resets), hold.why>>
  IN  logged' = logged \cup {entry} /\ repeated' = (repeated \/ entry \in logged)

-----------------------------------------------------------------------------
(* The world. *)

Event == events < MaxEvents /\ events' = events + 1 /\ UNCHANGED taken

Tick ==
  /\ now < End /\ (pc \in {"ask", "switching", "switched"} => now < run.at + Lasting)
  /\ now' = now + 1
  /\ UNCHANGED <<readings, logins, ledger, pc, run, history, log, taken, events>>

\* Anthropic answers about an account.
AnswersOf(a, t, lates) ==
  LET reset(l, late) == IF l \in LimitsOf(a) THEN Ends(a, l, t) + late ELSE 0
      used(l, share) == IF l \in LimitsOf(a) THEN share[l] ELSE 0
  IN  {[at |-> t, windows |-> [l \in Limits |-> [used |-> used(l, share), resets |-> reset(l, late)]]] :
         share \in [LimitsOf(a) -> Percents], late \in lates}

Answers(a) ==
  /\ taken < MaxReadings /\ taken' = taken + 1
  /\ \E answer \in AnswersOf(a, now, 0 .. Jitter) : readings' = [readings EXCEPT ![a] = answer]
  /\ UNCHANGED <<now, logins, ledger, pc, run, history, log, events>>

\* Whose login is stored is recorded, and when it came to be in use if it is another's.
UsedAsOf(at) == IF stored \in {inUse.owner, Nobody} THEN lastUsed
                ELSE [lastUsed EXCEPT ![stored] = at]
Record(at) ==
  /\ inUse' = IF inUse.owner = stored THEN inUse ELSE [owner |-> stored, at |-> at]
  /\ lastUsed' = UsedAsOf(at)

\* Somebody signs in, or out, in Claude Code.
SignsIn(a) ==
  /\ Event /\ a # stored
  /\ stored' = a
  /\ UNCHANGED <<now, readings, parked, inUse, lastUsed, ledger, pc, run, history, log>>

\* A switch parks the login it moves out and puts another account's in place.
PutInUse(to) ==
  /\ stored' = to
  /\ parked' = (parked \ {to}) \cup ({stored} \ {Nobody})
  /\ inUse' = [owner |-> to, at |-> now]
  /\ lastUsed' = [lastUsed EXCEPT ![to] = now]

PersonSwitches(to) ==
  /\ pc = "idle" /\ Event
  /\ to \in parked \ {stored}
  /\ PutInUse(to)
  /\ UNCHANGED <<now, readings, ledger, pc, run, history, log>>

\* A read tells whose login is stored.
Reads ==
  /\ pc = "idle" /\ inUse.owner # stored
  /\ Record(now)
  /\ UNCHANGED <<now, readings, stored, parked, ledger, pc, run, history, log, taken, events>>

\* The next change settles a switch a crash cut short.
Settled ==
  /\ pc = "cut"
  /\ Record(now)
  /\ pc' = "idle"
  /\ UNCHANGED <<now, readings, stored, parked, ledger, run, history, log, taken, events>>

-----------------------------------------------------------------------------
(* A decision under the lock (switch/auto.rs automatically). *)

\* The time is taken and the ledger read; then whose login is stored is asked.
Begin ==
  /\ pc = "idle" /\ ~AskWaits(now)
  /\ run' = [NoRun EXCEPT !.at = now]
  /\ pc' = "ask"
  /\ UNCHANGED <<now, readings, logins, ledger, history, log, taken, events>>

Loaded == Dropped(ledger, run.at)

Saves(k) == ledger' = Dropped(k, now)
Keeps(k) == IF k = Loaded THEN UNCHANGED ledger ELSE Saves(k)

\* Not told: kept for the wait after it, where that could be saved.
CannotTell ==
  /\ pc = "ask" /\ Event
  /\ \/ Saves([Loaded EXCEPT !.asked = [at |-> run.at, failures |-> NotTold.failures + 1]])
     \/ UNCHANGED ledger
  /\ pc' = "idle" /\ run' = NoRun
  /\ UNCHANGED <<now, readings, logins, history, log>>

\* Told: recorded, and no longer not told.
Told == [Loaded EXCEPT !.asked = NotAsked]
Tells ==
  /\ pc = "ask"
  /\ Record(now)
  /\ UNCHANGED <<now, readings, stored, parked>>

Decisions(order) ==
  IF stored = Nobody THEN {Stay}
  ELSE UNION {Judged(Told, stored, [order |-> order, overridden |-> o], UsedAsOf(now), run.at) :
                o \in BOOLEAN}

\* A limit of the account in use at the share forgets the moves to it before the share.
Met(k, a) == [k EXCEPT !.early[a] = New(0)]
MetLimit(a) == Forgets({a}) /\ begun' = Without(begun, {a}) /\ UNCHANGED lastEarly

Stays ==
  /\ Tells /\ \E order \in Orders : Stay \in Decisions(order)
  /\ Keeps(Told)
  /\ pc' = "idle" /\ run' = NoRun
  /\ UNCHANGED <<history, log, taken, events>>

\* A reason not to switch is saved, and then logged if it was not said before.
Holds ==
  /\ Tells
  /\ \E hold \in {d \in UNION {Decisions(order) : order \in Orders} : d.do = "hold"} :
       /\ Keeps(Say(Met(Told, stored), stored, hold))
       /\ IF Said(Told, stored, hold) THEN UNCHANGED log ELSE Log(stored, hold)
       /\ MetLimit(stored)
  /\ pc' = "idle" /\ run' = NoRun
  /\ UNCHANGED <<taken, events>>

\* An attempt is saved before anything moves.
Moves ==
  /\ Tells
  /\ \E order \in Orders : \E move \in {d \in Decisions(order) : d.do = "move"} :
       LET plan == move.plan
           away == plan.on # "early"
           over == IF away THEN {stored} ELSE IF Rested(plan, run.at) THEN {plan.to} ELSE {}
           kept == IF away THEN Met(Told, stored) ELSE Told
       IN  /\ run' = [run EXCEPT !.order = order, !.plan = plan]
           /\ Saves(Attempted(kept, plan, run.at))
           /\ begun' = BagAdd(Without(begun, over), Thing(plan)) /\ Forgets(over)
           /\ lastEarly' = IF away THEN lastEarly ELSE [lastEarly EXCEPT ![plan.to] = run.at]
  /\ pc' = "switching"
  /\ UNCHANGED <<log, taken, events>>

\* A save that fails, or a crash, before any of that is kept.
Stops ==
  /\ Tells /\ Event
  /\ \/ Keeps(Told)
     \/ UNCHANGED ledger
  /\ pc' = "idle" /\ run' = NoRun
  /\ UNCHANGED <<history, log>>

\* The switch rests on the login told: made, or refused.
Switches ==
  /\ pc = "switching" /\ stored = run.plan.from
  /\ PutInUse(run.plan.to)
  /\ left' = BagAdd(left, Thing(run.plan))
  /\ pc' = "switched"
  /\ UNCHANGED <<now, readings, ledger, run, begun, unrecorded, lastEarly, log, taken, events>>

\* The record of it, which nothing waits for.
Finishes ==
  /\ pc = "switched"
  /\ \/ /\ Saves(SwitchedFor(ledger, run.plan))
        /\ UNCHANGED <<unrecorded, taken, events>>
     \/ /\ Event
        /\ unrecorded' = BagAdd(unrecorded, Thing(run.plan))
        /\ UNCHANGED ledger
  /\ pc' = "idle" /\ run' = NoRun
  /\ UNCHANGED <<now, readings, logins, left, begun, lastEarly, log>>

\* Refused over the account, the moment, or for another reason; and judged again, as decided
\* from, for why no limit is left to try.
Refused(over) ==
  /\ pc = "switching"
  /\ IF over = "moment" /\ stored # run.plan.from THEN UNCHANGED <<taken, events>> ELSE Event
  /\ LET plan  == run.plan
         kept  == CASE over = "account" -> PassedOver(ledger, plan)
                    [] over = "moment"  -> Waited(ledger, plan)
                    [] over = "other"   -> ledger
         again == UNION {Judged(kept, plan.from, [order |-> run.order, overridden |-> o], lastUsed, run.at) :
                           o \in BOOLEAN}
     IN  /\ \E d \in again :
              IF d.do = "hold" /\ ~Said(kept, plan.from, d)
              THEN Saves(Say(kept, plan.from, d)) /\ Log(plan.from, d)
              ELSE Saves(kept) /\ UNCHANGED log
         /\ begun' = IF over = "moment" THEN BagRemove(begun, Thing(plan)) ELSE begun
  /\ pc' = "idle" /\ run' = NoRun
  /\ UNCHANGED <<now, readings, logins, left, unrecorded, lastEarly>>

\* Refused, and what that came to not kept; or a crash with nothing moved.
RefusedUnkept ==
  /\ pc = "switching" /\ Event
  /\ pc' = "idle" /\ run' = NoRun
  /\ UNCHANGED <<now, readings, logins, ledger, history, log>>

\* Killed midway with the login moved: the switch's record waits for the next change.
CutShort ==
  /\ pc = "switching" /\ stored = run.plan.from /\ Event
  /\ stored' = run.plan.to
  /\ parked' = (parked \ {run.plan.to}) \cup {stored}
  /\ left' = BagAdd(left, Thing(run.plan)) /\ unrecorded' = BagAdd(unrecorded, Thing(run.plan))
  /\ pc' = "cut" /\ run' = NoRun
  /\ UNCHANGED <<now, readings, inUse, lastUsed, ledger, begun, lastEarly, log>>

-----------------------------------------------------------------------------
Init ==
  /\ now = Start
  /\ \/ readings = [a \in Accounts |-> NoAnswer]
     \/ \E answers \in [Accounts -> UNION {AnswersOf(a, Start, FirstLate) : a \in Accounts}] :
          /\ \A a \in Accounts : answers[a] \in AnswersOf(a, Start, FirstLate)
          /\ readings = answers
  /\ stored = First /\ parked = Accounts \ {stored}
  /\ inUse = [owner |-> stored, at |-> 1]
  /\ lastUsed = [a \in Accounts |-> 0]
  /\ ledger = [limits |-> [a \in Accounts |-> [l \in Limits |-> New(0)]],
               early |-> [a \in Accounts |-> New(0)], asked |-> NotAsked]
  /\ pc = "idle" /\ run = NoRun
  /\ left = EmptyBag /\ begun = EmptyBag /\ unrecorded = EmptyBag
  /\ lastEarly = [a \in Accounts |-> 0]
  /\ logged = {} /\ repeated = FALSE
  /\ taken = 0 /\ events = 0

Outside ==
  \/ Tick \/ Reads \/ Settled
  \/ \E a \in Accounts : Answers(a) \/ PersonSwitches(a)
  \/ \E a \in Accounts \cup {Nobody} : SignsIn(a)

Decides ==
  \/ Begin \/ CannotTell \/ Stays \/ Holds \/ Moves \/ Stops
  \/ Switches \/ Finishes \/ RefusedUnkept \/ CutShort
  \/ \E over \in {"account", "moment", "other"} : Refused(over)

Next == Outside \/ Decides

Spec == Init /\ [][Next]_vars

-----------------------------------------------------------------------------
\* One limit of an account is switched away from once before it resets, and one week
\* moved to once, though two answers give a reset apart, a person puts the account
\* back, front ends follow other orders, and a run dies between the attempt and its
\* record: but for the switches nobody could record.
LeftOnce == \A x \in DOMAIN left : Times(x, left) <= 1 + Times(x, unrecorded)

\* Attempts for one limit or one week that waiting would not mend are made no more
\* often than ATTEMPTS, whoever makes them and however each ends, killed included.
TriedAtMost == \A x \in DOMAIN begun : Times(x, begun) <= Attempts

\* A reason not to switch away from a limit is logged once before the limit resets,
\* whether a decision or a refused switch came to it.
SaidOnce == ~repeated

\* An account is not switched away from within SETTLING_SECONDS of the switch or the
\* sign-in that put it in use, as state.json records when that was.
LeftAlone ==
  [][pc = "switching" /\ pc' = "switched" => now - lastUsed[run.plan.from] >= Settling]_vars

=============================================================================
