-------------------------- MODULE AutoSwitchProofs --------------------------
(***************************************************************************)
(* That the automatic switch leaves a limit once before it resets, tries   *)
(* no thing more than Attempts times and gives no reason twice, for any    *)
(* accounts, windows, clock and number of events.                          *)
(*                                                                         *)
(* What it goes by is a record under the reset one answer gave, compared   *)
(* with the reset another gives.  The proof says what the records are of:  *)
(* each is of the window its reset ends (Kept), or that window is Gone,    *)
(* past or no longer the one answers are about, and nothing is decided     *)
(* over it any more.                                                       *)
(***************************************************************************)
EXTENDS AutoSwitch, TLAPS

Reasons == {"settling", "no_room", "auth_overridden", "already_switched", "attempts_spent"}

Tries == [resets : Nat, attempts : Nat, waits : Nat, at : Nat, said : SUBSET Reasons,
          switched : BOOLEAN, passed : SUBSET Accounts]

Ledgers == [limits : [Accounts -> [Limits -> Tries]], early : [Accounts -> Tries],
            asked : [at : Nat, failures : Nat]]

Plans == [from : Accounts \cup {Nobody}, to : Accounts \cup {Nobody},
          on : Limits \cup {"early"}, resets : Nat]

\* The limit whose window a thing is: the week's, of a move before the share.
Lim(on) == IF on = "early" THEN "weekly" ELSE on

\* What is tried, as it really is: a window by its end, and a week that never ends.
Things == {x \in Accounts \X (Limits \cup {"early"}) \X Nat :
             /\ x[3] = 0 <=> x[2] = "early" /\ x[1] \in Weekless
             /\ x[2] \in LimitsOf(x[1]) \cup {"early"}}

\* Histories count things.
IsBag(bag) == bag \in [DOMAIN bag -> Nat \ {0}] /\ DOMAIN bag \subseteq Things

\* A reset some answer gave for a window.
Legit(a, l, r) == l \in LimitsOf(a) /\ r \in Nat /\ r > Start /\ r <= EndOf(a, l, r) + Jitter

\* The end of the window the last answer is about.
Due(rd, a, l) == EndOf(a, l, rd[a].windows[l].resets)

TypeOK ==
  /\ now \in Nat /\ now >= Start
  /\ stored \in Accounts \cup {Nobody} /\ parked \subseteq Accounts
  /\ lastEarly \in [Accounts -> Nat]
  /\ ledger \in Ledgers
  /\ pc \in {"idle", "ask", "switching", "switched", "cut"}
  /\ run \in [at : Nat, order : {"most-left", "resets-soonest"}, plan : Plans]
  /\ IsBag(left) /\ IsBag(begun) /\ IsBag(unrecorded)
  /\ logged \subseteq Accounts \X Limits \X Nat \X Reasons
  /\ pc \in {"ask", "switching", "switched"} =>
       run.at >= Start /\ run.at <= now /\ now <= run.at + Lasting

\* An answer gives the resets of windows that had begun.
Answering(rd, t) ==
  /\ rd \in [Accounts -> [at : Nat, windows : [Limits -> [used : Nat, resets : Nat]]]]
  /\ \A a \in Accounts, l \in Limits :
       LET w == rd[a].windows[l]
       IN  \/ w.used = 0 /\ w.resets = 0
           \/ Legit(a, l, w.resets) /\ Due(rd, a, l) <= t + Length[l]

\* What is kept of a thing.
Rec(k, x) == IF x[2] = "early" THEN k.early[x[1]] ELSE k.limits[x[1]][x[2]]

\* The end of the window a record is of.
RecEnd(k, x) == IF Rec(k, x).resets = 0 THEN 0 ELSE EndOf(x[1], Lim(x[2]), Rec(k, x).resets)

\* A record is of the window the last answer is about, or of one before it.
Behind(k, rd) ==
  \A x \in Things :
    \/ Rec(k, x).resets = 0
    \/ /\ Legit(x[1], Lim(x[2]), Rec(k, x).resets)
       /\ RecEnd(k, x) <= Due(rd, x[1], Lim(x[2]))

\* What is kept is of this thing.
Kept(k, x, le) == RecEnd(k, x) = x[3] /\ (x[3] = 0 => Rec(k, x).at = le[x[1]])

\* It reset, or answers are about a later one.
Gone(x, t, rd, le) ==
  IF x[3] = 0 THEN t - le[x[1]] >= Length["weekly"]
  ELSE x[3] + Jitter <= t \/ x[3] < Due(rd, x[1], Lim(x[2]))

\* The attempts at a thing are kept while any may follow.
Tallied(k, t, rd, le, b) ==
  \A x \in Things :
    /\ Times(x, b) <= Attempts
    /\ \/ Times(x, b) = 0 \/ Gone(x, t, rd, le)
       \/ Kept(k, x, le) /\ Times(x, b) <= Rec(k, x).attempts

\* So is a switch, but for those the ledger lost and one just made.
Switched(k, t, rd, le, n, u, just) ==
  \A x \in Things :
    \/ Times(x, n) <= Times(x, u)
    \/ /\ Times(x, n) <= 1 + Times(x, u)
       /\ x \in just \/ Gone(x, t, rd, le) \/ (Kept(k, x, le) /\ Rec(k, x).switched)

\* So is a reason given.
Spoken(k, t, rd, le, log_) ==
  \A e \in log_ :
    LET x == <<e[1], e[2], e[3]>>
    IN  x \in Things /\ (Gone(x, t, rd, le) \/ (Kept(k, x, le) /\ e[4] \in Rec(k, x).said))

\* A plan is for a thing answers were about, and its record is that thing's or dropped.
Planned(plan, k, t, rd, le) ==
  LET x == Thing(plan)
  IN  /\ plan.from \in Accounts /\ plan.to \in Accounts /\ x \in Things
      /\ \/ plan.resets = 0 /\ x[3] = 0
         \/ /\ Legit(x[1], Lim(x[2]), plan.resets) /\ EndOf(x[1], Lim(x[2]), plan.resets) = x[3]
            /\ x[3] <= Due(rd, x[1], Lim(x[2]))
      /\ \/ Kept(k, x, le)
         \/ Rec(k, x).resets = 0 /\ Gone(x, t, rd, le)

\* When what is decided next goes by.
Since == IF pc = "ask" THEN run.at ELSE now

Just == IF pc = "switched" THEN {Thing(run.plan)} ELSE {}

Guarded ==
  /\ TypeOK
  /\ Answering(readings, now)
  /\ Behind(ledger, readings)
  /\ pc \in {"switching", "switched"} => Planned(run.plan, ledger, now, readings, lastEarly)
  /\ Tallied(ledger, Since, readings, lastEarly, begun)
  /\ Switched(ledger, Since, readings, lastEarly, left, unrecorded, Just)
  /\ pc = "switching" => Times(Thing(run.plan), left) <= Times(Thing(run.plan), unrecorded)

\* A decision is over before resets as far apart as the time it takes can be two, late as
\* they are given.
Prompt == Lasting + Jitter <= Same

\* The same of what is said, which a refused switch decides as of the decision's start.
SaysSince == IF pc \in {"ask", "switching"} THEN run.at ELSE now

Heard ==
  /\ Guarded
  /\ Prompt => Spoken(ledger, SaysSince, readings, lastEarly, logged) /\ ~repeated

-----------------------------------------------------------------------------
(* Windows. *)

\* What AutoSwitchAssumption says of each constant.
LEMMA AutoSwitchBounds ==
  /\ Nobody \notin Accounts /\ First \in Accounts /\ Weekless \subseteq Accounts
  /\ FirstLate \subseteq 0 .. Jitter
  /\ \A a \in Accounts : Offset[a] \in Nat
  /\ \A l \in Limits : Length[l] \in Nat /\ Length[l] > 0 /\ Length[l] >= Same + Jitter
  /\ Percents \subseteq Nat /\ Share \in Nat /\ Share > 0
  /\ Same \in Nat /\ Jitter \in Nat /\ Attempts \in Nat /\ Lasting \in Nat /\ Start \in Nat
  /\ Jitter < Same /\ Start > Same + Jitter
BY AutoSwitchAssumption

\* A number by a divisor.
LEMMA Divided ==
  ASSUME NEW L \in Nat \ {0}, NEW x \in Int
  PROVE  (x \div L) \in Int /\ x = (x \div L) * L + (x % L) /\ x % L \in 0 .. L - 1
OBVIOUS

\* Two multiples are apart by the divisor at least.
LEMMA Apart ==
  ASSUME NEW L \in Nat \ {0}, NEW q \in Int, NEW p \in Int, q * L < p * L
  PROVE  q * L + L <= p * L
<1>1. q < p
  OBVIOUS
<1>2. q + 1 <= p
  BY <1>1
<1>3. (q + 1) * L <= p * L
  BY <1>2
<1>4. (q + 1) * L = q * L + L
  OBVIOUS
<1> QED BY <1>3, <1>4

\* The ends of an account's windows.
LEMMA EndOfIs ==
  ASSUME NEW a \in Accounts, NEW l \in Limits, NEW r \in Int
  PROVE  /\ EndOf(a, l, r) \in Int /\ EndOf(a, l, r) <= r /\ r < EndOf(a, l, r) + Length[l]
         /\ \E q \in Int : EndOf(a, l, r) = Offset[a] + q * Length[l]
<1>1. PICK L \in Nat \ {0} : L = Length[l]
  BY AutoSwitchBounds
<1>2. PICK o \in Int : o = Offset[a]
  BY AutoSwitchBounds
<1>3. PICK x \in Int : x = r - o
  BY <1>2
<1>4. EndOf(a, l, r) = r - (x % L)
  BY <1>1, <1>2, <1>3 DEF EndOf
<1>5. (x \div L) \in Int /\ x = (x \div L) * L + (x % L) /\ x % L \in 0 .. L - 1
  BY Divided
<1>6. PICK q \in Int : x = q * L + (x % L)
  BY <1>5
<1>7. PICK m \in 0 .. L - 1 : m = x % L
  BY <1>5
<1>8. PICK y \in Int : y = q * L
  OBVIOUS
<1>9. r - m = o + y
  BY <1>3, <1>6, <1>7, <1>8
<1>10. EndOf(a, l, r) = o + q * L
  BY <1>4, <1>7, <1>8, <1>9
<1>11. r - m \in Int /\ r - m <= r /\ r < (r - m) + L
  BY <1>7
<1> QED BY <1>1, <1>2, <1>4, <1>7, <1>10, <1>11

\* Of two windows, one ends a whole length before the other.
LEMMA EndsApart ==
  ASSUME NEW a \in Accounts, NEW l \in Limits, NEW r \in Int, NEW s \in Int,
         EndOf(a, l, r) < EndOf(a, l, s)
  PROVE  EndOf(a, l, r) + Length[l] <= EndOf(a, l, s)
<1>1. PICK L \in Nat \ {0} : L = Length[l]
  BY AutoSwitchBounds
<1>2. PICK o \in Int : o = Offset[a]
  BY AutoSwitchBounds
<1>3. PICK q \in Int : EndOf(a, l, r) = o + q * L
  BY <1>1, <1>2, EndOfIs
<1>4. PICK p \in Int : EndOf(a, l, s) = o + p * L
  BY <1>1, <1>2, EndOfIs
<1>5. PICK x \in Int : x = q * L
  OBVIOUS
<1>6. PICK y \in Int : y = p * L
  OBVIOUS
<1>7. x < y
  BY <1>3, <1>4, <1>5, <1>6
<1>8. x + L <= y
  BY <1>5, <1>6, <1>7, Apart
<1> QED BY <1>1, <1>3, <1>4, <1>5, <1>6, <1>8

\* An end is where its window ends, though an answer gives it late.
LEMMA EndIsKnown ==
  ASSUME NEW a \in Accounts, NEW l \in Limits, NEW t \in Nat, NEW late \in 0 .. Jitter
  PROVE  /\ Ends(a, l, t) \in Int /\ Ends(a, l, t) > t /\ Ends(a, l, t) <= t + Length[l]
         /\ EndOf(a, l, Ends(a, l, t) + late) = Ends(a, l, t)
<1>1. PICK L \in Nat \ {0} : L = Length[l] /\ L > Jitter
  BY AutoSwitchBounds
<1>2. PICK o \in Int : o = Offset[a]
  BY AutoSwitchBounds
<1>3. PICK e \in Int : e = EndOf(a, l, t)
  BY EndOfIs
<1>4. e <= t /\ t < e + L
  BY <1>1, <1>3, EndOfIs
<1>5. Ends(a, l, t) = e + L
  BY <1>1, <1>3 DEF Ends
<1>6. PICK q \in Int : e = o + q * L
  BY <1>1, <1>2, <1>3, EndOfIs
<1>7. PICK p \in Int : p = q + 1
  OBVIOUS
<1>8. p * L = q * L + L
  BY <1>7
<1>9. PICK r \in Int : r = e + L + late
  BY AutoSwitchBounds
<1>10. PICK f \in Int : f = EndOf(a, l, r)
  BY EndOfIs
<1>11. f <= r /\ r < f + L
  BY <1>1, <1>10, EndOfIs
<1>12. PICK z \in Int : f = o + z * L
  BY <1>1, <1>2, <1>10, EndOfIs
<1>13. PICK x \in Int : x = p * L
  OBVIOUS
<1>14. PICK y \in Int : y = z * L
  OBVIOUS
<1>15. e + L = o + x /\ f = o + y
  BY <1>6, <1>8, <1>12, <1>13, <1>14
<1>16. ~(x < y)
  <2> SUFFICES ASSUME x < y PROVE FALSE
    OBVIOUS
  <2>1. x + L <= y
    BY <1>13, <1>14, Apart
  <2> QED BY <1>1, <1>9, <1>11, <1>15, <2>1, AutoSwitchBounds
<1>17. ~(y < x)
  <2> SUFFICES ASSUME y < x PROVE FALSE
    OBVIOUS
  <2>1. y + L <= x
    BY <1>13, <1>14, Apart
  <2> QED BY <1>1, <1>9, <1>11, <1>15, <2>1, AutoSwitchBounds
<1>18. f = e + L
  BY <1>15, <1>16, <1>17
<1> QED BY <1>1, <1>4, <1>5, <1>9, <1>10, <1>18, AutoSwitchBounds

\* What Legit says in numbers.
LEMMA LegitIs ==
  ASSUME NEW a \in Accounts, NEW l, NEW r, Legit(a, l, r)
  PROVE  /\ l \in Limits /\ r \in Nat /\ r > Start /\ r > Same /\ EndOf(a, l, r) \in Nat
         /\ EndOf(a, l, r) > 0 /\ EndOf(a, l, r) <= r /\ r <= EndOf(a, l, r) + Jitter
<1>1. l \in Limits /\ r \in Nat /\ r > Start /\ r <= EndOf(a, l, r) + Jitter
  BY DEF Legit, LimitsOf, Limits
<1>2. EndOf(a, l, r) \in Int /\ EndOf(a, l, r) <= r
  BY <1>1, EndOfIs
<1> QED BY <1>1, <1>2, AutoSwitchBounds

\* Two resets are one just where they are of one window.
LEMMA OneReset ==
  ASSUME NEW a \in Accounts, NEW l, NEW r, NEW s, Legit(a, l, r), Legit(a, l, s)
  PROVE  SameReset(r, s) <=> EndOf(a, l, r) = EndOf(a, l, s)
<1>1. PICK e \in Nat : e = EndOf(a, l, r)
  BY LegitIs
<1>2. PICK f \in Nat : f = EndOf(a, l, s)
  BY LegitIs
<1>3. r \in Nat /\ s \in Nat /\ e <= r /\ r <= e + Jitter /\ f <= s /\ s <= f + Jitter /\ l \in Limits
  BY <1>1, <1>2, LegitIs
<1>4. e = f => SameReset(r, s)
  BY <1>3, AutoSwitchBounds DEF SameReset
<1>5. e < f => ~SameReset(r, s)
  <2>1. e < f => e + Length[l] <= f
    BY <1>1, <1>2, <1>3, EndsApart
  <2> QED BY <1>3, <2>1, AutoSwitchBounds DEF SameReset
<1>6. f < e => ~SameReset(r, s)
  <2>1. f < e => f + Length[l] <= e
    BY <1>1, <1>2, <1>3, EndsApart
  <2> QED BY <1>3, <2>1, AutoSwitchBounds DEF SameReset
<1> QED BY <1>1, <1>2, <1>4, <1>5, <1>6

\* Nothing kept is not a window's.
LEMMA NoReset ==
  /\ SameReset(0, 0)
  /\ \A a \in Accounts : \A l, r : Legit(a, l, r) => ~SameReset(0, r) /\ ~SameReset(r, 0) /\ r # 0
  /\ \A t \in Nat : t >= Start => ~MayStillRun(0, t)
BY LegitIs, AutoSwitchBounds DEF SameReset, MayStillRun

-----------------------------------------------------------------------------
(* What is kept of a thing, as the ledger changes. *)

\* What a thing is made of.
LEMMA ThingIs ==
  ASSUME NEW x \in Things
  PROVE  /\ x[1] \in Accounts /\ x[2] \in Limits \cup {"early"} /\ x[3] \in Nat
         /\ Lim(x[2]) \in Limits /\ x = <<x[1], x[2], x[3]>>
         /\ x[3] = 0 <=> x[2] = "early" /\ x[1] \in Weekless
BY DEF Things, Lim, Limits

\* What a record is made of.
LEMMA RecIs ==
  ASSUME NEW k \in Ledgers, NEW x \in Things
  PROVE  /\ Rec(k, x) \in Tries /\ Rec(k, x).resets \in Nat /\ Rec(k, x).attempts \in Nat
         /\ Rec(k, x).at \in Nat /\ Rec(k, x).switched \in BOOLEAN /\ Rec(k, x).said \subseteq Reasons
<1>1. Rec(k, x) \in Tries
  BY ThingIs DEF Ledgers, Rec
<1> QED BY <1>1 DEF Tries

\* What is gone stays so.
LEMMA GoneStays ==
  ASSUME NEW x \in Things, NEW s \in Nat, NEW t \in Nat, s <= t, NEW rd, NEW le \in [Accounts -> Nat],
         Gone(x, s, rd, le)
  PROVE  Gone(x, t, rd, le)
<1>1. /\ x[1] \in Accounts /\ x[3] \in Nat /\ le[x[1]] \in Nat /\ Length["weekly"] \in Nat
      /\ Jitter \in Nat
  BY ThingIs, AutoSwitchBounds DEF Limits
<1> QED BY <1>1 DEF Gone

\* A kept record has an end unless its week has none.
LEMMA KeptEnds ==
  ASSUME NEW k \in Ledgers, NEW x \in Things, NEW le, NEW rd, Kept(k, x, le), Behind(k, rd)
  PROVE  /\ x[3] = 0 <=> Rec(k, x).resets = 0
         /\ x[3] # 0 => /\ Legit(x[1], Lim(x[2]), Rec(k, x).resets)
                        /\ EndOf(x[1], Lim(x[2]), Rec(k, x).resets) = x[3]
<1>1. x[1] \in Accounts
  BY ThingIs
<1>2. Rec(k, x).resets # 0 => EndOf(x[1], Lim(x[2]), Rec(k, x).resets) > 0
  BY <1>1, LegitIs DEF Behind
<1>3. EndOf(x[1], Lim(x[2]), Rec(k, x).resets) > 0 => EndOf(x[1], Lim(x[2]), Rec(k, x).resets) # 0
  OBVIOUS
<1> QED BY <1>1, <1>2, <1>3 DEF Behind, Kept, RecEnd

\* What k has of a thing, m has, unless the thing is gone.
Carries(k, m, x, t, rd, le) ==
  \/ Gone(x, t, rd, le)
  \/ Kept(k, x, le) =>
       /\ Kept(m, x, le)
       /\ Rec(k, x).switched => Rec(m, x).switched
       /\ Rec(k, x).said \subseteq Rec(m, x).said

\* And its attempts.
Counts(k, m, x, t, rd, le) ==
  Gone(x, t, rd, le) \/ (Kept(k, x, le) => Rec(k, x).attempts <= Rec(m, x).attempts)

\* Attempts stay counted in a ledger that carries what another has, and counts as many.
LEMMA TalliedOn ==
  ASSUME NEW k \in Ledgers, NEW m \in Ledgers, NEW s \in Nat, NEW t \in Nat, s <= t,
         NEW rd, NEW le \in [Accounts -> Nat], NEW b, IsBag(b),
         Tallied(k, s, rd, le, b),
         \A x \in Things : Carries(k, m, x, t, rd, le) /\ Counts(k, m, x, t, rd, le)
  PROVE  Tallied(m, t, rd, le, b)
<1> SUFFICES ASSUME NEW x \in Things
             PROVE  /\ Times(x, b) <= Attempts
                    /\ \/ Times(x, b) = 0 \/ Gone(x, t, rd, le)
                       \/ Kept(m, x, le) /\ Times(x, b) <= Rec(m, x).attempts
  BY DEF Tallied
<1>1. Gone(x, s, rd, le) => Gone(x, t, rd, le)
  BY GoneStays
<1>2. Rec(k, x).attempts \in Nat /\ Rec(m, x).attempts \in Nat
  BY RecIs
<1>3. Times(x, b) \in Nat
  BY DEF Times, IsBag
<1> QED BY <1>1, <1>2, <1>3 DEF Tallied, Carries, Counts

\* A switch stays kept in a ledger that carries what another has.
LEMMA SwitchedOn ==
  ASSUME NEW k \in Ledgers, NEW m \in Ledgers, NEW s \in Nat, NEW t \in Nat, s <= t,
         NEW rd, NEW le \in [Accounts -> Nat], NEW n, NEW u, NEW just,
         Switched(k, s, rd, le, n, u, just), \A x \in Things : Carries(k, m, x, t, rd, le)
  PROVE  Switched(m, t, rd, le, n, u, just)
<1>1. \A x \in Things : Gone(x, s, rd, le) => Gone(x, t, rd, le)
  BY GoneStays
<1> QED BY <1>1 DEF Switched, Carries

\* So does a reason given for a limit.
LEMMA SpokenOn ==
  ASSUME NEW k \in Ledgers, NEW m \in Ledgers, NEW s \in Nat, NEW t \in Nat, s <= t,
         NEW rd, NEW le \in [Accounts -> Nat], NEW log_,
         Spoken(k, s, rd, le, log_),
         \A x \in Things : x[2] # "early" => Carries(k, m, x, t, rd, le),
         \A e \in log_ : e[2] # "early"
  PROVE  Spoken(m, t, rd, le, log_)
<1> SUFFICES ASSUME NEW e \in log_, NEW x, x = <<e[1], e[2], e[3]>>
             PROVE  /\ x \in Things
                    /\ Gone(x, t, rd, le) \/ (Kept(m, x, le) /\ e[4] \in Rec(m, x).said)
  BY DEF Spoken
<1>1. x \in Things /\ x[2] # "early"
  BY DEF Spoken
<1>2. Gone(x, s, rd, le) => Gone(x, t, rd, le)
  BY <1>1, GoneStays
<1>3. Carries(k, m, x, t, rd, le)
  BY <1>1
<1>4. Gone(x, s, rd, le) \/ (Kept(k, x, le) /\ e[4] \in Rec(k, x).said)
  BY DEF Spoken
<1> QED BY <1>1, <1>2, <1>3, <1>4 DEF Carries

\* What reading or writing the ledger drops.
LEMMA DroppedIs ==
  ASSUME NEW k \in Ledgers, NEW t \in Nat
  PROVE  /\ Dropped(k, t) \in Ledgers
         /\ \A x \in Things :
              \/ Rec(Dropped(k, t), x) = Rec(k, x)
              \/ /\ Rec(Dropped(k, t), x) = New(0)
                 /\ ~MayStillRun(Rec(k, x).resets, t)
                 /\ Rec(k, x).resets = 0 => t - Rec(k, x).at >= Length["weekly"]
<1> DEFINE stays(tried) == \/ MayStillRun(tried.resets, t)
                           \/ tried.resets = 0 /\ t - tried.at < Length["weekly"]
           still(tried) == IF stays(tried) THEN tried ELSE New(0)
<1>1. New(0) \in Tries
  BY DEF New, Tries
<1>2. \A a \in Accounts : \A l \in Limits : k.limits[a][l] \in Tries /\ k.early[a] \in Tries
  BY DEF Ledgers
<1>3. PICK limits_, early_ :
          /\ limits_ = [a \in Accounts |-> [l \in Limits |-> still(k.limits[a][l])]]
          /\ early_ = [a \in Accounts |-> still(k.early[a])]
  OBVIOUS
<1>4. Dropped(k, t) = [k EXCEPT !.limits = limits_, !.early = early_]
  BY <1>3 DEF Dropped
<1>5. Dropped(k, t) = [limits |-> limits_, early |-> early_, asked |-> k.asked]
  BY <1>4 DEF Ledgers
<1>6. \A tried \in Tries : still(tried) \in Tries
  BY <1>1
<1>7. Dropped(k, t) \in Ledgers
  <2>1. Dropped(k, t).limits \in [Accounts -> [Limits -> Tries]]
    BY <1>2, <1>3, <1>6, <1>5
  <2>2. Dropped(k, t).early \in [Accounts -> Tries]
    BY <1>2, <1>3, <1>6, <1>5 DEF Limits
  <2>3. Dropped(k, t).asked \in [at : Nat, failures : Nat]
    BY <1>5 DEF Ledgers
  <2> QED BY <1>5, <2>1, <2>2, <2>3 DEF Ledgers
<1>8. ASSUME NEW x \in Things
      PROVE  Rec(Dropped(k, t), x) = still(Rec(k, x))
  <2>1. x[1] \in Accounts /\ x[2] \in Limits \cup {"early"}
    BY ThingIs
  <2> QED BY <1>3, <1>5, <2>1 DEF Rec
<1>9. ASSUME NEW x \in Things
      PROVE  t - Rec(k, x).at \in Int /\ Length["weekly"] \in Int
  BY RecIs, AutoSwitchBounds DEF Limits
<1> QED BY <1>7, <1>8, <1>9

\* What is dropped ended, as long ago as two resets are apart that are not one.
LEMMA DroppedEnded ==
  ASSUME NEW k \in Ledgers, NEW t \in Nat, t >= Start, NEW x \in Things, NEW le, NEW rd,
         Behind(k, rd), Kept(k, x, le), x[3] # 0, Rec(Dropped(k, t), x) # Rec(k, x)
  PROVE  x[3] + Same <= t
<1>1. ~MayStillRun(Rec(k, x).resets, t)
  BY DroppedIs
<1>2. Legit(x[1], Lim(x[2]), Rec(k, x).resets) /\ EndOf(x[1], Lim(x[2]), Rec(k, x).resets) = x[3]
  BY KeptEnds
<1>3. PICK r \in Nat : r = Rec(k, x).resets
  BY RecIs
<1>4. x[3] <= r /\ x[3] \in Nat
  BY <1>2, <1>3, LegitIs, ThingIs
<1>5. r + Same <= t
  BY <1>1, <1>3, AutoSwitchBounds DEF MayStillRun, SameReset
<1> QED BY <1>3, <1>4, <1>5, AutoSwitchBounds

\* What reading or writing drops is gone by then.
LEMMA DroppedCarries ==
  ASSUME NEW k \in Ledgers, NEW t \in Nat, t >= Start, NEW le \in [Accounts -> Nat], NEW rd,
         Behind(k, rd), NEW x \in Things
  PROVE  Carries(k, Dropped(k, t), x, t, rd, le) /\ Counts(k, Dropped(k, t), x, t, rd, le)
<1>1. CASE Rec(Dropped(k, t), x) = Rec(k, x)
  <2>1. Rec(k, x).attempts \in Nat
    BY RecIs
  <2> QED BY <1>1, <2>1 DEF Carries, Counts, Kept, RecEnd
<1>2. CASE Rec(Dropped(k, t), x) # Rec(k, x) /\ x[3] # 0
  <2> SUFFICES ASSUME Kept(k, x, le) PROVE Gone(x, t, rd, le)
    BY DEF Carries, Counts
  <2>1. x[3] + Same <= t
    BY <1>2, DroppedEnded
  <2> QED BY <1>2, <2>1, ThingIs, AutoSwitchBounds DEF Gone
<1>3. CASE Rec(Dropped(k, t), x) # Rec(k, x) /\ x[3] = 0
  <2> SUFFICES ASSUME Kept(k, x, le) PROVE Gone(x, t, rd, le)
    BY DEF Carries, Counts
  <2>1. Rec(k, x).resets = 0 /\ Rec(k, x).at = le[x[1]]
    BY <1>3, KeptEnds DEF Kept
  <2>2. t - Rec(k, x).at >= Length["weekly"]
    BY <1>3, <2>1, DroppedIs
  <2> QED BY <1>3, <2>1, <2>2 DEF Gone
<1> QED BY <1>1, <1>2, <1>3

\* What is left is of no later windows than before.
LEMMA DroppedBehind ==
  ASSUME NEW k \in Ledgers, NEW t \in Nat, NEW rd, Behind(k, rd)
  PROVE  Behind(Dropped(k, t), rd)
<1> SUFFICES ASSUME NEW x \in Things
             PROVE  \/ Rec(Dropped(k, t), x).resets = 0
                    \/ /\ Legit(x[1], Lim(x[2]), Rec(Dropped(k, t), x).resets)
                       /\ RecEnd(Dropped(k, t), x) <= Due(rd, x[1], Lim(x[2]))
  BY DEF Behind
<1>1. CASE Rec(Dropped(k, t), x) = Rec(k, x)
  BY <1>1 DEF Behind, RecEnd
<1>2. CASE Rec(Dropped(k, t), x) = New(0)
  BY <1>2 DEF New
<1> QED BY <1>1, <1>2, DroppedIs

\* m is k with one record written.
Writes(k, m, x, new) ==
  /\ m \in Ledgers
  /\ \A y \in Things : Rec(m, y) = IF y[1] = x[1] /\ y[2] = x[2] THEN new ELSE Rec(k, y)

\* A plan reads and writes the record of the thing it is for.
LEMMA TryingIs ==
  ASSUME NEW k \in Ledgers, NEW plan \in Plans, plan.from \in Accounts, plan.to \in Accounts,
         NEW x, x = Thing(plan), NEW tried \in Tries
  PROVE  /\ Writes(k, Trying(k, plan, tried), x, tried)
         /\ x \in Things => TriedFor(k, plan) = Of(Rec(k, x), plan.resets)
<1>1. plan.on \in Limits \cup {"early"} /\ "early" \notin Limits
  BY DEF Plans, Limits
<1>2. CASE plan.on = "early"
  <2>1. x[1] = plan.to /\ x[2] = "early"
    BY <1>2 DEF Thing
  <2>2. Trying(k, plan, tried) = [k EXCEPT !.early = [k.early EXCEPT ![plan.to] = tried]]
    BY <1>2 DEF Trying
  <2>3. Trying(k, plan, tried) \in Ledgers
    BY <2>2 DEF Ledgers
  <2>4. \A y \in Things : Rec(Trying(k, plan, tried), y) =
                             IF y[1] = x[1] /\ y[2] = x[2] THEN tried ELSE Rec(k, y)
    BY <2>1, <2>2, ThingIs DEF Rec, Ledgers
  <2>5. TriedFor(k, plan) = Of(Rec(k, x), plan.resets)
    BY <1>2, <2>1 DEF TriedFor, Rec
  <2> QED BY <2>3, <2>4, <2>5 DEF Writes
<1>3. CASE plan.on # "early"
  <2>1. x[1] = plan.from /\ x[2] = plan.on /\ plan.on \in Limits
    BY <1>1, <1>3 DEF Thing
  <2>2. Trying(k, plan, tried) =
          [k EXCEPT !.limits = [k.limits EXCEPT ![plan.from] = [k.limits[plan.from] EXCEPT ![plan.on] = tried]]]
    BY <1>3 DEF Trying
  <2>3. Trying(k, plan, tried) \in Ledgers
    <3>1. [k.limits EXCEPT ![plan.from] = [k.limits[plan.from] EXCEPT ![plan.on] = tried]]
            \in [Accounts -> [Limits -> Tries]]
      BY <2>1 DEF Ledgers
    <3> QED BY <2>2, <3>1 DEF Ledgers
  <2>4. ASSUME NEW y \in Things
        PROVE  Rec(Trying(k, plan, tried), y) =
                  IF y[1] = x[1] /\ y[2] = x[2] THEN tried ELSE Rec(k, y)
    <3>1. PICK limits_ :
            limits_ = [k.limits EXCEPT ![plan.from] = [k.limits[plan.from] EXCEPT ![plan.on] = tried]]
      OBVIOUS
    <3>2. Trying(k, plan, tried).limits = limits_ /\ Trying(k, plan, tried).early = k.early
      BY <2>2, <3>1 DEF Ledgers
    <3>3. y[1] \in Accounts /\ y[2] \in Limits \cup {"early"}
      BY ThingIs
    <3>4. y[2] # "early" =>
            limits_[y[1]][y[2]] =
               IF y[1] = plan.from /\ y[2] = plan.on THEN tried ELSE k.limits[y[1]][y[2]]
      BY <2>1, <3>1, <3>3 DEF Ledgers
    <3> QED BY <1>1, <2>1, <3>2, <3>3, <3>4 DEF Rec
  <2>5. TriedFor(k, plan) = Of(Rec(k, x), plan.resets)
    BY <1>1, <1>3, <2>1 DEF TriedFor, Rec
  <2> QED BY <2>3, <2>4, <2>5 DEF Writes
<1> QED BY <1>2, <1>3

\* A reason is kept in the record of its limit.
LEMMA SayIs ==
  ASSUME NEW k \in Ledgers, NEW a \in Accounts, NEW l \in Limits, NEW r \in Nat, NEW why \in Reasons,
         NEW x, x[1] = a, x[2] = l, NEW hold, hold = Hold(l, r, why)
  PROVE  /\ Rec(k, x) = k.limits[a][l]
         /\ Said(k, a, hold) <=> why \in Of(Rec(k, x), r).said
         /\ Writes(k, Say(k, a, hold), x, [Of(Rec(k, x), r) EXCEPT !.said = @ \cup {why}])
<1>1. hold.on = l /\ hold.resets = r /\ hold.why = why /\ l # "early"
  BY DEF Hold, Limits
<1>2. Rec(k, x) = k.limits[a][l]
  BY <1>1 DEF Rec
<1>3. PICK new : new = [Of(k.limits[a][l], r) EXCEPT !.said = Of(k.limits[a][l], r).said \cup {why}]
  OBVIOUS
<1>4. k.limits[a][l] \in Tries /\ New(r) \in Tries
  BY DEF Ledgers, New, Tries
<1>5. new \in Tries
  BY <1>3, <1>4 DEF Of, Tries
<1>6. PICK limits_ : limits_ = [k.limits EXCEPT ![a] = [k.limits[a] EXCEPT ![l] = new]]
  OBVIOUS
<1>7. Say(k, a, hold) = [k EXCEPT !.limits = limits_]
  <2>1. Say(k, a, hold) =
          [k EXCEPT !.limits = [k.limits EXCEPT ![a] = [k.limits[a] EXCEPT
             ![l] = [Of(k.limits[a][l], r) EXCEPT !.said = Of(k.limits[a][l], r).said \cup {why}]]]]
    BY <1>1 DEF Say
  <2> QED BY <1>3, <1>6, <2>1
<1>8. Say(k, a, hold) \in Ledgers
  <2>1. limits_ \in [Accounts -> [Limits -> Tries]]
    BY <1>5, <1>6 DEF Ledgers
  <2> QED BY <1>7, <2>1 DEF Ledgers
<1>9. ASSUME NEW y \in Things
      PROVE  Rec(Say(k, a, hold), y) = IF y[1] = a /\ y[2] = l THEN new ELSE Rec(k, y)
  <2>1. y[1] \in Accounts /\ y[2] \in Limits \cup {"early"}
    BY ThingIs
  <2>2. y[2] # "early" =>
          limits_[y[1]][y[2]] = IF y[1] = a /\ y[2] = l THEN new ELSE k.limits[y[1]][y[2]]
    BY <1>6, <2>1 DEF Ledgers
  <2>3. Say(k, a, hold).limits = limits_ /\ Say(k, a, hold).early = k.early
    BY <1>7 DEF Ledgers
  <2> QED BY <1>1, <2>1, <2>2, <2>3 DEF Rec
<1> QED BY <1>1, <1>2, <1>3, <1>8, <1>9 DEF Writes, Said

\* A limit at the share forgets the record of the move to its account before it.
LEMMA MetIs ==
  ASSUME NEW k \in Ledgers, NEW a \in Accounts, NEW e
  PROVE  Writes(k, Met(k, a), <<a, "early", e>>, New(0))
<1>1. New(0) \in Tries
  BY DEF New, Tries
<1>2. PICK early_ : early_ = [k.early EXCEPT ![a] = New(0)]
  OBVIOUS
<1>3. Met(k, a) = [k EXCEPT !.early = early_] /\ early_ \in [Accounts -> Tries]
  BY <1>1, <1>2 DEF Met, Ledgers
<1>4. Met(k, a) \in Ledgers
  BY <1>3 DEF Ledgers
<1>5. ASSUME NEW y \in Things
      PROVE  Rec(Met(k, a), y) = IF y[1] = a /\ y[2] = "early" THEN New(0) ELSE Rec(k, y)
  <2>1. y[1] \in Accounts
    BY ThingIs
  <2>2. Met(k, a).limits = k.limits /\ Met(k, a).early = early_
    BY <1>3 DEF Ledgers
  <2> QED BY <1>2, <2>1, <2>2 DEF Rec, Ledgers
<1> QED BY <1>4, <1>5 DEF Writes

\* What is kept of a thing under the reset an answer gives is its record, if that is its.
LEMMA OfKept ==
  ASSUME NEW k \in Ledgers, NEW x \in Things, NEW r \in Nat, NEW le, NEW rd, Behind(k, rd),
         \/ r = 0 /\ x[3] = 0
         \/ Legit(x[1], Lim(x[2]), r) /\ EndOf(x[1], Lim(x[2]), r) = x[3]
  PROVE  /\ RecEnd(k, x) = x[3] => Of(Rec(k, x), r) = Rec(k, x)
         /\ RecEnd(k, x) # x[3] => Of(Rec(k, x), r) = New(r)
         /\ Of(Rec(k, x), r) \in Tries
         /\ \/ Of(Rec(k, x), r).resets = 0 /\ x[3] = 0
            \/ /\ Legit(x[1], Lim(x[2]), Of(Rec(k, x), r).resets)
               /\ EndOf(x[1], Lim(x[2]), Of(Rec(k, x), r).resets) = x[3]
<1>1. x[1] \in Accounts /\ x[3] \in Nat /\ Rec(k, x) \in Tries /\ New(r) \in Tries /\ New(r).resets = r
  BY ThingIs, RecIs DEF New, Tries
<1>2. PICK q \in Nat : q = Rec(k, x).resets
  BY RecIs
<1>3. q # 0 => Legit(x[1], Lim(x[2]), q) /\ EndOf(x[1], Lim(x[2]), q) # 0 /\ ~SameReset(q, 0)
  BY <1>1, <1>2, LegitIs, NoReset DEF Behind
<1>4. r # 0 => x[3] # 0 /\ ~SameReset(0, r)
  BY <1>1, LegitIs, NoReset
<1>5. SameReset(q, r) <=> RecEnd(k, x) = x[3]
  <2>1. CASE q # 0 /\ r # 0
    BY <1>1, <1>2, <1>3, <2>1, OneReset DEF RecEnd
  <2>2. CASE q = 0 \/ r = 0
    BY <1>1, <1>2, <1>3, <1>4, <2>2, NoReset DEF RecEnd
  <2> QED BY <2>1, <2>2
<1>6. Of(Rec(k, x), r) = IF RecEnd(k, x) = x[3] THEN Rec(k, x) ELSE New(r)
  BY <1>2, <1>5 DEF Of
<1>7. CASE RecEnd(k, x) = x[3]
  BY <1>1, <1>2, <1>3, <1>6, <1>7 DEF RecEnd
<1>8. CASE RecEnd(k, x) # x[3]
  BY <1>1, <1>6, <1>8
<1> QED BY <1>7, <1>8

\* Whatever is written of one thing, nothing else's record is lost that is not gone.
LEMMA WritesCarry ==
  ASSUME NEW k \in Ledgers, NEW m, NEW x \in Things, NEW new, Writes(k, m, x, new),
         NEW le, NEW rd, Behind(k, rd), NEW t,
         \/ x[3] = 0 \/ x[3] = Due(rd, x[1], Lim(x[2])) \/ Rec(k, x).resets = 0 \/ Kept(k, x, le),
         NEW y \in Things, y # x
  PROVE  Carries(k, m, y, t, rd, le) /\ Counts(k, m, y, t, rd, le)
<1>1. CASE ~(y[1] = x[1] /\ y[2] = x[2])
  <2>1. Rec(m, y) = Rec(k, y) /\ Rec(k, y).attempts \in Nat
    BY <1>1, RecIs DEF Writes
  <2> QED BY <2>1 DEF Carries, Counts, Kept, RecEnd
<1>2. CASE y[1] = x[1] /\ y[2] = x[2]
  <2> SUFFICES ASSUME Kept(k, y, le) PROVE Gone(y, t, rd, le)
    BY DEF Carries, Counts
  <2>1. y[3] # x[3] /\ (x[3] = 0 <=> y[3] = 0)
    BY <1>2, ThingIs
  <2>2. x[3] # 0 /\ y[3] # 0
    BY <2>1
  <2>3. RecEnd(k, y) = y[3] /\ RecEnd(k, y) = RecEnd(k, x) /\ Rec(k, y).resets # 0 /\ Rec(k, x) = Rec(k, y)
    BY <1>2, <2>2 DEF Kept, RecEnd, Rec
  <2>4. ~Kept(k, x, le)
    BY <2>1, <2>3 DEF Kept
  <2>5. x[3] = Due(rd, y[1], Lim(y[2])) /\ y[3] <= x[3]
    BY <1>2, <2>2, <2>3, <2>4 DEF Behind
  <2>6. y[3] \in Nat /\ x[3] \in Nat
    BY ThingIs
  <2> QED BY <2>1, <2>2, <2>5, <2>6 DEF Gone
<1> QED BY <1>1, <1>2

\* What is written of a thing stays behind the answers.
LEMMA WritesBehind ==
  ASSUME NEW k \in Ledgers, NEW m, NEW x \in Things, NEW new, Writes(k, m, x, new),
         NEW rd, Behind(k, rd),
         \/ new.resets = 0
         \/ /\ Legit(x[1], Lim(x[2]), new.resets)
            /\ EndOf(x[1], Lim(x[2]), new.resets) <= Due(rd, x[1], Lim(x[2]))
  PROVE  Behind(m, rd)
<1> SUFFICES ASSUME NEW y \in Things
             PROVE  \/ Rec(m, y).resets = 0
                    \/ /\ Legit(y[1], Lim(y[2]), Rec(m, y).resets)
                       /\ RecEnd(m, y) <= Due(rd, y[1], Lim(y[2]))
  BY DEF Behind
<1>1. CASE y[1] = x[1] /\ y[2] = x[2]
  <2>1. Rec(m, y) = new
    BY <1>1 DEF Writes
  <2> QED BY <1>1, <2>1 DEF RecEnd
<1>2. CASE ~(y[1] = x[1] /\ y[2] = x[2])
  <2>1. Rec(m, y) = Rec(k, y)
    BY <1>2 DEF Writes
  <2> QED BY <2>1 DEF Behind, RecEnd
<1> QED BY <1>1, <1>2

-----------------------------------------------------------------------------
(* What a decision comes to. *)

\* A reset of the window the last answer is about, which may still run.
Current(a, l, r, t) ==
  Legit(a, l, r) /\ EndOf(a, l, r) = Due(readings, a, l) /\ t < Due(readings, a, l) + Jitter

\* A plan is for the window its answer is about, or for a week that never ends.
Decided(plan, t) ==
  LET x == Thing(plan)
  IN  /\ plan \in Plans /\ plan.from \in Accounts /\ plan.to \in Accounts /\ x \in Things
      /\ x[2] # "early" => x[1] = plan.from
      /\ \/ plan.resets = 0 /\ x[3] = 0 /\ x[2] = "early" /\ x[1] = plan.to
         \/ /\ Current(x[1], Lim(x[2]), plan.resets, t)
            /\ EndOf(x[1], Lim(x[2]), plan.resets) = x[3]

\* What an answer says of a window.
LEMMA WindowIs ==
  ASSUME NEW a \in Accounts, NEW l \in Limits, NEW t \in Nat, Answering(readings, now)
  PROVE  /\ Window(a, l).resets \in Nat /\ Window(a, l).used \in Nat
         /\ Due(readings, a, l) = EndOf(a, l, Window(a, l).resets) /\ Due(readings, a, l) \in Int
         /\ Window(a, l).resets > t =>
              Current(a, l, Window(a, l).resets, t) /\ <<a, l, Due(readings, a, l)>> \in Things
<1>1. PICK r \in Nat : r = Window(a, l).resets
  BY DEF Answering, Window
<1>2. Window(a, l).used \in Nat
  BY DEF Answering, Window
<1>3. Due(readings, a, l) = EndOf(a, l, r) /\ EndOf(a, l, r) \in Int
  BY <1>1, EndOfIs DEF Due, Window
<1>4. ASSUME r > t PROVE Current(a, l, r, t) /\ <<a, l, Due(readings, a, l)>> \in Things
  <2>1. Legit(a, l, r)
    BY <1>1, <1>4 DEF Answering, Window
  <2>2. EndOf(a, l, r) \in Nat /\ EndOf(a, l, r) > 0 /\ r <= EndOf(a, l, r) + Jitter
    BY <2>1, LegitIs
  <2>3. Current(a, l, r, t)
    BY <1>3, <1>4, <2>1, <2>2, AutoSwitchBounds DEF Current
  <2>4. l \in LimitsOf(a)
    BY <2>1 DEF Legit
  <2>5. l # "early"
    BY DEF Limits
  <2> QED BY <1>3, <2>2, <2>3, <2>4, <2>5 DEF Things
<1> QED BY <1>1, <1>2, <1>3, <1>4

\* What is kept of the window an answer is about.
LEMMA TriedIs ==
  ASSUME NEW a \in Accounts, NEW l \in Limits, NEW t \in Nat, Answering(readings, now),
         NEW k \in Ledgers, Behind(k, readings), Window(a, l).resets > t
  PROVE  /\ Current(a, l, Tried(k, a, l).resets, t) /\ Tried(k, a, l).resets \in Nat
         /\ Open(Tried(k, a, l)) => Open(Of(k.limits[a][l], Tried(k, a, l).resets))
<1>1. PICK x : x = <<a, l, Due(readings, a, l)>>
  OBVIOUS
<1>2. PICK r \in Nat : r = Window(a, l).resets
  BY WindowIs
<1>3. Current(a, l, r, t) /\ x \in Things
  BY <1>1, <1>2, WindowIs
<1>4. l # "early" /\ Lim(x[2]) = l /\ x[1] = a /\ x[2] = l /\ x[3] = Due(readings, a, l)
  BY <1>1 DEF Limits, Lim
<1>5. x[3] # 0
  BY <1>3, <1>4, ThingIs
<1>6. Rec(k, x) = k.limits[a][l]
  BY <1>4 DEF Rec
<1>7. PICK tried : tried = Tried(k, a, l)
  OBVIOUS
<1>8. tried = Of(Rec(k, x), r)
  BY <1>2, <1>6, <1>7 DEF Tried
<1>9. \/ r = 0 /\ x[3] = 0
      \/ Legit(x[1], Lim(x[2]), r) /\ EndOf(x[1], Lim(x[2]), r) = x[3]
  BY <1>3, <1>4 DEF Current
<1>10. /\ RecEnd(k, x) = x[3] => tried = Rec(k, x)
       /\ RecEnd(k, x) # x[3] => tried = New(r)
       /\ tried \in Tries
       /\ Legit(a, l, tried.resets) /\ EndOf(a, l, tried.resets) = x[3]
  BY <1>3, <1>4, <1>5, <1>8, <1>9, OfKept
<1>11. Current(a, l, tried.resets, t)
  BY <1>3, <1>4, <1>10 DEF Current
<1>12. PICK q \in Nat : q = tried.resets
  BY <1>10 DEF Tries
<1>13. /\ RecEnd(k, x) = x[3] => Of(Rec(k, x), q) = Rec(k, x)
       /\ RecEnd(k, x) # x[3] => Of(Rec(k, x), q) = New(q)
  BY <1>3, <1>4, <1>10, <1>12, OfKept
<1>14. Open(tried) => Open(Of(Rec(k, x), q))
  BY <1>10, <1>13 DEF Open, New
<1> QED BY <1>6, <1>7, <1>11, <1>12, <1>14

\* A limit at the share is of a window that may still run.
LEMMA AtShareIs ==
  ASSUME NEW a \in Accounts, NEW t \in Nat, Answering(readings, now), NEW l \in AtShare(a, t)
  PROVE  l \in Limits /\ Window(a, l).resets > t
<1>1. l \in Limits /\ Used(Window(a, l), t) >= Share
  BY DEF AtShare, LimitsOf, Limits
<1>2. Window(a, l).resets \in Nat
  BY <1>1, WindowIs
<1> QED BY <1>1, <1>2, AutoSwitchBounds DEF Used

\* What a decision may come to.
Says(d, k, cur, t) ==
  \/ d = Stay
  \/ \E l \in Limits, r \in Nat, why \in Reasons : d = Hold(l, r, why) /\ Current(cur, l, r, t)
  \/ \E plan : /\ d = Move(plan) /\ plan.from = cur /\ plan.to \in parked \ {cur}
               /\ Decided(plan, t) /\ Open(TriedFor(k, plan))

\* Away from a limit at the share.
LEMMA LeavingSays ==
  ASSUME NEW cur \in Accounts, NEW t \in Nat, Answering(readings, now), NEW k \in Ledgers,
         Behind(k, readings), parked \subseteq Accounts, NEW policy, NEW used,
         NEW l \in AtShare(cur, t), Open(Tried(k, cur, l)), NEW d \in Leaving(k, cur, l, policy, used, t)
  PROVE  Says(d, k, cur, t)
<1>1. l \in Limits /\ Window(cur, l).resets > t
  BY AtShareIs
<1>2. PICK r : r = Tried(k, cur, l).resets
  OBVIOUS
<1>3. Current(cur, l, r, t) /\ r \in Nat /\ Open(Of(k.limits[cur][l], r))
  BY <1>1, <1>2, TriedIs
<1>4. PICK passed : passed = UNION {Tried(k, cur, m).passed : m \in LimitsOf(cur)}
  OBVIOUS
<1>5. PICK best : best = Preferred(policy.order, Goes(cur, t) \ passed, {l}, t)
  OBVIOUS
<1>6. best \subseteq parked \ {cur}
  BY <1>5 DEF Preferred, Goes
<1>7. \/ d = Stay
      \/ \E why \in {"settling", "no_room", "auth_overridden"} : d = Hold(l, r, why)
      \/ \E to \in best : d = Move([from |-> cur, to |-> to, on |-> l, resets |-> r])
  BY <1>2, <1>4, <1>5, Zenon DEF Leaving
<1>8. CASE \E why \in {"settling", "no_room", "auth_overridden"} : d = Hold(l, r, why)
  BY <1>1, <1>3, <1>8 DEF Says, Reasons
<1>9. ASSUME NEW to \in best, NEW plan, plan = [from |-> cur, to |-> to, on |-> l, resets |-> r]
      PROVE  Decided(plan, t) /\ Open(TriedFor(k, plan)) /\ plan.from = cur /\ plan.to \in parked \ {cur}
  <2>1. l # "early" /\ Lim(l) = l
    BY <1>1 DEF Limits, Lim
  <2>2. plan \in Plans /\ plan.from = cur /\ plan.to = to /\ plan.on = l /\ plan.resets = r
    BY <1>1, <1>3, <1>6, <1>9 DEF Plans
  <2>3. Thing(plan) = <<cur, l, EndOf(cur, l, r)>>
    BY <2>1, <2>2 DEF Thing
  <2>4. Thing(plan) \in Things
    BY <1>1, <1>3, <2>3, WindowIs DEF Current
  <2>5. Decided(plan, t)
    BY <1>3, <1>6, <2>1, <2>2, <2>3, <2>4 DEF Decided
  <2>6. Open(TriedFor(k, plan))
    BY <1>3, <2>1, <2>2 DEF TriedFor
  <2> QED BY <1>6, <2>2, <2>5, <2>6
<1> QED BY <1>7, <1>8, <1>9 DEF Says

\* Before the share.
LEMMA EarlySays ==
  ASSUME NEW cur \in Accounts, NEW t \in Nat, Answering(readings, now), NEW k \in Ledgers,
         Behind(k, readings), parked \subseteq Accounts, NEW policy, NEW used,
         NEW d \in Early(k, cur, policy, used, t)
  PROVE  Says(d, k, cur, t)
<1>1. PICK first : first = {a \in Goes(cur, t) :
                  /\ t - readings[a].at <= Fresh
                  /\ ComesBefore(Week(a, t), Week(cur, t))
                  /\ Used(Window(a, "session"), t) <= Used(Window(cur, "session"), t)
                  /\ OpenEarly(k, a, t)}
  OBVIOUS
<1>2. PICK best : best = Preferred("resets-soonest", first, {}, t)
  OBVIOUS
<1>3. \A to \in best : to \in parked \ {cur} /\ OpenEarly(k, to, t) /\ ComesBefore(Week(to, t), Week(cur, t))
  BY <1>1, <1>2 DEF Preferred, Goes
<1>4. \/ d = Stay
      \/ \E to \in best : d = Move([from |-> cur, to |-> to, on |-> "early", resets |-> Week(to, t).at])
  BY <1>1, <1>2, Zenon DEF Early
<1>5. ASSUME NEW to \in best,
             NEW plan, plan = [from |-> cur, to |-> to, on |-> "early", resets |-> Week(to, t).at]
      PROVE  Decided(plan, t) /\ Open(TriedFor(k, plan)) /\ plan.from = cur /\ plan.to \in parked \ {cur}
  <2>1. to \in parked \ {cur} /\ to \in Accounts /\ OpenEarly(k, to, t) /\ ComesBefore(Week(to, t), Week(cur, t))
    BY <1>3
  <2>2. plan.from = cur /\ plan.to = to /\ plan.on = "early" /\ plan.resets = Week(to, t).at
    BY <1>5
  <2>3. Open(TriedFor(k, plan))
    BY <2>1, <2>2 DEF TriedFor, OpenEarly
  <2>4. Lim("early") = "weekly" /\ "weekly" \in Limits
    BY DEF Lim, Limits
  <2>5. CASE to \in Weekless
    <3>1. Week(to, t).at = 0
      BY <2>5 DEF Week
    <3>2. plan \in Plans
      BY <1>5, <2>1, <3>1 DEF Plans
    <3>3. Thing(plan) = <<to, "early", 0>>
      BY <2>2, <3>1 DEF Thing
    <3>4. Thing(plan) \in Things
      BY <2>1, <2>5, <3>3 DEF Things
    <3>5. Decided(plan, t)
      BY <2>1, <2>2, <3>1, <3>2, <3>3, <3>4 DEF Decided
    <3> QED BY <2>1, <2>2, <2>3, <3>5
  <2>6. CASE to \notin Weekless
    <3>1. PICK r \in Nat : r = Window(to, "weekly").resets
      BY <2>1, <2>4, WindowIs
    <3>2. r > t /\ Week(to, t).at = r
      BY <2>1, <2>6, <3>1 DEF Week, ComesBefore
    <3>3. Current(to, "weekly", r, t) /\ <<to, "weekly", Due(readings, to, "weekly")>> \in Things
      BY <2>1, <2>4, <3>1, <3>2, WindowIs
    <3>4. plan \in Plans
      BY <1>5, <2>1, <3>2 DEF Plans
    <3>5. r # 0
      BY <3>2
    <3>6. Thing(plan) = <<to, "early", EndOf(to, "weekly", r)>> /\ EndOf(to, "weekly", r) = Due(readings, to, "weekly")
      BY <2>2, <3>2, <3>3, <3>5 DEF Thing, Current
    <3>7. EndOf(to, "weekly", r) \in Nat /\ EndOf(to, "weekly", r) > 0
      BY <2>1, <3>3, LegitIs DEF Current
    <3>8. Thing(plan) \in Things
      BY <2>1, <2>6, <3>6, <3>7 DEF Things
    <3>9. Decided(plan, t)
      BY <2>1, <2>2, <2>4, <3>2, <3>3, <3>4, <3>6, <3>8 DEF Decided
    <3> QED BY <2>1, <2>2, <2>3, <3>9
  <2> QED BY <2>5, <2>6
<1> QED BY <1>4, <1>5 DEF Says

\* A decision is about windows that may still run, and moves only for a thing left to try.
LEMMA JudgedSays ==
  ASSUME NEW cur \in Accounts, NEW t \in Nat, Answering(readings, now), NEW k \in Ledgers,
         Behind(k, readings), parked \subseteq Accounts, NEW policy, NEW used,
         NEW d \in Judged(k, cur, policy, used, t)
  PROVE  Says(d, k, cur, t)
<1>1. PICK reached : reached = AtShare(cur, t)
  OBVIOUS
<1>2. PICK open : open = {l \in reached : Open(Tried(k, cur, l))}
  OBVIOUS
<1>3. \A ls, l : l \in Furthest(cur, ls, t) => l \in ls
  BY DEF Furthest
<1>4. \/ d = Stay
      \/ d \in Early(k, cur, policy, used, t)
      \/ \E l \in Furthest(cur, reached, t) :
           \E why \in {"already_switched", "attempts_spent"} : d = Hold(l, Tried(k, cur, l).resets, why)
      \/ \E l \in Furthest(cur, open, t) : d \in Leaving(k, cur, l, policy, used, t)
  BY <1>1, <1>2, Zenon DEF Judged
<1>5. ASSUME NEW l \in Furthest(cur, reached, t), NEW why \in {"already_switched", "attempts_spent"},
             d = Hold(l, Tried(k, cur, l).resets, why)
      PROVE  Says(d, k, cur, t)
  <2>1. l \in Limits /\ Window(cur, l).resets > t
    BY <1>1, <1>3, AtShareIs
  <2>2. Current(cur, l, Tried(k, cur, l).resets, t) /\ Tried(k, cur, l).resets \in Nat
    BY <2>1, TriedIs
  <2> QED BY <1>5, <2>1, <2>2 DEF Says, Reasons
<1>6. ASSUME NEW l \in Furthest(cur, open, t), d \in Leaving(k, cur, l, policy, used, t)
      PROVE  Says(d, k, cur, t)
  BY <1>1, <1>2, <1>3, <1>6, LeavingSays
<1> QED BY <1>4, <1>5, <1>6, EarlySays DEF Says

-----------------------------------------------------------------------------
(* What is counted. *)

\* Only things are counted.
LEMMA TimesIs ==
  ASSUME NEW b, IsBag(b), NEW x
  PROVE  Times(x, b) \in Nat /\ (x \notin Things => Times(x, b) = 0)
BY DEF Times, IsBag

\* At first nothing is.
LEMMA NothingCounted == IsBag(EmptyBag) /\ \A x : Times(x, EmptyBag) = 0
BY DEF IsBag, Times, EmptyBag, SetToBag

\* One more of a thing.
LEMMA OneMore ==
  ASSUME NEW b, IsBag(b), NEW x \in Things
  PROVE  /\ IsBag(BagAdd(b, x))
         /\ \A y \in Things : Times(y, BagAdd(b, x)) = IF y = x THEN Times(x, b) + 1 ELSE Times(y, b)
<1>1. CASE x \in DOMAIN b
  <2>1. BagAdd(b, x) = [e \in DOMAIN b |-> IF e = x THEN b[e] + 1 ELSE b[e]]
    BY <1>1 DEF BagAdd
  <2>2. \A e \in DOMAIN b : b[e] \in Nat \ {0} /\ b[e] + 1 \in Nat \ {0}
    BY DEF IsBag
  <2> QED BY <1>1, <2>1, <2>2 DEF IsBag, Times
<1>2. CASE x \notin DOMAIN b
  <2>1. BagAdd(b, x) = [e \in DOMAIN b \cup {x} |-> IF e = x THEN 1 ELSE b[e]]
    BY <1>2 DEF BagAdd
  <2>2. \A e \in DOMAIN b : b[e] \in Nat \ {0}
    BY DEF IsBag
  <2> QED BY <1>2, <2>1, <2>2 DEF IsBag, Times
<1> QED BY <1>1, <1>2

\* One fewer.
LEMMA OneFewer ==
  ASSUME NEW b, IsBag(b), NEW x \in Things
  PROVE  /\ IsBag(BagRemove(b, x))
         /\ \A y \in Things : Times(y, BagRemove(b, x)) =
              IF y = x /\ Times(x, b) > 0 THEN Times(x, b) - 1 ELSE Times(y, b)
<1>1. CASE x \in DOMAIN b /\ b[x] = 1
  <2>1. BagRemove(b, x) = [e \in DOMAIN b \ {x} |-> b[e]]
    BY <1>1 DEF BagRemove
  <2>2. \A e \in DOMAIN b : b[e] \in Nat \ {0}
    BY DEF IsBag
  <2> QED BY <1>1, <2>1, <2>2 DEF IsBag, Times
<1>2. CASE x \in DOMAIN b /\ b[x] # 1
  <2>1. BagRemove(b, x) = [e \in DOMAIN b |-> IF e = x THEN b[e] - 1 ELSE b[e]]
    BY <1>2 DEF BagRemove
  <2>2. \A e \in DOMAIN b : b[e] \in Nat \ {0}
    BY DEF IsBag
  <2>3. b[x] - 1 \in Nat \ {0} /\ b[x] > 0
    BY <1>2, <2>2
  <2>4. IsBag(BagRemove(b, x))
    BY <2>1, <2>2, <2>3 DEF IsBag
  <2>5. \A y \in Things : Times(y, BagRemove(b, x)) =
              IF y = x /\ Times(x, b) > 0 THEN Times(x, b) - 1 ELSE Times(y, b)
    BY <1>2, <2>1, <2>2, <2>3 DEF Times
  <2> QED BY <2>4, <2>5
<1>3. CASE x \notin DOMAIN b
  BY <1>3 DEF BagRemove, Times
<1> QED BY <1>1, <1>2, <1>3

\* What is forgotten of accounts is the moves to them before the share.
LEMMA Forgotten ==
  ASSUME NEW b, IsBag(b), NEW as
  PROVE  /\ IsBag(Without(b, as))
         /\ \A y \in Things : Times(y, Without(b, as)) =
              IF y[1] \in as /\ y[2] = "early" THEN 0 ELSE Times(y, b)
<1>1. Without(b, as) = [x \in {y \in DOMAIN b : y[1] \notin as \/ y[2] # "early"} |-> b[x]]
  BY DEF Without
<1> QED BY <1>1 DEF IsBag, Times

-----------------------------------------------------------------------------
(* As time passes and answers come. *)

\* An answer gives the windows running when it comes.
LEMMA AnswerIs ==
  ASSUME NEW a \in Accounts, NEW t \in Nat, t >= Start, NEW lates, lates \subseteq 0 .. Jitter,
         NEW answer \in AnswersOf(a, t, lates)
  PROVE  /\ answer \in [at : Nat, windows : [Limits -> [used : Nat, resets : Nat]]]
         /\ \A l \in Limits :
              IF l \in LimitsOf(a)
              THEN /\ Legit(a, l, answer.windows[l].resets)
                   /\ EndOf(a, l, answer.windows[l].resets) = Ends(a, l, t)
              ELSE answer.windows[l].used = 0 /\ answer.windows[l].resets = 0
<1> DEFINE reset(l, late) == IF l \in LimitsOf(a) THEN Ends(a, l, t) + late ELSE 0
           used(l, share) == IF l \in LimitsOf(a) THEN share[l] ELSE 0
<1>1. PICK share \in [LimitsOf(a) -> Percents], late \in lates :
        answer = [at |-> t, windows |-> [l \in Limits |-> [used |-> used(l, share), resets |-> reset(l, late)]]]
  BY DEF AnswersOf
<1>2. late \in 0 .. Jitter /\ late \in Nat
  BY AutoSwitchBounds
<1>3. ASSUME NEW l \in Limits
      PROVE  /\ used(l, share) \in Nat /\ reset(l, late) \in Nat
             /\ l \in LimitsOf(a) =>
                  Legit(a, l, reset(l, late)) /\ EndOf(a, l, reset(l, late)) = Ends(a, l, t)
  <2>1. used(l, share) \in Nat
    BY AutoSwitchBounds
  <2>2. /\ Ends(a, l, t) \in Int /\ Ends(a, l, t) > t
        /\ EndOf(a, l, Ends(a, l, t) + late) = Ends(a, l, t)
    BY <1>2, EndIsKnown
  <2>3. PICK e \in Int : e = Ends(a, l, t)
    BY <2>2
  <2>4. e + late \in Nat /\ e + late > Start /\ e + late <= e + Jitter
    BY <1>2, <2>2, <2>3, AutoSwitchBounds
  <2>5. l \in LimitsOf(a) => Legit(a, l, e + late)
    BY <2>2, <2>3, <2>4 DEF Legit
  <2> QED BY <2>1, <2>2, <2>3, <2>4, <2>5
<1>4. \A l \in Limits : answer.windows[l].used = used(l, share) /\ answer.windows[l].resets = reset(l, late)
  BY <1>1
<1>5. answer \in [at : Nat, windows : [Limits -> [used : Nat, resets : Nat]]]
  BY <1>1, <1>3
<1>6. ASSUME NEW l \in Limits
      PROVE  IF l \in LimitsOf(a)
             THEN /\ Legit(a, l, answer.windows[l].resets)
                  /\ EndOf(a, l, answer.windows[l].resets) = Ends(a, l, t)
             ELSE answer.windows[l].used = 0 /\ answer.windows[l].resets = 0
  BY <1>3, <1>4
<1> QED BY <1>5, <1>6

\* Answers are about later and later windows.
LEMMA AnsweredLater ==
  ASSUME NEW a \in Accounts, NEW t \in Nat, t >= Start, Answering(readings, t),
         NEW answer \in AnswersOf(a, t, 0 .. Jitter), NEW rd, rd = [readings EXCEPT ![a] = answer]
  PROVE  /\ Answering(rd, t)
         /\ \A b \in Accounts, l \in Limits :
              /\ Due(readings, b, l) \in Int /\ Due(rd, b, l) \in Int
              /\ Due(readings, b, l) <= Due(rd, b, l)
<1>1. /\ answer \in [at : Nat, windows : [Limits -> [used : Nat, resets : Nat]]]
      /\ \A l \in Limits :
           IF l \in LimitsOf(a)
           THEN /\ Legit(a, l, answer.windows[l].resets)
                /\ EndOf(a, l, answer.windows[l].resets) = Ends(a, l, t)
           ELSE answer.windows[l].used = 0 /\ answer.windows[l].resets = 0
  BY AnswerIs
<1>2. rd \in [Accounts -> [at : Nat, windows : [Limits -> [used : Nat, resets : Nat]]]]
  BY <1>1 DEF Answering
<1>3. \A b \in Accounts : b # a => rd[b] = readings[b]
  BY DEF Answering
<1>4. rd[a] = answer
  BY DEF Answering
<1>5. ASSUME NEW b \in Accounts, NEW l \in Limits
      PROVE  Due(readings, b, l) \in Int /\ Due(rd, b, l) \in Int
  <2>1. rd[b].windows[l].resets \in Nat /\ readings[b].windows[l].resets \in Nat
    BY <1>2 DEF Answering
  <2>2. PICK r \in Int, q \in Int : r = rd[b].windows[l].resets /\ q = readings[b].windows[l].resets
    BY <2>1
  <2>3. EndOf(b, l, r) \in Int /\ EndOf(b, l, q) \in Int
    BY EndOfIs
  <2> QED BY <2>2, <2>3 DEF Due
<1>6. ASSUME NEW l \in Limits
      PROVE  /\ Due(readings, a, l) <= Due(rd, a, l)
             /\ \/ rd[a].windows[l].used = 0 /\ rd[a].windows[l].resets = 0
                \/ Legit(a, l, rd[a].windows[l].resets) /\ Due(rd, a, l) <= t + Length[l]
  <2>1. CASE l \notin LimitsOf(a)
    <3>1. rd[a].windows[l].used = 0 /\ rd[a].windows[l].resets = 0
      BY <1>1, <1>4, <2>1
    <3>2. readings[a].windows[l].resets = 0
      BY <2>1 DEF Answering, Legit
    <3>3. Due(readings, a, l) = Due(rd, a, l)
      BY <3>1, <3>2 DEF Due
    <3> QED BY <1>5, <3>1, <3>3
  <2>2. CASE l \in LimitsOf(a)
    <3>1. Legit(a, l, rd[a].windows[l].resets) /\ Due(rd, a, l) = Ends(a, l, t)
      BY <1>1, <1>4, <2>2 DEF Due
    <3>2. Ends(a, l, t) \in Int /\ Ends(a, l, t) > t /\ Ends(a, l, t) <= t + Length[l]
      <4>1. 0 \in 0 .. Jitter
        BY AutoSwitchBounds
      <4> QED BY <4>1, EndIsKnown
    <3>3. Due(readings, a, l) <= Due(rd, a, l)
      <4>1. CASE readings[a].windows[l].resets = 0
        <5>1. Due(readings, a, l) <= 0
          BY <4>1, EndOfIs DEF Due
        <5> QED BY <1>5, <3>1, <3>2, <5>1
      <4>2. CASE readings[a].windows[l].resets # 0
        <5>1. Due(readings, a, l) <= t + Length[l]
          BY <4>2 DEF Answering
        <5>2. readings[a].windows[l].resets \in Int /\ rd[a].windows[l].resets \in Int
          BY <1>2 DEF Answering
        <5>3. Due(rd, a, l) < Due(readings, a, l) => Due(rd, a, l) + Length[l] <= Due(readings, a, l)
          BY <5>2, EndsApart DEF Due
        <5> QED BY <1>5, <3>1, <3>2, <5>1, <5>3, AutoSwitchBounds
      <4> QED BY <4>1, <4>2
    <3> QED BY <3>1, <3>2, <3>3
  <2> QED BY <2>1, <2>2
<1>7. ASSUME NEW b \in Accounts, NEW l \in Limits
      PROVE  /\ Due(readings, b, l) <= Due(rd, b, l)
             /\ \/ rd[b].windows[l].used = 0 /\ rd[b].windows[l].resets = 0
                \/ Legit(b, l, rd[b].windows[l].resets) /\ Due(rd, b, l) <= t + Length[l]
  <2>1. CASE b = a
    BY <1>6, <2>1
  <2>2. CASE b # a
    <3>1. Due(rd, b, l) = Due(readings, b, l) /\ rd[b] = readings[b]
      BY <1>3, <2>2 DEF Due
    <3> QED BY <1>5, <3>1 DEF Answering
  <2> QED BY <2>1, <2>2
<1> QED BY <1>2, <1>5, <1>7 DEF Answering

\* What was gone is, and what was kept, later and after later answers.
LEMMA GoesOn ==
  ASSUME NEW k \in Ledgers, NEW rd, NEW rd2, NEW s \in Nat, NEW t \in Nat, s <= t,
         NEW le \in [Accounts -> Nat],
         \A b \in Accounts, l \in Limits :
            Due(rd, b, l) \in Int /\ Due(rd2, b, l) \in Int /\ Due(rd, b, l) <= Due(rd2, b, l)
  PROVE  /\ Behind(k, rd) => Behind(k, rd2)
         /\ \A x \in Things : Gone(x, s, rd, le) => Gone(x, t, rd2, le)
         /\ \A plan : Planned(plan, k, s, rd, le) => Planned(plan, k, t, rd2, le)
         /\ \A b : Tallied(k, s, rd, le, b) => Tallied(k, t, rd2, le, b)
         /\ \A n, u, just : Switched(k, s, rd, le, n, u, just) => Switched(k, t, rd2, le, n, u, just)
         /\ \A log_ : Spoken(k, s, rd, le, log_) => Spoken(k, t, rd2, le, log_)
<1>1. ASSUME Behind(k, rd) PROVE Behind(k, rd2)
  <2> SUFFICES ASSUME NEW x \in Things, Rec(k, x).resets # 0
               PROVE  /\ Legit(x[1], Lim(x[2]), Rec(k, x).resets)
                      /\ RecEnd(k, x) <= Due(rd2, x[1], Lim(x[2]))
    BY DEF Behind
  <2>1. Legit(x[1], Lim(x[2]), Rec(k, x).resets) /\ RecEnd(k, x) <= Due(rd, x[1], Lim(x[2]))
    BY <1>1 DEF Behind
  <2>2. x[1] \in Accounts /\ Lim(x[2]) \in Limits
    BY ThingIs
  <2>3. RecEnd(k, x) \in Nat
    BY <2>1, <2>2, LegitIs DEF RecEnd
  <2> QED BY <2>1, <2>2, <2>3
<1>2. ASSUME NEW x \in Things, Gone(x, s, rd, le) PROVE Gone(x, t, rd2, le)
  <2>1. x[1] \in Accounts /\ Lim(x[2]) \in Limits /\ x[3] \in Nat
    BY ThingIs
  <2>2. Gone(x, t, rd, le)
    BY <1>2, GoneStays
  <2> QED BY <2>1, <2>2 DEF Gone
<1>3. ASSUME NEW plan, Planned(plan, k, s, rd, le) PROVE Planned(plan, k, t, rd2, le)
  <2>1. PICK x : x = Thing(plan)
    OBVIOUS
  <2>2. /\ plan.from \in Accounts /\ plan.to \in Accounts /\ x \in Things
        /\ \/ plan.resets = 0 /\ x[3] = 0
           \/ /\ Legit(x[1], Lim(x[2]), plan.resets) /\ EndOf(x[1], Lim(x[2]), plan.resets) = x[3]
              /\ x[3] <= Due(rd, x[1], Lim(x[2]))
        /\ \/ Kept(k, x, le)
           \/ Rec(k, x).resets = 0 /\ Gone(x, s, rd, le)
    BY <1>3, <2>1 DEF Planned
  <2>3. x[1] \in Accounts /\ Lim(x[2]) \in Limits /\ x[3] \in Nat
    BY <2>2, ThingIs
  <2>4. x[3] <= Due(rd, x[1], Lim(x[2])) => x[3] <= Due(rd2, x[1], Lim(x[2]))
    BY <2>3
  <2> QED BY <1>2, <2>1, <2>2, <2>4 DEF Planned
<1>4. \A b : Tallied(k, s, rd, le, b) => Tallied(k, t, rd2, le, b)
  BY <1>2 DEF Tallied
<1>5. \A n, u, just : Switched(k, s, rd, le, n, u, just) => Switched(k, t, rd2, le, n, u, just)
  BY <1>2 DEF Switched
<1>6. \A log_ : Spoken(k, s, rd, le, log_) => Spoken(k, t, rd2, le, log_)
  BY <1>2 DEF Spoken
<1> QED BY <1>1, <1>2, <1>3, <1>4, <1>5, <1>6

-----------------------------------------------------------------------------
(* What a decision writes. *)

\* A ledger with the same records carries all of another.
LEMMA SameRecords ==
  ASSUME NEW k \in Ledgers, NEW m \in Ledgers, \A x \in Things : Rec(m, x) = Rec(k, x), NEW le, NEW rd, NEW t
  PROVE  /\ Behind(k, rd) => Behind(m, rd)
         /\ \A x \in Things : Carries(k, m, x, t, rd, le) /\ Counts(k, m, x, t, rd, le)
<1>1. \A x \in Things : Rec(k, x).attempts \in Nat
  BY RecIs
<1>2. \A x \in Things : RecEnd(m, x) = RecEnd(k, x)
  BY DEF RecEnd
<1>3. Behind(k, rd) => Behind(m, rd)
  BY <1>2 DEF Behind
<1>4. ASSUME NEW x \in Things
      PROVE  Carries(k, m, x, t, rd, le) /\ Counts(k, m, x, t, rd, le)
  BY <1>1, <1>2 DEF Carries, Counts, Kept
<1> QED BY <1>3, <1>4

\* Whether Claude Code's login could be told is kept beside the records.
LEMMA AskedIs ==
  ASSUME NEW k \in Ledgers, NEW asked \in [at : Nat, failures : Nat],
         NEW m, m = [k EXCEPT !.asked = asked]
  PROVE  m \in Ledgers /\ \A x \in Things : Rec(m, x) = Rec(k, x)
BY DEF Ledgers, Rec

\* Whether what reading the ledger drops is then saved or not.
LEMMA UndroppedCarries ==
  ASSUME NEW k \in Ledgers, NEW s \in Nat, NEW t \in Nat, s <= t, NEW le \in [Accounts -> Nat], NEW rd,
         Behind(k, rd), NEW x \in Things
  PROVE  Carries(Dropped(k, s), k, x, t, rd, le) /\ Counts(Dropped(k, s), k, x, t, rd, le)
<1>1. CASE Rec(Dropped(k, s), x) = Rec(k, x)
  <2>1. Rec(k, x).attempts \in Nat
    BY RecIs
  <2> QED BY <1>1, <2>1 DEF Carries, Counts, Kept, RecEnd
<1>2. CASE Rec(Dropped(k, s), x) # Rec(k, x)
  <2> SUFFICES ASSUME Kept(Dropped(k, s), x, le) PROVE Gone(x, t, rd, le)
    BY DEF Carries, Counts
  <2>1. /\ Rec(Dropped(k, s), x) = New(0)
        /\ Rec(k, x).resets = 0 => s - Rec(k, x).at >= Length["weekly"]
    BY <1>2, DroppedIs
  <2>2. x[3] = 0 /\ le[x[1]] = 0
    BY <2>1 DEF Kept, RecEnd, New
  <2>3. Rec(k, x).resets = 0
    <3>1. x[1] \in Weekless /\ Lim(x[2]) = "weekly"
      BY <2>2, ThingIs DEF Lim
    <3>2. ~Legit(x[1], Lim(x[2]), Rec(k, x).resets)
      BY <3>1 DEF Legit, LimitsOf
    <3> QED BY <3>2 DEF Behind
  <2>4. Rec(k, x).at \in Nat /\ Length["weekly"] \in Nat
    BY RecIs, AutoSwitchBounds DEF Limits
  <2> QED BY <2>1, <2>2, <2>3, <2>4 DEF Gone
<1> QED BY <1>1, <1>2

\* What a decision at s keeps at t, or leaves as it was read.
LEMMA KeepsCarry ==
  ASSUME NEW k \in Ledgers, NEW m \in Ledgers, NEW j, NEW s \in Nat, NEW t \in Nat, s <= t, t >= Start,
         NEW le \in [Accounts -> Nat], NEW rd, Behind(k, rd), Behind(m, rd),
         j = Dropped(m, t) \/ (j = k /\ m = Dropped(k, s))
  PROVE  /\ j \in Ledgers /\ Behind(j, rd)
         /\ \A x \in Things : Carries(m, j, x, t, rd, le) /\ Counts(m, j, x, t, rd, le)
<1>1. CASE j = Dropped(m, t)
  <2>1. j \in Ledgers /\ Behind(j, rd)
    BY <1>1, DroppedIs, DroppedBehind
  <2>2. \A x \in Things : Carries(m, j, x, t, rd, le) /\ Counts(m, j, x, t, rd, le)
    BY <1>1, DroppedCarries
  <2> QED BY <2>1, <2>2
<1>2. CASE j = k /\ m = Dropped(k, s)
  BY <1>2, UndroppedCarries
<1> QED BY <1>1, <1>2

\* What a decision forgets is moves to accounts before the share.
LEMMA Clears ==
  ASSUME NEW k \in Ledgers, NEW m \in Ledgers, NEW as, NEW t, NEW rd, NEW le,
         \A x \in Things : Rec(m, x) = Rec(k, x) \/ (x[1] \in as /\ x[2] = "early"),
         NEW b, NEW n, NEW u, IsBag(b), IsBag(n), IsBag(u),
         Tallied(k, t, rd, le, b), Switched(k, t, rd, le, n, u, {})
  PROVE  /\ Tallied(m, t, rd, le, Without(b, as))
         /\ Switched(m, t, rd, le, Without(n, as), Without(u, as), {})
<1>1. \A c : IsBag(c) =>
        \A x \in Things : Times(x, Without(c, as)) = IF x[1] \in as /\ x[2] = "early" THEN 0 ELSE Times(x, c)
  BY Forgotten
<1>2. \A x \in Things : Rec(m, x) = Rec(k, x) => RecEnd(m, x) = RecEnd(k, x)
  BY DEF RecEnd
<1>3. Attempts \in Nat
  BY AutoSwitchBounds
<1>4. ASSUME NEW x \in Things
      PROVE  /\ Times(x, Without(b, as)) <= Attempts
             /\ \/ Times(x, Without(b, as)) = 0 \/ Gone(x, t, rd, le)
                \/ Kept(m, x, le) /\ Times(x, Without(b, as)) <= Rec(m, x).attempts
  <2>1. CASE x[1] \in as /\ x[2] = "early"
    <3>1. Times(x, Without(b, as)) = 0
      BY <1>1, <2>1
    <3> QED BY <1>3, <3>1
  <2>2. CASE ~(x[1] \in as /\ x[2] = "early")
    <3>1. Times(x, Without(b, as)) = Times(x, b) /\ Rec(m, x) = Rec(k, x)
      BY <1>1, <2>2
    <3> QED BY <1>2, <3>1 DEF Tallied, Kept
  <2> QED BY <2>1, <2>2
<1>5. ASSUME NEW x \in Things
      PROVE  \/ Times(x, Without(n, as)) <= Times(x, Without(u, as))
             \/ /\ Times(x, Without(n, as)) <= 1 + Times(x, Without(u, as))
                /\ x \in {} \/ Gone(x, t, rd, le) \/ (Kept(m, x, le) /\ Rec(m, x).switched)
  <2>1. CASE x[1] \in as /\ x[2] = "early"
    <3>1. Times(x, Without(n, as)) = 0 /\ Times(x, Without(u, as)) = 0
      BY <1>1, <2>1
    <3> QED BY <3>1
  <2>2. CASE ~(x[1] \in as /\ x[2] = "early")
    <3>1. /\ Times(x, Without(n, as)) = Times(x, n) /\ Times(x, Without(u, as)) = Times(x, u)
          /\ Rec(m, x) = Rec(k, x)
      BY <1>1, <2>2
    <3> QED BY <1>2, <3>1 DEF Switched, Kept
  <2> QED BY <2>1, <2>2
<1> QED BY <1>4, <1>5 DEF Tallied, Switched

\* A limit's record is forgotten nowhere but in these.
LEMMA MetClears ==
  ASSUME NEW k \in Ledgers, NEW a \in Accounts
  PROVE  /\ Met(k, a) \in Ledgers
         /\ \A x \in Things : Rec(Met(k, a), x) = Rec(k, x) \/ (x[1] \in {a} /\ x[2] = "early")
         /\ \A rd : Behind(k, rd) => Behind(Met(k, a), rd)
         /\ \A x \in Things : \A t, rd, le : x[2] # "early" => Carries(k, Met(k, a), x, t, rd, le)
<1>1. Writes(k, Met(k, a), <<a, "early", 0>>, New(0))
  BY MetIs
<1>2. /\ Met(k, a) \in Ledgers
      /\ \A x \in Things : Rec(Met(k, a), x) = IF x[1] = a /\ x[2] = "early" THEN New(0) ELSE Rec(k, x)
  BY <1>1 DEF Writes
<1>3. ASSUME NEW rd, Behind(k, rd) PROVE Behind(Met(k, a), rd)
  <2> SUFFICES ASSUME NEW x \in Things
               PROVE  \/ Rec(Met(k, a), x).resets = 0
                      \/ /\ Legit(x[1], Lim(x[2]), Rec(Met(k, a), x).resets)
                         /\ RecEnd(Met(k, a), x) <= Due(rd, x[1], Lim(x[2]))
    BY DEF Behind
  <2>1. CASE x[1] = a /\ x[2] = "early"
    BY <1>2, <2>1 DEF New
  <2>2. CASE ~(x[1] = a /\ x[2] = "early")
    <3>1. Rec(Met(k, a), x) = Rec(k, x)
      BY <1>2, <2>2
    <3> QED BY <1>3, <3>1 DEF Behind, RecEnd
  <2> QED BY <2>1, <2>2
<1>4. ASSUME NEW x \in Things, NEW t, NEW rd, NEW le, x[2] # "early"
      PROVE  Carries(k, Met(k, a), x, t, rd, le)
  <2>1. Rec(Met(k, a), x) = Rec(k, x)
    BY <1>2, <1>4
  <2> QED BY <2>1 DEF Carries, Kept, RecEnd
<1> QED BY <1>2, <1>3, <1>4

\* What a plan's record may be written over.
Meant(plan, k, rd, le) ==
  LET x == Thing(plan)
  IN  /\ plan \in Plans /\ plan.from \in Accounts /\ plan.to \in Accounts /\ x \in Things
      /\ \/ plan.resets = 0 /\ x[3] = 0
         \/ /\ Legit(x[1], Lim(x[2]), plan.resets) /\ EndOf(x[1], Lim(x[2]), plan.resets) = x[3]
            /\ x[3] <= Due(rd, x[1], Lim(x[2]))
      /\ x[3] = 0 \/ x[3] = Due(rd, x[1], Lim(x[2])) \/ Rec(k, x).resets = 0 \/ Kept(k, x, le)

\* Writing the record of a plan.
LEMMA TryingCarries ==
  ASSUME NEW k \in Ledgers, NEW rd, Behind(k, rd), NEW le, NEW plan, Meant(plan, k, rd, le),
         NEW x, x = Thing(plan), NEW new \in Tries, new.resets = TriedFor(k, plan).resets,
         NEW m, m = Trying(k, plan, new)
  PROVE  /\ m \in Ledgers /\ Behind(m, rd) /\ Rec(m, x) = new /\ RecEnd(m, x) = x[3]
         /\ RecEnd(k, x) = x[3] => TriedFor(k, plan) = Rec(k, x)
         /\ \A y \in Things : \A t : y # x => Carries(k, m, y, t, rd, le) /\ Counts(k, m, y, t, rd, le)
<1>1. /\ plan \in Plans /\ plan.from \in Accounts /\ plan.to \in Accounts /\ x \in Things
      /\ \/ plan.resets = 0 /\ x[3] = 0
         \/ /\ Legit(x[1], Lim(x[2]), plan.resets) /\ EndOf(x[1], Lim(x[2]), plan.resets) = x[3]
            /\ x[3] <= Due(rd, x[1], Lim(x[2]))
      /\ x[3] = 0 \/ x[3] = Due(rd, x[1], Lim(x[2])) \/ Rec(k, x).resets = 0 \/ Kept(k, x, le)
  BY DEF Meant
<1>2. Writes(k, m, x, new) /\ TriedFor(k, plan) = Of(Rec(k, x), plan.resets)
  BY <1>1, TryingIs
<1>3. plan.resets \in Nat
  BY <1>1 DEF Plans
<1>4. /\ RecEnd(k, x) = x[3] => TriedFor(k, plan) = Rec(k, x)
      /\ \/ new.resets = 0 /\ x[3] = 0
         \/ Legit(x[1], Lim(x[2]), new.resets) /\ EndOf(x[1], Lim(x[2]), new.resets) = x[3]
  BY <1>1, <1>2, <1>3, OfKept
<1>5. m \in Ledgers /\ Rec(m, x) = new
  BY <1>1, <1>2 DEF Writes
<1>6. RecEnd(m, x) = x[3]
  <2>1. CASE new.resets = 0
    <3>1. ~Legit(x[1], Lim(x[2]), new.resets)
      BY <1>1, <2>1, LegitIs, ThingIs
    <3> QED BY <1>4, <1>5, <2>1, <3>1 DEF RecEnd
  <2>2. CASE new.resets # 0
    BY <1>4, <1>5, <2>2 DEF RecEnd
  <2> QED BY <2>1, <2>2
<1>7. Behind(m, rd)
  <2>1. \/ new.resets = 0
        \/ /\ Legit(x[1], Lim(x[2]), new.resets)
           /\ EndOf(x[1], Lim(x[2]), new.resets) <= Due(rd, x[1], Lim(x[2]))
    <3>1. ASSUME new.resets # 0, x[3] = 0 PROVE FALSE
      <4>1. Legit(x[1], Lim(x[2]), new.resets) /\ EndOf(x[1], Lim(x[2]), new.resets) = 0
        BY <1>4, <3>1
      <4> QED BY <1>1, <4>1, LegitIs, ThingIs
    <3> QED BY <1>1, <1>4, <3>1
  <2> QED BY <1>1, <1>2, <2>1, WritesBehind
<1>8. ASSUME NEW y \in Things, NEW t, y # x
      PROVE  Carries(k, m, y, t, rd, le) /\ Counts(k, m, y, t, rd, le)
  BY <1>1, <1>2, <1>8, WritesCarry
<1> QED BY <1>4, <1>5, <1>6, <1>7, <1>8

\* What a plan decided on, and one under way, are for.
LEMMA MeantIs ==
  ASSUME NEW plan \in Plans, NEW k, NEW t, NEW s, NEW le
  PROVE  /\ Planned(plan, k, t, readings, le) => Meant(plan, k, readings, le)
         /\ Decided(plan, s) => Meant(plan, k, readings, le)
<1>1. Planned(plan, k, t, readings, le) => Meant(plan, k, readings, le)
  BY DEF Planned, Meant
<1>2. ASSUME Decided(plan, s) PROVE Meant(plan, k, readings, le)
  <2>1. PICK x : x = Thing(plan)
    OBVIOUS
  <2>2. /\ plan.from \in Accounts /\ plan.to \in Accounts /\ x \in Things
        /\ \/ plan.resets = 0 /\ x[3] = 0
           \/ /\ Legit(x[1], Lim(x[2]), plan.resets) /\ EndOf(x[1], Lim(x[2]), plan.resets) = x[3]
              /\ x[3] = Due(readings, x[1], Lim(x[2]))
    BY <1>2, <2>1 DEF Decided, Current
  <2>3. x[3] \in Nat
    BY <2>2, ThingIs
  <2> QED BY <2>1, <2>2, <2>3 DEF Meant
<1> QED BY <1>1, <1>2

\* Keeping a reason given.
LEMMA Speaks ==
  ASSUME NEW k \in Ledgers, Behind(k, readings), NEW cur \in Accounts, NEW l \in Limits, NEW r,
         NEW why \in Reasons, NEW s \in Nat, Current(cur, l, r, s), NEW hold, hold = Hold(l, r, why),
         NEW m, m = Say(k, cur, hold), NEW le, NEW x, x = <<cur, l, EndOf(cur, l, r)>>
  PROVE  /\ x \in Things /\ ~Gone(x, s, readings, le) /\ m \in Ledgers /\ Behind(m, readings)
         /\ \A y \in Things : \A t : Carries(k, m, y, t, readings, le) /\ Counts(k, m, y, t, readings, le)
         /\ Kept(m, x, le) /\ why \in Rec(m, x).said
         /\ Kept(k, x, le) => (Said(k, cur, hold) <=> why \in Rec(k, x).said)
<1>1. Legit(cur, l, r) /\ EndOf(cur, l, r) = Due(readings, cur, l) /\ s < Due(readings, cur, l) + Jitter
  BY DEF Current
<1>2. EndOf(cur, l, r) \in Nat /\ EndOf(cur, l, r) > 0 /\ r \in Nat /\ l \in LimitsOf(cur) /\ l # "early" /\ Lim(l) = l
  BY <1>1, LegitIs DEF Legit, Limits, Lim
<1>3. x \in Things /\ x[1] = cur /\ x[2] = l /\ x[3] = Due(readings, cur, l) /\ x[3] # 0
  BY <1>1, <1>2 DEF Things
<1>4. ~Gone(x, s, readings, le)
  BY <1>1, <1>2, <1>3, AutoSwitchBounds DEF Gone
<1>5. PICK tried : tried = Of(Rec(k, x), r)
  OBVIOUS
<1>6. PICK new : new = [tried EXCEPT !.said = tried.said \cup {why}]
  OBVIOUS
<1>7. Writes(k, m, x, new) /\ (Said(k, cur, hold) <=> why \in tried.said)
  <2>1. /\ Said(k, cur, hold) <=> why \in Of(Rec(k, x), r).said
        /\ Writes(k, Say(k, cur, hold), x, [Of(Rec(k, x), r) EXCEPT !.said = @ \cup {why}])
    BY <1>2, <1>3, SayIs
  <2>2. [Of(Rec(k, x), r) EXCEPT !.said = @ \cup {why}] = new
    BY <1>5, <1>6
  <2> QED BY <1>5, <2>1, <2>2
<1>8. Legit(x[1], Lim(x[2]), r) /\ EndOf(x[1], Lim(x[2]), r) = x[3]
  BY <1>1, <1>2, <1>3
<1>9. /\ RecEnd(k, x) = x[3] => tried = Rec(k, x)
      /\ tried \in Tries
      /\ Legit(x[1], Lim(x[2]), tried.resets) /\ EndOf(x[1], Lim(x[2]), tried.resets) = x[3]
  BY <1>2, <1>3, <1>5, <1>8, OfKept
<1>10. /\ new.resets = tried.resets /\ new.switched = tried.switched /\ new.attempts = tried.attempts
       /\ new.said = tried.said \cup {why} /\ tried.attempts \in Nat /\ tried.resets \in Nat
  BY <1>6, <1>9 DEF Tries
<1>11. m \in Ledgers /\ Rec(m, x) = new
  BY <1>3, <1>7 DEF Writes
<1>12. Behind(m, readings)
  <2>1. /\ Legit(x[1], Lim(x[2]), new.resets)
        /\ EndOf(x[1], Lim(x[2]), new.resets) <= Due(readings, x[1], Lim(x[2]))
    BY <1>1, <1>2, <1>3, <1>9, <1>10
  <2> QED BY <1>3, <1>7, <2>1, WritesBehind
<1>13. Kept(m, x, le)
  <2>1. new.resets # 0
    BY <1>3, <1>9, <1>10, NoReset
  <2> QED BY <1>3, <1>9, <1>10, <1>11, <2>1 DEF Kept, RecEnd
<1>14. ASSUME NEW y \in Things, NEW t
       PROVE  Carries(k, m, y, t, readings, le) /\ Counts(k, m, y, t, readings, le)
  <2>1. CASE y = x
    <3>1. Kept(k, x, le) => Rec(k, x) = tried
      BY <1>9 DEF Kept
    <3> QED BY <1>10, <1>11, <1>13, <2>1, <3>1 DEF Carries, Counts
  <2>2. CASE y # x
    BY <1>2, <1>3, <1>7, <2>2, WritesCarry
  <2> QED BY <2>1, <2>2
<1>15. Kept(k, x, le) => (Said(k, cur, hold) <=> why \in Rec(k, x).said)
  BY <1>7, <1>9 DEF Kept
<1> QED BY <1>3, <1>4, <1>10, <1>11, <1>12, <1>13, <1>14, <1>15

\* What a plan decided on at s is for.
LEMMA DecidedIs ==
  ASSUME NEW plan, NEW s \in Nat, Decided(plan, s), NEW x, x = Thing(plan), NEW le
  PROVE  /\ plan \in Plans /\ plan.from \in Accounts /\ plan.to \in Accounts /\ x \in Things
         /\ x[2] = "early" <=> plan.on = "early"
         /\ plan.on # "early" => x[1] = plan.from
         /\ plan.on = "early" => x[1] = plan.to
         /\ x[3] = 0 => plan.resets = 0
         /\ plan.resets = 0 => x[3] = 0 /\ plan.on = "early"
         /\ x[3] # 0 => ~Gone(x, s, readings, le)
<1>1. /\ plan \in Plans /\ plan.from \in Accounts /\ plan.to \in Accounts /\ x \in Things
      /\ \/ plan.resets = 0 /\ x[3] = 0 /\ x[2] = "early"
         \/ /\ Current(x[1], Lim(x[2]), plan.resets, s)
            /\ EndOf(x[1], Lim(x[2]), plan.resets) = x[3]
  BY DEF Decided
<1>2. plan.on \in Limits \cup {"early"} /\ "early" \notin Limits
  BY <1>1 DEF Plans, Limits
<1>3. x[2] = plan.on /\ (plan.on # "early" => x[1] = plan.from) /\ (plan.on = "early" => x[1] = plan.to)
  BY DEF Thing
<1>4. ASSUME Current(x[1], Lim(x[2]), plan.resets, s), EndOf(x[1], Lim(x[2]), plan.resets) = x[3]
      PROVE  plan.resets # 0 /\ x[3] # 0 /\ ~Gone(x, s, readings, le)
  <2>1. /\ Legit(x[1], Lim(x[2]), plan.resets) /\ x[3] = Due(readings, x[1], Lim(x[2]))
        /\ s < x[3] + Jitter
    BY <1>4 DEF Current
  <2>2. plan.resets # 0 /\ x[3] > 0 /\ x[3] \in Nat
    BY <1>1, <1>4, <2>1, LegitIs, ThingIs, NoReset
  <2> QED BY <2>1, <2>2, AutoSwitchBounds DEF Gone
<1> QED BY <1>1, <1>2, <1>3, <1>4

\* An attempt at the thing x of a plan, decided on at s with k kept and saved at t as j;
\* b, n and u count what was begun, left and lost before it, le when moves were.
Attempting(k, le, s, t, plan, x, b, n, u, le2, m, j) ==
  /\ k \in Ledgers /\ Behind(k, readings) /\ le \in [Accounts -> Nat]
  /\ s \in Nat /\ t \in Nat /\ s <= t /\ t >= Start
  /\ Decided(plan, s) /\ Open(TriedFor(k, plan)) /\ x = Thing(plan)
  /\ IsBag(b) /\ IsBag(n) /\ IsBag(u)
  /\ Tallied(k, s, readings, le, b) /\ Switched(k, s, readings, le, n, u, {})
  /\ Gone(x, s, readings, le) => Times(x, b) = 0 /\ Times(x, n) = 0
  /\ le2 = IF plan.on # "early" THEN le ELSE [le EXCEPT ![plan.to] = s]
  /\ m = Attempted(k, plan, s) /\ j = Dropped(m, t)

\* The thing has attempts left, the attempt is kept with those before it, and it was not
\* switched for, but for the switches lost.
LEMMA AttemptIs ==
  ASSUME NEW k, NEW le, NEW s, NEW t, NEW plan, NEW x, NEW b, NEW n, NEW u, NEW le2, NEW m, NEW j,
         Attempting(k, le, s, t, plan, x, b, n, u, le2, m, j)
  PROVE  /\ j \in Ledgers /\ Behind(j, readings) /\ m \in Ledgers /\ Behind(m, readings)
         /\ Planned(plan, j, t, readings, le2)
         /\ Tallied(j, t, readings, le2, BagAdd(b, x))
         /\ Switched(j, t, readings, le2, n, u, {})
         /\ Times(x, n) <= Times(x, u)
         /\ \A y \in Things : \A z : y[2] # "early" => Carries(k, m, y, z, readings, le)
<1> /\ k \in Ledgers /\ Behind(k, readings) /\ le \in [Accounts -> Nat]
    /\ s \in Nat /\ t \in Nat /\ s <= t /\ t >= Start
    /\ Decided(plan, s) /\ Open(TriedFor(k, plan)) /\ x = Thing(plan)
    /\ IsBag(b) /\ IsBag(n) /\ IsBag(u)
    /\ Tallied(k, s, readings, le, b) /\ Switched(k, s, readings, le, n, u, {})
    /\ Gone(x, s, readings, le) => Times(x, b) = 0 /\ Times(x, n) = 0
    /\ le2 = IF plan.on # "early" THEN le ELSE [le EXCEPT ![plan.to] = s]
    /\ m = Attempted(k, plan, s) /\ j = Dropped(m, t)
  BY DEF Attempting
<1>1. /\ plan \in Plans /\ plan.from \in Accounts /\ plan.to \in Accounts /\ x \in Things
      /\ x[2] = "early" <=> plan.on = "early"
      /\ plan.on = "early" => x[1] = plan.to
      /\ x[3] # 0 => ~Gone(x, s, readings, le)
  BY DecidedIs
<1>2. Meant(plan, k, readings, le)
  BY <1>1, MeantIs
<1>3. PICK tried : tried = TriedFor(k, plan)
  OBVIOUS
<1>4. tried \in Tries
  <2>1. New(0) \in Tries
    BY DEF New, Tries
  <2>2. tried = Of(Rec(k, x), plan.resets)
    BY <1>1, <1>3, <2>1, TryingIs
  <2>3. Rec(k, x) \in Tries /\ New(plan.resets) \in Tries
    BY <1>1, RecIs DEF New, Tries, Plans
  <2> QED BY <2>2, <2>3 DEF Of
<1>5. PICK new : new = [tried EXCEPT !.attempts = @ + 1, !.at = s]
  OBVIOUS
<1>6. /\ new \in Tries /\ new.attempts = tried.attempts + 1 /\ new.at = s /\ new.resets = tried.resets
      /\ new.switched = tried.switched /\ new.said = tried.said /\ tried.attempts \in Nat
  <2>1. tried.attempts \in Nat
    BY <1>4 DEF Tries
  <2>2. PICK c \in Nat : c = tried.attempts + 1
    BY <2>1
  <2>3. new = [tried EXCEPT !.attempts = c, !.at = s]
    BY <1>5, <2>2
  <2>4. /\ new.attempts = c /\ new.at = s /\ new.resets = tried.resets
        /\ new.switched = tried.switched /\ new.said = tried.said
    BY <1>4, <2>3 DEF Tries
  <2>5. new \in Tries
    BY <1>4, <2>2, <2>3 DEF Tries
  <2> QED BY <2>1, <2>2, <2>4, <2>5
<1>7. m = Trying(k, plan, new)
  BY <1>3, <1>5 DEF Attempted
<1>8. /\ m \in Ledgers /\ Behind(m, readings) /\ Rec(m, x) = new /\ RecEnd(m, x) = x[3]
      /\ RecEnd(k, x) = x[3] => tried = Rec(k, x)
      /\ \A y \in Things : \A z : y # x => Carries(k, m, y, z, readings, le) /\ Counts(k, m, y, z, readings, le)
  BY <1>2, <1>3, <1>6, <1>7, TryingCarries
<1>9. le2 \in [Accounts -> Nat]
  BY <1>1
<1>10. ASSUME NEW y \in Things, y # x
       PROVE  /\ \A z : Gone(y, z, readings, le) <=> Gone(y, z, readings, le2)
              /\ \A q : Kept(q, y, le) <=> Kept(q, y, le2)
  <2>1. CASE y[3] # 0
    BY <2>1 DEF Gone, Kept
  <2>2. CASE y[3] = 0
    <3>1. y[2] = "early" /\ y[1] \in Weekless /\ y[1] \in Accounts
      BY <2>2, ThingIs
    <3>2. ASSUME plan.on = "early", plan.to = y[1] PROVE FALSE
      <4>1. x[1] = y[1] /\ x[2] = y[2] /\ x[3] = 0
        BY <1>1, <3>1, <3>2, ThingIs
      <4> QED BY <1>1, <1>10, <2>2, <4>1, ThingIs
    <3>3. le2[y[1]] = le[y[1]]
      BY <1>1, <3>1, <3>2
    <3> QED BY <3>3 DEF Gone, Kept
  <2> QED BY <2>1, <2>2
<1>11. Kept(m, x, le2)
  <2>1. x[3] = 0 => le2[x[1]] = s
    BY <1>1, ThingIs
  <2> QED BY <1>6, <1>8, <2>1 DEF Kept
<1>12. tried.attempts < Attempts /\ ~tried.switched
  BY <1>3 DEF Open
<1>13. Times(x, b) \in Nat /\ Times(x, n) \in Nat /\ Times(x, u) \in Nat /\ Attempts \in Nat
  BY TimesIs, AutoSwitchBounds
<1>14. Tallied(m, s, readings, le2, BagAdd(b, x))
  <2>1. ASSUME NEW y \in Things
        PROVE  /\ Times(y, BagAdd(b, x)) <= Attempts
               /\ \/ Times(y, BagAdd(b, x)) = 0 \/ Gone(y, s, readings, le2)
                  \/ Kept(m, y, le2) /\ Times(y, BagAdd(b, x)) <= Rec(m, y).attempts
    <3>1. CASE y = x
      <4>1. Times(x, BagAdd(b, x)) = Times(x, b) + 1
        BY <1>1, OneMore
      <4>2. Times(x, b) = 0 \/ (Kept(k, x, le) /\ Times(x, b) <= Rec(k, x).attempts)
        BY <1>1 DEF Tallied
      <4>3. Times(x, b) <= tried.attempts
        BY <1>6, <1>8, <4>2 DEF Kept
      <4> QED BY <1>6, <1>8, <1>11, <1>12, <1>13, <3>1, <4>1, <4>3
    <3>2. CASE y # x
      <4>1. Times(y, BagAdd(b, x)) = Times(y, b) /\ Times(y, b) \in Nat
        BY <1>1, <3>2, OneMore, TimesIs
      <4>2. Carries(k, m, y, s, readings, le) /\ Counts(k, m, y, s, readings, le)
        BY <1>8, <3>2
      <4>3. Rec(k, y).attempts \in Nat /\ Rec(m, y).attempts \in Nat
        BY <1>8, RecIs
      <4>4. /\ Times(y, b) <= Attempts
            /\ \/ Times(y, b) = 0 \/ Gone(y, s, readings, le)
               \/ Kept(m, y, le) /\ Times(y, b) <= Rec(m, y).attempts
        BY <4>1, <4>2, <4>3 DEF Tallied, Carries, Counts
      <4> QED BY <1>10, <3>2, <4>1, <4>4
    <3> QED BY <3>1, <3>2
  <2> QED BY <2>1 DEF Tallied
<1>15. Times(x, n) <= Times(x, u)
  <2>1. \/ Times(x, n) <= Times(x, u)
        \/ Gone(x, s, readings, le) \/ (Kept(k, x, le) /\ Rec(k, x).switched)
    BY <1>1 DEF Switched
  <2>2. ~(Kept(k, x, le) /\ Rec(k, x).switched)
    BY <1>8, <1>12 DEF Kept
  <2> QED BY <1>13, <2>1, <2>2
<1>16. Switched(m, s, readings, le2, n, u, {})
  <2>1. ASSUME NEW y \in Things
        PROVE  \/ Times(y, n) <= Times(y, u)
               \/ /\ Times(y, n) <= 1 + Times(y, u)
                  /\ y \in {} \/ Gone(y, s, readings, le2) \/ (Kept(m, y, le2) /\ Rec(m, y).switched)
    <3>1. CASE y = x
      BY <1>15, <3>1
    <3>2. CASE y # x
      <4>1. Carries(k, m, y, s, readings, le)
        BY <1>8, <3>2
      <4>2. \/ Times(y, n) <= Times(y, u)
            \/ /\ Times(y, n) <= 1 + Times(y, u)
               /\ Gone(y, s, readings, le) \/ (Kept(m, y, le) /\ Rec(m, y).switched)
        BY <4>1 DEF Switched, Carries
      <4> QED BY <1>10, <3>2, <4>2
    <3> QED BY <3>1, <3>2
  <2> QED BY <2>1 DEF Switched
<1>17. /\ j \in Ledgers /\ Behind(j, readings)
       /\ \A y \in Things : Carries(m, j, y, t, readings, le2) /\ Counts(m, j, y, t, readings, le2)
  BY <1>8, <1>9, DroppedIs, DroppedBehind, DroppedCarries
<1>18. Tallied(j, t, readings, le2, BagAdd(b, x))
  <2>1. IsBag(BagAdd(b, x))
    BY <1>1, OneMore
  <2> QED BY <1>8, <1>9, <1>14, <1>17, <2>1, TalliedOn
<1>19. Switched(j, t, readings, le2, n, u, {})
  BY <1>8, <1>9, <1>16, <1>17, SwitchedOn
<1>20. Planned(plan, j, t, readings, le2)
  <2>1. /\ plan.resets = 0 /\ x[3] = 0
        \/ /\ Legit(x[1], Lim(x[2]), plan.resets) /\ EndOf(x[1], Lim(x[2]), plan.resets) = x[3]
           /\ x[3] <= Due(readings, x[1], Lim(x[2]))
    BY <1>2 DEF Meant
  <2>2. Kept(j, x, le2) \/ (Rec(j, x).resets = 0 /\ Gone(x, t, readings, le2))
    <3>1. Gone(x, t, readings, le2) \/ Kept(j, x, le2)
      BY <1>1, <1>11, <1>17 DEF Carries
    <3>2. CASE Rec(j, x) = Rec(m, x)
      BY <1>11, <3>2 DEF Kept, RecEnd
    <3>3. CASE Rec(j, x) = New(0)
      BY <3>1, <3>3 DEF New
    <3> QED BY <1>1, <1>8, <3>2, <3>3, DroppedIs
  <2> QED BY <1>1, <2>1, <2>2 DEF Planned
<1>21. ASSUME NEW y \in Things, NEW z, y[2] # "early"
       PROVE  Carries(k, m, y, z, readings, le)
  <2>1. CASE y = x
    <3>1. x[3] # 0
      BY <1>21, <2>1, ThingIs
    <3>2. Kept(k, x, le) => Rec(k, x) = tried
      BY <1>8 DEF Kept
    <3>3. Kept(m, x, le)
      BY <1>8, <3>1 DEF Kept
    <3> QED BY <1>6, <1>8, <2>1, <3>2, <3>3 DEF Carries
  <2>2. CASE y # x
    BY <1>8, <2>2
  <2> QED BY <2>1, <2>2
<1> QED BY <1>8, <1>15, <1>17, <1>18, <1>19, <1>20, <1>21

-----------------------------------------------------------------------------
(* The world. *)

\* With no decision under way, a run is still one.
LEMMA NoRunIs == NoRun \in [at : Nat, order : {"most-left", "resets-soonest"}, plan : Plans]
BY DEF NoRun, NoPlan, Plans

\* At first nothing is kept and nothing counted.
LEMMA GuardedAtFirst == Init => Heard
<1> SUFFICES ASSUME Init PROVE Heard
  OBVIOUS
<1>1. New(0) \in Tries
  BY DEF New, Tries
<1>2. PICK k : k = [limits |-> [a \in Accounts |-> [l \in Limits |-> New(0)]],
                    early |-> [a \in Accounts |-> New(0)], asked |-> NotAsked]
  OBVIOUS
<1>3. ledger = k /\ k \in Ledgers
  BY <1>1, <1>2 DEF Init, Ledgers, NotAsked
<1>4. \A x \in Things : Rec(k, x).resets = 0
  BY <1>2, ThingIs DEF Rec, New
<1>5. Answering(readings, now)
  <2>1. now = Start /\ now \in Nat
    BY AutoSwitchBounds DEF Init
  <2>2. CASE readings = [a \in Accounts |-> NoAnswer]
    <3>1. NoAnswer \in [at : Nat, windows : [Limits -> [used : Nat, resets : Nat]]]
      BY DEF NoAnswer
    <3>2. \A a \in Accounts, l \in Limits :
             readings[a].windows[l].used = 0 /\ readings[a].windows[l].resets = 0
      BY <2>2 DEF NoAnswer
    <3> QED BY <2>2, <3>1, <3>2 DEF Answering
  <2>3. CASE \A a \in Accounts : readings[a] \in AnswersOf(a, Start, FirstLate)
    <3>1. ASSUME NEW a \in Accounts
          PROVE  /\ readings[a] \in [at : Nat, windows : [Limits -> [used : Nat, resets : Nat]]]
                 /\ \A l \in Limits :
                      IF l \in LimitsOf(a)
                      THEN /\ Legit(a, l, readings[a].windows[l].resets)
                           /\ EndOf(a, l, readings[a].windows[l].resets) = Ends(a, l, Start)
                      ELSE readings[a].windows[l].used = 0 /\ readings[a].windows[l].resets = 0
      <4>1. PICK answer \in AnswersOf(a, Start, FirstLate) : answer = readings[a]
        BY <2>3
      <4>2. /\ answer \in [at : Nat, windows : [Limits -> [used : Nat, resets : Nat]]]
            /\ \A l \in Limits :
                 IF l \in LimitsOf(a)
                 THEN /\ Legit(a, l, answer.windows[l].resets)
                      /\ EndOf(a, l, answer.windows[l].resets) = Ends(a, l, Start)
                 ELSE answer.windows[l].used = 0 /\ answer.windows[l].resets = 0
        <5>1. Start \in Nat /\ Start >= Start /\ FirstLate \subseteq 0 .. Jitter
          BY AutoSwitchBounds
        <5> QED BY <5>1, AnswerIs
      <4> QED BY <4>1, <4>2
    <3>2. readings \in [Accounts -> [at : Nat, windows : [Limits -> [used : Nat, resets : Nat]]]]
          \/ readings = [a \in Accounts |-> NoAnswer]
      <4>1. \/ readings = [a \in Accounts |-> NoAnswer]
            \/ readings \in [Accounts -> UNION {AnswersOf(a, Start, FirstLate) : a \in Accounts}]
        BY Zenon DEF Init
      <4> QED BY <3>1, <4>1
    <3>3. ASSUME NEW a \in Accounts, NEW l \in LimitsOf(a), NEW r, r = readings[a].windows[l].resets
          PROVE  Legit(a, l, r) /\ EndOf(a, l, r) <= Start + Length[l]
      <4>1. l \in Limits
        BY DEF LimitsOf, Limits
      <4>2. Legit(a, l, r) /\ EndOf(a, l, r) = Ends(a, l, Start)
        BY <3>1, <3>3, <4>1
      <4>3. 0 \in 0 .. Jitter /\ Start \in Nat
        BY AutoSwitchBounds
      <4> QED BY <4>1, <4>2, <4>3, EndIsKnown
    <3>4. CASE readings \in [Accounts -> [at : Nat, windows : [Limits -> [used : Nat, resets : Nat]]]]
      <4>1. \A a \in Accounts, l \in Limits :
               LET w == readings[a].windows[l]
               IN  \/ w.used = 0 /\ w.resets = 0
                   \/ Legit(a, l, w.resets) /\ Due(readings, a, l) <= now + Length[l]
        BY <2>1, <3>1, <3>3 DEF Due
      <4> QED BY <3>4, <4>1 DEF Answering
    <3> QED BY <2>2, <3>2, <3>4
  <2> QED BY <2>2, <2>3, Zenon DEF Init
<1>6. TypeOK
  <2>1. stored \in Accounts \cup {Nobody} /\ parked \subseteq Accounts
    BY AutoSwitchBounds DEF Init
  <2> QED BY <1>3, <2>1, NoRunIs, NothingCounted, AutoSwitchBounds DEF Init, TypeOK
<1>7. Behind(ledger, readings)
  BY <1>3, <1>4 DEF Behind
<1>8. left = EmptyBag /\ begun = EmptyBag /\ unrecorded = EmptyBag /\ pc = "idle" /\ logged = {} /\ ~repeated
  BY DEF Init
<1>9. \A t, b : b = EmptyBag => Tallied(ledger, t, readings, lastEarly, b)
  BY NothingCounted, AutoSwitchBounds DEF Tallied
<1>10. \A t, n, u, just : n = EmptyBag /\ u = EmptyBag => Switched(ledger, t, readings, lastEarly, n, u, just)
  BY NothingCounted DEF Switched
<1>11. \A t : Spoken(ledger, t, readings, lastEarly, {})
  BY DEF Spoken
<1> QED BY <1>5, <1>6, <1>7, <1>8, <1>9, <1>10, <1>11 DEF Heard, Guarded

\* What does not touch the ledger or what is counted by it, as time passes and answers come.
LEMMA GuardedOn ==
  ASSUME Heard, now' \in Nat, now <= now', Answering(readings', now'),
         \A b \in Accounts, l \in Limits :
            /\ Due(readings, b, l) \in Int /\ Due(readings', b, l) \in Int
            /\ Due(readings, b, l) <= Due(readings', b, l),
         stored' \in Accounts \cup {Nobody}, parked' \subseteq Accounts,
         UNCHANGED <<ledger, lastEarly, left, begun, unrecorded, logged, repeated>>,
         \/ UNCHANGED <<pc, run>> /\ (pc \in {"ask", "switching", "switched"} => now' <= run.at + Lasting)
         \/ pc \in {"idle", "cut", "switching", "ask"} /\ pc' = "idle" /\ run' = NoRun /\ now' = now
         \/ pc = "cut" /\ pc' = "idle" /\ run' = run /\ now' = now
         \/ pc = "idle" /\ pc' = "ask" /\ run' = [NoRun EXCEPT !.at = now] /\ now' = now
  PROVE  Heard'
<1>1. /\ TypeOK /\ Answering(readings, now) /\ Behind(ledger, readings)
      /\ pc \in {"switching", "switched"} => Planned(run.plan, ledger, now, readings, lastEarly)
      /\ Tallied(ledger, Since, readings, lastEarly, begun)
      /\ Switched(ledger, Since, readings, lastEarly, left, unrecorded, Just)
      /\ pc = "switching" => Times(Thing(run.plan), left) <= Times(Thing(run.plan), unrecorded)
      /\ Prompt => Spoken(ledger, SaysSince, readings, lastEarly, logged) /\ ~repeated
  BY DEF Heard, Guarded
<1>2. /\ now \in Nat /\ now >= Start /\ lastEarly \in [Accounts -> Nat] /\ ledger \in Ledgers
      /\ run \in [at : Nat, order : {"most-left", "resets-soonest"}, plan : Plans]
      /\ pc \in {"idle", "ask", "switching", "switched", "cut"}
      /\ pc \in {"ask", "switching", "switched"} =>
           run.at >= Start /\ run.at <= now /\ now <= run.at + Lasting
  BY <1>1 DEF TypeOK
<1>3. run.at \in Nat
  BY <1>2
<1>4. Lasting \in Nat /\ Start \in Nat
  BY AutoSwitchBounds
<1>5. [NoRun EXCEPT !.at = now] \in [at : Nat, order : {"most-left", "resets-soonest"}, plan : Plans]
      /\ [NoRun EXCEPT !.at = now].at = now
  BY <1>2, NoRunIs DEF NoRun
<1>6. TypeOK'
  <2>1. /\ now' \in Nat /\ now' >= Start /\ stored' \in Accounts \cup {Nobody} /\ parked' \subseteq Accounts
        /\ lastEarly' \in [Accounts -> Nat] /\ ledger' \in Ledgers
    BY <1>2, <1>4
  <2>2. /\ pc' \in {"idle", "ask", "switching", "switched", "cut"}
        /\ run' \in [at : Nat, order : {"most-left", "resets-soonest"}, plan : Plans]
    BY <1>2, <1>5, NoRunIs
  <2>3. /\ IsBag(left') /\ IsBag(begun') /\ IsBag(unrecorded')
        /\ logged' \subseteq Accounts \X Limits \X Nat \X Reasons
    BY <1>1 DEF TypeOK
  <2>4. pc' \in {"ask", "switching", "switched"} =>
          run'.at >= Start /\ run'.at <= now' /\ now' <= run'.at + Lasting
    BY <1>2, <1>3, <1>4, <1>5
  <2> QED BY <2>1, <2>2, <2>3, <2>4 DEF TypeOK
<1>7. /\ Since \in Nat /\ Since' \in Nat /\ Since <= Since'
      /\ SaysSince \in Nat /\ SaysSince' \in Nat /\ SaysSince <= SaysSince'
  BY <1>2, <1>3, <1>5 DEF Since, SaysSince
<1>8. Just = Just'
  BY <1>2 DEF Just
<1>9. PICK k, le, rd, rd2, n0, n1, b0, u0, l0, s0, s1, t0, t1 :
        /\ k = ledger /\ le = lastEarly /\ rd = readings /\ rd2 = readings' /\ n0 = now /\ n1 = now'
        /\ b0 = begun /\ u0 = unrecorded /\ l0 = logged
        /\ s0 = Since /\ s1 = Since' /\ t0 = SaysSince /\ t1 = SaysSince'
  OBVIOUS
<1>10. /\ k \in Ledgers /\ le \in [Accounts -> Nat] /\ n0 \in Nat /\ n1 \in Nat /\ n0 <= n1
       /\ s0 \in Nat /\ s1 \in Nat /\ s0 <= s1 /\ t0 \in Nat /\ t1 \in Nat /\ t0 <= t1
       /\ \A b \in Accounts, l \in Limits :
            Due(rd, b, l) \in Int /\ Due(rd2, b, l) \in Int /\ Due(rd, b, l) <= Due(rd2, b, l)
  BY <1>2, <1>7, <1>9
<1>11. /\ Behind(k, rd) => Behind(k, rd2)
       /\ \A plan : Planned(plan, k, n0, rd, le) => Planned(plan, k, n1, rd2, le)
  BY <1>10, GoesOn
<1>12. /\ \A b : Tallied(k, s0, rd, le, b) => Tallied(k, s1, rd2, le, b)
       /\ \A n, u, just : Switched(k, s0, rd, le, n, u, just) => Switched(k, s1, rd2, le, n, u, just)
  BY <1>10, GoesOn
<1>13. \A log_ : Spoken(k, t0, rd, le, log_) => Spoken(k, t1, rd2, le, log_)
  BY <1>10, GoesOn
<1>14. Behind(ledger', readings')
  BY <1>1, <1>9, <1>11
<1>15. pc' \in {"switching", "switched"} => Planned(run'.plan, ledger', now', readings', lastEarly')
  BY <1>1, <1>9, <1>11
<1>16. Tallied(ledger', Since', readings', lastEarly', begun')
  BY <1>1, <1>9, <1>12
<1>17. Switched(ledger', Since', readings', lastEarly', left', unrecorded', Just')
  BY <1>1, <1>8, <1>9, <1>12
<1>18. pc' = "switching" => Times(Thing(run'.plan), left') <= Times(Thing(run'.plan), unrecorded')
  BY <1>1
<1>19. Prompt => Spoken(ledger', SaysSince', readings', lastEarly', logged') /\ ~repeated'
  BY <1>1, <1>9, <1>13
<1> QED BY <1>1, <1>6, <1>14, <1>15, <1>16, <1>17, <1>18, <1>19 DEF Heard, Guarded

\* The ends answers give are numbers.
LEMMA DueIsInt ==
  ASSUME Guarded
  PROVE  \A b \in Accounts, l \in Limits : Due(readings, b, l) \in Int
<1> SUFFICES ASSUME NEW b \in Accounts, NEW l \in Limits PROVE Due(readings, b, l) \in Int
  OBVIOUS
<1>1. readings[b].windows[l].resets \in Nat
  BY DEF Guarded, Answering
<1>2. PICK r \in Nat : r = readings[b].windows[l].resets
  BY <1>1
<1> QED BY <1>2, EndOfIs DEF Due

\* GuardedOn where neither time nor an answer comes.
LEMMA GuardedThen ==
  ASSUME Heard, UNCHANGED <<now, readings>>,
         stored' \in Accounts \cup {Nobody}, parked' \subseteq Accounts,
         UNCHANGED <<ledger, lastEarly, left, begun, unrecorded, logged, repeated>>,
         \/ UNCHANGED <<pc, run>>
         \/ pc \in {"idle", "cut", "switching", "ask"} /\ pc' = "idle" /\ run' = NoRun
         \/ pc = "cut" /\ pc' = "idle" /\ run' = run
         \/ pc = "idle" /\ pc' = "ask" /\ run' = [NoRun EXCEPT !.at = now]
  PROVE  Heard'
<1>1. Guarded /\ TypeOK /\ Answering(readings, now)
  BY DEF Heard, Guarded
<1>2. now \in Nat /\ (pc \in {"ask", "switching", "switched"} => now <= run.at + Lasting)
  BY <1>1 DEF TypeOK
<1>3. \A b \in Accounts, l \in Limits : Due(readings, b, l) \in Int
  BY <1>1, DueIsInt
<1>4. now' = now /\ readings' = readings
  OBVIOUS
<1>5. /\ now' \in Nat /\ now <= now' /\ Answering(readings', now')
      /\ (pc \in {"ask", "switching", "switched"} => now' <= run.at + Lasting)
  BY <1>1, <1>2, <1>4
<1>6. \A b \in Accounts, l \in Limits :
            /\ Due(readings, b, l) \in Int /\ Due(readings', b, l) \in Int
            /\ Due(readings, b, l) <= Due(readings', b, l)
  BY <1>3, <1>4
<1> QED BY <1>4, <1>5, <1>6, GuardedOn

\* What happens outside a decision touches neither the ledger nor what is counted by it.
LEMMA OutsideGuarded ==
  ASSUME Heard, Outside
  PROVE  Heard'
<1>1. /\ Guarded /\ TypeOK /\ Answering(readings, now) /\ now \in Nat /\ now >= Start
      /\ stored \in Accounts \cup {Nobody} /\ parked \subseteq Accounts
  BY DEF Heard, Guarded, TypeOK
<1>2. CASE Tick
  <2>1. /\ now' = now + 1 /\ now' \in Nat /\ now <= now'
        /\ UNCHANGED <<readings, stored, parked, ledger, pc, run, left, begun, unrecorded, lastEarly, logged, repeated>>
    BY <1>1, <1>2 DEF Tick, logins, history, log
  <2>2. pc \in {"ask", "switching", "switched"} => now' <= run.at + Lasting
    <3>1. run.at \in Nat /\ Lasting \in Nat
      BY <1>1, AutoSwitchBounds DEF TypeOK
    <3> QED BY <1>1, <1>2, <3>1 DEF Tick
  <2>3. \A b \in Accounts, l \in Limits : Due(readings, b, l) \in Int
    BY <1>1, DueIsInt
  <2>4. Answering(readings, now + 1)
    <3>1. \A a \in Accounts, l \in Limits : Length[l] \in Nat
      BY AutoSwitchBounds
    <3>2. \A a \in Accounts, l \in Limits :
            Due(readings, a, l) <= now + Length[l] => Due(readings, a, l) <= (now + 1) + Length[l]
      BY <1>1, <2>3, <3>1
    <3> QED BY <1>1, <3>2 DEF Answering
  <2>5. readings' = readings
    BY <2>1
  <2>6. Answering(readings', now')
    BY <2>1, <2>4, <2>5
  <2>7. \A b \in Accounts, l \in Limits :
            /\ Due(readings, b, l) \in Int /\ Due(readings', b, l) \in Int
            /\ Due(readings, b, l) <= Due(readings', b, l)
    BY <2>3, <2>5
  <2> QED BY <1>1, <2>1, <2>2, <2>6, <2>7, GuardedOn
<1>3. ASSUME NEW a \in Accounts, Answers(a) PROVE Heard'
  <2>1. /\ UNCHANGED <<now, stored, parked, ledger, pc, run, left, begun, unrecorded, lastEarly, logged, repeated>>
        /\ \E answer \in AnswersOf(a, now, 0 .. Jitter) : readings' = [readings EXCEPT ![a] = answer]
    BY <1>3 DEF Answers, logins, history, log
  <2>2. PICK t \in Nat : t = now
    BY <1>1
  <2>3. PICK rd : rd = readings'
    OBVIOUS
  <2>4. PICK answer \in AnswersOf(a, t, 0 .. Jitter) : rd = [readings EXCEPT ![a] = answer]
    BY <2>1, <2>2, <2>3
  <2>5. /\ Answering(rd, t)
        /\ \A b \in Accounts, l \in Limits :
              /\ Due(readings, b, l) \in Int /\ Due(rd, b, l) \in Int
              /\ Due(readings, b, l) <= Due(rd, b, l)
    BY <1>1, <2>2, <2>4, AnsweredLater
  <2>6. now' = now /\ now' \in Nat /\ now <= now' /\ Answering(readings', now')
    <3>1. now' = now /\ now' = t /\ rd = readings'
      BY <2>1, <2>2, <2>3
    <3>2. Answering(readings', now')
      BY <2>5, <3>1
    <3> QED BY <1>1, <3>1, <3>2
  <2>7. \A b \in Accounts, l \in Limits :
              /\ Due(readings, b, l) \in Int /\ Due(readings', b, l) \in Int
              /\ Due(readings, b, l) <= Due(readings', b, l)
    BY <2>3, <2>5
  <2>8. pc \in {"ask", "switching", "switched"} => now' <= run.at + Lasting
    BY <1>1, <2>6 DEF TypeOK
  <2> QED BY <1>1, <2>1, <2>6, <2>7, <2>8, GuardedOn
<1>4. CASE Reads
  <2>1. /\ UNCHANGED <<now, readings, stored, parked, ledger, pc, run, left, begun, unrecorded, lastEarly, logged, repeated>>
    BY <1>4 DEF Reads, history, log
  <2> QED BY <1>1, <2>1, GuardedThen
<1>5. CASE Settled
  <2>1. /\ UNCHANGED <<now, readings, stored, parked, ledger, run, left, begun, unrecorded, lastEarly, logged, repeated>>
        /\ pc = "cut" /\ pc' = "idle"
    BY <1>5 DEF Settled, history, log
  <2> QED BY <1>1, <2>1, GuardedThen
<1>6. ASSUME NEW a \in Accounts, PersonSwitches(a) PROVE Heard'
  <2>1. /\ UNCHANGED <<now, readings, ledger, pc, run, left, begun, unrecorded, lastEarly, logged, repeated>>
        /\ stored' = a /\ parked' = (parked \ {a}) \cup ({stored} \ {Nobody})
    BY <1>6 DEF PersonSwitches, PutInUse, history, log
  <2>2. stored' \in Accounts \cup {Nobody} /\ parked' \subseteq Accounts
    BY <1>1, <2>1
  <2> QED BY <1>1, <2>1, <2>2, GuardedThen
<1>7. ASSUME NEW a \in Accounts \cup {Nobody}, SignsIn(a) PROVE Heard'
  <2>1. /\ UNCHANGED <<now, readings, parked, ledger, pc, run, left, begun, unrecorded, lastEarly, logged, repeated>>
        /\ stored' = a
    BY <1>7 DEF SignsIn, history, log
  <2> QED BY <1>1, <2>1, GuardedThen
<1> QED BY <1>2, <1>3, <1>4, <1>5, <1>6, <1>7 DEF Outside

\* Nothing kept and nothing moved.
LEMMA NothingKept ==
  ASSUME Heard, Begin \/ RefusedUnkept \/ UNCHANGED vars
  PROVE  Heard'
<1>1. /\ Guarded /\ TypeOK /\ stored \in Accounts \cup {Nobody} /\ parked \subseteq Accounts
  BY DEF Heard, Guarded, TypeOK
<1>2. CASE Begin
  <2>1. /\ UNCHANGED <<now, readings, stored, parked, ledger, left, begun, unrecorded, lastEarly, logged, repeated>>
        /\ pc = "idle" /\ pc' = "ask" /\ run' = [NoRun EXCEPT !.at = now]
    BY <1>2 DEF Begin, logins, history, log
  <2> QED BY <1>1, <2>1, GuardedThen
<1>3. CASE RefusedUnkept
  <2>1. /\ UNCHANGED <<now, readings, stored, parked, ledger, left, begun, unrecorded, lastEarly, logged, repeated>>
        /\ pc = "switching" /\ pc' = "idle" /\ run' = NoRun
    BY <1>3 DEF RefusedUnkept, logins, history, log
  <2> QED BY <1>1, <2>1, GuardedThen
<1>4. CASE UNCHANGED vars
  <2>1. /\ UNCHANGED <<now, readings, stored, parked, ledger, left, begun, unrecorded, lastEarly, logged, repeated, pc, run>>
    BY <1>4 DEF vars, logins, history, log
  <2> QED BY <1>1, <2>1, GuardedThen
<1> QED BY <1>2, <1>3, <1>4

-----------------------------------------------------------------------------
(* A decision under the lock. *)

\* What Heard says in a decision, whose login is stored being asked.
LEMMA InAsk ==
  ASSUME Heard, pc = "ask"
  PROVE  /\ TypeOK /\ Answering(readings, now) /\ Behind(ledger, readings)
         /\ now \in Nat /\ run.at \in Nat /\ run.at >= Start /\ run.at <= now /\ now >= Start
         /\ ledger \in Ledgers /\ lastEarly \in [Accounts -> Nat]
         /\ IsBag(left) /\ IsBag(begun) /\ IsBag(unrecorded)
         /\ Tallied(ledger, run.at, readings, lastEarly, begun)
         /\ Switched(ledger, run.at, readings, lastEarly, left, unrecorded, {})
         /\ Prompt => Spoken(ledger, run.at, readings, lastEarly, logged) /\ ~repeated
         /\ \A e \in logged : e[2] # "early"
<1>1. TypeOK /\ Start \in Nat
  BY AutoSwitchBounds DEF Heard, Guarded
<1>2. \A e \in logged : e[2] # "early"
  BY <1>1 DEF TypeOK, Limits
<1>3. run.at \in Nat /\ now \in Nat
  BY <1>1 DEF TypeOK
<1>4. Since = run.at /\ SaysSince = run.at /\ Just = {}
  BY DEF Since, SaysSince, Just
<1> QED BY <1>1, <1>2, <1>3, <1>4 DEF Heard, Guarded, TypeOK

\* What is decided from is what is kept, without what had reset when the decision began.
LEMMA ToldIs ==
  ASSUME Heard, pc = "ask"
  PROVE  /\ Loaded \in Ledgers /\ Told \in Ledgers /\ Behind(Loaded, readings) /\ Behind(Told, readings)
         /\ Loaded = Dropped(ledger, run.at)
         /\ \A x \in Things : Rec(Told, x) = Rec(Loaded, x)
         /\ Tallied(Told, run.at, readings, lastEarly, begun)
         /\ Switched(Told, run.at, readings, lastEarly, left, unrecorded, {})
         /\ Prompt => Spoken(Told, run.at, readings, lastEarly, logged)
<1>1. PICK k, s, rd, le, l, told :
        /\ k = ledger /\ s = run.at /\ rd = readings /\ le = lastEarly /\ l = Loaded /\ told = Told
  OBVIOUS
<1>2. /\ k \in Ledgers /\ s \in Nat /\ s >= Start /\ le \in [Accounts -> Nat] /\ Behind(k, rd)
  BY <1>1, InAsk
<1>3. l = Dropped(k, s)
  BY <1>1 DEF Loaded
<1>4. l \in Ledgers /\ Behind(l, rd)
  BY <1>2, <1>3, DroppedIs, DroppedBehind
<1>5. \A x \in Things : Carries(k, l, x, s, rd, le) /\ Counts(k, l, x, s, rd, le)
  BY <1>2, <1>3, DroppedCarries
<1>6. told = [l EXCEPT !.asked = NotAsked] /\ NotAsked \in [at : Nat, failures : Nat]
  BY <1>1 DEF Told, NotAsked
<1>7. told \in Ledgers /\ \A x \in Things : Rec(told, x) = Rec(l, x)
  BY <1>4, <1>6, AskedIs
<1>8. Behind(told, rd) /\ \A x \in Things : Carries(l, told, x, s, rd, le) /\ Counts(l, told, x, s, rd, le)
  BY <1>4, <1>7, SameRecords
<1>9. PICK b, n, u, said : b = begun /\ n = left /\ u = unrecorded /\ said = logged
  OBVIOUS
<1>10. /\ IsBag(b) /\ Tallied(k, s, rd, le, b) /\ Switched(k, s, rd, le, n, u, {})
       /\ Prompt => Spoken(k, s, rd, le, said)
       /\ \A e \in said : e[2] # "early"
  BY <1>1, <1>9, InAsk
<1>11. s <= s
  BY <1>2
<1>12. Tallied(l, s, rd, le, b) /\ Switched(l, s, rd, le, n, u, {})
  BY <1>2, <1>4, <1>5, <1>10, <1>11, TalliedOn, SwitchedOn
<1>13. Tallied(told, s, rd, le, b) /\ Switched(told, s, rd, le, n, u, {})
  BY <1>2, <1>4, <1>7, <1>8, <1>10, <1>11, <1>12, TalliedOn, SwitchedOn
<1>14. Prompt => Spoken(l, s, rd, le, said)
  BY <1>2, <1>4, <1>5, <1>10, <1>11, SpokenOn
<1>15. Prompt => Spoken(told, s, rd, le, said)
  BY <1>2, <1>4, <1>7, <1>8, <1>10, <1>11, <1>14, SpokenOn
<1> QED BY <1>1, <1>3, <1>4, <1>7, <1>8, <1>9, <1>13, <1>15

\* What a decision comes to, from what is told.
LEMMA DecisionsSay ==
  ASSUME Heard, pc = "ask", NEW order, NEW d \in Decisions(order), d # Stay
  PROVE  stored \in Accounts /\ Says(d, Told, stored, run.at)
<1>1. /\ Answering(readings, now) /\ run.at \in Nat /\ parked \subseteq Accounts
      /\ stored \in Accounts \cup {Nobody}
  BY InAsk DEF TypeOK
<1>2. Told \in Ledgers /\ Behind(Told, readings)
  BY ToldIs
<1>3. PICK k, s, used, cur : k = Told /\ s = run.at /\ used = UsedAsOf(now) /\ cur = stored
  OBVIOUS
<1>4. cur # Nobody /\ \E o \in BOOLEAN : d \in Judged(k, cur, [order |-> order, overridden |-> o], used, s)
  BY <1>3 DEF Decisions
<1>5. PICK policy : d \in Judged(k, cur, policy, used, s)
  BY <1>4
<1>6. Says(d, k, cur, s)
  BY <1>1, <1>2, <1>3, <1>4, <1>5, JudgedSays
<1> QED BY <1>1, <1>3, <1>4, <1>6

\* A decision that is over without a move: its ledger is kept at now, or as it was read.
LEMMA Over ==
  ASSUME Heard, pc = "ask", now' = now, readings' = readings, lastEarly' = lastEarly,
         stored' = stored, parked' = parked, pc' = "idle", run' = NoRun,
         NEW m \in Ledgers, Behind(m, readings),
         ledger' = Dropped(m, now) \/ (ledger' = ledger /\ m = Loaded),
         IsBag(left'), IsBag(begun'), IsBag(unrecorded'),
         logged' \subseteq Accounts \X Limits \X Nat \X Reasons,
         Tallied(m, run.at, readings, lastEarly, begun'),
         Switched(m, run.at, readings, lastEarly, left', unrecorded', {}),
         Prompt => Spoken(m, run.at, readings, lastEarly, logged') /\ ~repeated'
  PROVE  Heard'
<1>1. /\ TypeOK /\ Answering(readings, now) /\ Behind(ledger, readings)
      /\ now \in Nat /\ run.at \in Nat /\ run.at <= now /\ now >= Start
      /\ ledger \in Ledgers /\ lastEarly \in [Accounts -> Nat]
  BY InAsk
<1>2. PICK k, s, t, rd, le, j :
        /\ k = ledger /\ s = run.at /\ t = now /\ rd = readings /\ le = lastEarly /\ j = ledger'
  OBVIOUS
<1>3. j = Dropped(m, t) \/ (j = k /\ m = Dropped(k, s))
  BY <1>2 DEF Loaded
<1>4. /\ k \in Ledgers /\ s \in Nat /\ t \in Nat /\ s <= t /\ t >= Start /\ le \in [Accounts -> Nat]
      /\ Behind(k, rd) /\ Behind(m, rd)
  BY <1>1, <1>2
<1>5. /\ j \in Ledgers /\ Behind(j, rd)
      /\ \A x \in Things : Carries(m, j, x, t, rd, le) /\ Counts(m, j, x, t, rd, le)
  BY <1>3, <1>4, KeepsCarry
<1>6. PICK b, n, u, said : b = begun' /\ n = left' /\ u = unrecorded' /\ said = logged'
  OBVIOUS
<1>7. /\ IsBag(b) /\ Tallied(m, s, rd, le, b) /\ Switched(m, s, rd, le, n, u, {})
      /\ Prompt => Spoken(m, s, rd, le, said)
  BY <1>2, <1>6
<1>8. \A e \in said : e[2] # "early"
  BY <1>6 DEF Limits
<1>9. Tallied(j, t, rd, le, b) /\ Switched(j, t, rd, le, n, u, {})
  BY <1>4, <1>5, <1>7, TalliedOn, SwitchedOn
<1>10. Prompt => Spoken(j, t, rd, le, said)
  BY <1>4, <1>5, <1>7, <1>8, SpokenOn
<1>11. Since' = t /\ SaysSince' = t /\ Just' = {}
  BY <1>2 DEF Since, SaysSince, Just
<1>12. TypeOK'
  BY <1>1, <1>2, <1>5, NoRunIs DEF TypeOK
<1>13. Answering(readings', now')
  BY <1>1
<1>14. Behind(ledger', readings')
  BY <1>2, <1>5
<1>15. Tallied(ledger', Since', readings', lastEarly', begun')
  BY <1>2, <1>6, <1>9, <1>11
<1>16. Switched(ledger', Since', readings', lastEarly', left', unrecorded', Just')
  BY <1>2, <1>6, <1>9, <1>11
<1>17. Prompt => Spoken(ledger', SaysSince', readings', lastEarly', logged') /\ ~repeated'
  BY <1>2, <1>6, <1>10, <1>11
<1> QED BY <1>12, <1>13, <1>14, <1>15, <1>16, <1>17 DEF Heard, Guarded

\* A ledger changed is saved, and one as it was read is left.
LEMMA KeepsIs ==
  ASSUME NEW m, Keeps(m)
  PROVE  ledger' = Dropped(m, now) \/ (ledger' = ledger /\ m = Loaded)
BY DEF Keeps, Saves

\* A decision to stay, or one not kept.
LEMMA StaysGuarded ==
  ASSUME Heard, Stays \/ Stops
  PROVE  Heard'
<1>1. /\ pc = "ask" /\ pc' = "idle" /\ run' = NoRun
      /\ UNCHANGED <<now, readings, stored, parked, left, begun, unrecorded, lastEarly, logged, repeated>>
      /\ Keeps(Told) \/ ledger' = ledger
  BY DEF Stays, Stops, Tells, history, log
<1>2. /\ TypeOK /\ IsBag(left) /\ IsBag(begun) /\ IsBag(unrecorded)
      /\ logged \subseteq Accounts \X Limits \X Nat \X Reasons
      /\ stored \in Accounts \cup {Nobody} /\ parked \subseteq Accounts
      /\ Prompt => ~repeated
  BY <1>1, InAsk DEF TypeOK
<1>3. CASE ledger' = ledger
  BY <1>1, <1>2, <1>3, GuardedThen
<1>4. CASE Keeps(Told)
  <2>1. /\ Told \in Ledgers /\ Behind(Told, readings)
        /\ Tallied(Told, run.at, readings, lastEarly, begun)
        /\ Switched(Told, run.at, readings, lastEarly, left, unrecorded, {})
        /\ Prompt => Spoken(Told, run.at, readings, lastEarly, logged)
    BY <1>1, ToldIs
  <2>2. ledger' = Dropped(Told, now) \/ (ledger' = ledger /\ Told = Loaded)
    BY <1>4, KeepsIs
  <2>3. /\ IsBag(left') /\ IsBag(begun') /\ IsBag(unrecorded')
        /\ logged' \subseteq Accounts \X Limits \X Nat \X Reasons
        /\ Tallied(Told, run.at, readings, lastEarly, begun')
        /\ Switched(Told, run.at, readings, lastEarly, left', unrecorded', {})
        /\ Prompt => Spoken(Told, run.at, readings, lastEarly, logged') /\ ~repeated'
    BY <1>1, <1>2, <2>1
  <2>4. PICK m : m = Told
    OBVIOUS
  <2> QED BY <1>1, <2>1, <2>2, <2>3, <2>4, Over
<1> QED BY <1>1, <1>3, <1>4

\* Whose login is stored could not be told.
LEMMA CannotTellGuarded ==
  ASSUME Heard, CannotTell
  PROVE  Heard'
<1>1. PICK asked : asked = [at |-> run.at, failures |-> NotTold.failures + 1]
  OBVIOUS
<1>2. PICK m : m = [Loaded EXCEPT !.asked = asked]
  OBVIOUS
<1>3. /\ pc = "ask" /\ pc' = "idle" /\ run' = NoRun
      /\ UNCHANGED <<now, readings, stored, parked, left, begun, unrecorded, lastEarly, logged, repeated>>
      /\ ledger' = Dropped(m, now) \/ ledger' = ledger
  BY <1>1, <1>2 DEF CannotTell, Saves, logins, history, log
<1>4. /\ TypeOK /\ IsBag(left) /\ IsBag(begun) /\ IsBag(unrecorded) /\ ledger \in Ledgers
      /\ logged \subseteq Accounts \X Limits \X Nat \X Reasons
      /\ stored \in Accounts \cup {Nobody} /\ parked \subseteq Accounts
      /\ run.at \in Nat /\ lastEarly \in [Accounts -> Nat]
      /\ Prompt => ~repeated
      /\ \A e \in logged : e[2] # "early"
  BY <1>3, InAsk DEF TypeOK
<1>5. CASE ledger' = ledger
  BY <1>3, <1>4, <1>5, GuardedThen
<1>6. CASE ledger' = Dropped(m, now)
  <2>1. PICK told, l, s, rd, le : told = Told /\ l = Loaded /\ s = run.at /\ rd = readings /\ le = lastEarly
    OBVIOUS
  <2>2. /\ l \in Ledgers /\ told \in Ledgers /\ Behind(l, rd) /\ Behind(told, rd) /\ s \in Nat
        /\ \A x \in Things : Rec(told, x) = Rec(l, x)
        /\ le \in [Accounts -> Nat]
    BY <1>3, <1>4, <2>1, ToldIs
  <2>3. asked \in [at : Nat, failures : Nat]
    <3>1. ledger.asked \in [at : Nat, failures : Nat]
      BY <1>4 DEF Ledgers
    <3>2. NotTold \in [at : Nat, failures : Nat]
      BY <3>1 DEF NotTold, NotAsked
    <3> QED BY <1>1, <1>4, <3>2
  <2>4. m \in Ledgers /\ \A x \in Things : Rec(m, x) = Rec(l, x)
    BY <1>2, <2>1, <2>2, <2>3, AskedIs
  <2>5. \A x \in Things : Rec(m, x) = Rec(told, x)
    BY <2>2, <2>4
  <2>6. /\ Behind(m, rd)
        /\ \A x \in Things : Carries(told, m, x, s, rd, le) /\ Counts(told, m, x, s, rd, le)
    BY <2>2, <2>4, <2>5, SameRecords
  <2>7. PICK b, n, u, said : b = begun /\ n = left /\ u = unrecorded /\ said = logged
    OBVIOUS
  <2>8. /\ IsBag(b) /\ Tallied(told, s, rd, le, b) /\ Switched(told, s, rd, le, n, u, {})
        /\ Prompt => Spoken(told, s, rd, le, said)
        /\ \A e \in said : e[2] # "early"
    BY <1>3, <1>4, <2>1, <2>7, ToldIs
  <2>9. s <= s
    BY <2>2
  <2>10. Tallied(m, s, rd, le, b) /\ Switched(m, s, rd, le, n, u, {})
    BY <2>2, <2>4, <2>6, <2>8, <2>9, TalliedOn, SwitchedOn
  <2>11. Prompt => Spoken(m, s, rd, le, said)
    BY <2>2, <2>4, <2>6, <2>8, <2>9, SpokenOn
  <2>12. /\ IsBag(left') /\ IsBag(begun') /\ IsBag(unrecorded')
         /\ logged' \subseteq Accounts \X Limits \X Nat \X Reasons
         /\ Behind(m, readings)
         /\ Tallied(m, run.at, readings, lastEarly, begun')
         /\ Switched(m, run.at, readings, lastEarly, left', unrecorded', {})
         /\ Prompt => Spoken(m, run.at, readings, lastEarly, logged') /\ ~repeated'
    BY <1>3, <1>4, <2>1, <2>6, <2>7, <2>10, <2>11
  <2> QED BY <1>3, <1>6, <2>4, <2>12, Over
<1> QED BY <1>3, <1>5, <1>6

\* A reason logged is of the limit it was kept for.
LEMMA LogIs ==
  ASSUME NEW a, NEW l, NEW r, NEW why, NEW hold, hold = Hold(l, r, why), Log(a, hold)
  PROVE  /\ logged' = logged \cup {<<a, l, EndOf(a, l, r), why>>}
         /\ repeated' = (repeated \/ <<a, l, EndOf(a, l, r), why>> \in logged)
<1>1. hold.on = l /\ hold.resets = r /\ hold.why = why
  BY DEF Hold
<1> QED BY <1>1 DEF Log

\* A reason judged at s with k kept, not said before, saved in m and logged by t.
Saying(k, cur, l, r, why, s, hold, m, le, t, said) ==
  /\ k \in Ledgers /\ Behind(k, readings) /\ cur \in Accounts /\ l \in Limits /\ why \in Reasons
  /\ s \in Nat /\ t \in Nat /\ s <= t /\ le \in [Accounts -> Nat]
  /\ Current(cur, l, r, s) /\ hold = Hold(l, r, why) /\ m = Say(k, cur, hold)
  /\ Spoken(k, s, readings, le, said) /\ \A e \in said : e[2] # "early"
  /\ ~Said(k, cur, hold)

\* It is logged where it was not before.
LEMMA LogsOnce ==
  ASSUME NEW k, NEW cur, NEW l, NEW r, NEW why, NEW s, NEW hold, NEW m, NEW le, NEW t, NEW said,
         Saying(k, cur, l, r, why, s, hold, m, le, t, said),
         NEW e, e = <<cur, l, EndOf(cur, l, r), why>>
  PROVE  e \notin said /\ Spoken(m, t, readings, le, said \cup {e})
<1> /\ k \in Ledgers /\ Behind(k, readings) /\ cur \in Accounts /\ l \in Limits /\ why \in Reasons
    /\ s \in Nat /\ t \in Nat /\ s <= t /\ le \in [Accounts -> Nat]
    /\ Current(cur, l, r, s) /\ hold = Hold(l, r, why) /\ m = Say(k, cur, hold)
    /\ Spoken(k, s, readings, le, said) /\ \A d \in said : d[2] # "early"
    /\ ~Said(k, cur, hold)
  BY DEF Saying
<1>1. PICK x : x = <<cur, l, EndOf(cur, l, r)>>
  OBVIOUS
<1>2. /\ x \in Things /\ ~Gone(x, s, readings, le) /\ m \in Ledgers
      /\ \A y \in Things : \A z : Carries(k, m, y, z, readings, le) /\ Counts(k, m, y, z, readings, le)
      /\ Kept(m, x, le) /\ why \in Rec(m, x).said
      /\ Kept(k, x, le) => (Said(k, cur, hold) <=> why \in Rec(k, x).said)
  BY <1>1, Speaks
<1>3. e \notin said
  <2> SUFFICES ASSUME e \in said PROVE FALSE
    OBVIOUS
  <2>1. /\ x = <<e[1], e[2], e[3]>> /\ e[4] = why
    BY <1>1
  <2>2. Kept(k, x, le) /\ why \in Rec(k, x).said
    BY <1>2, <2>1 DEF Spoken
  <2> QED BY <1>2, <2>2
<1>4. PICK rd : rd = readings
  OBVIOUS
<1>5. Spoken(m, t, rd, le, said)
  BY <1>2, <1>4, SpokenOn
<1>6. ASSUME NEW d \in said \cup {e}, NEW y, y = <<d[1], d[2], d[3]>>
      PROVE  y \in Things /\ (Gone(y, t, rd, le) \/ (Kept(m, y, le) /\ d[4] \in Rec(m, y).said))
  <2>1. CASE d = e
    <3>1. y = x /\ d[4] = why
      BY <1>1, <1>6, <2>1
    <3> QED BY <1>2, <3>1
  <2>2. CASE d \in said
    BY <1>5, <1>6, <2>2 DEF Spoken
  <2> QED BY <2>1, <2>2
<1>7. Spoken(m, t, rd, le, said \cup {e})
  BY <1>6 DEF Spoken
<1> QED BY <1>3, <1>4, <1>7

\* A reason not to switch.
LEMMA HoldsGuarded ==
  ASSUME Heard, Holds
  PROVE  Heard'
<1>1. PICK order, hold :
        /\ order \in Orders /\ hold \in Decisions(order)
        /\ hold.do = "hold"
        /\ Keeps(Say(Met(Told, stored), stored, hold))
        /\ IF Said(Told, stored, hold) THEN UNCHANGED log ELSE Log(stored, hold)
        /\ MetLimit(stored)
  BY DEF Holds
<1>2. /\ pc = "ask" /\ pc' = "idle" /\ run' = NoRun
      /\ UNCHANGED <<now, readings, stored, parked, lastEarly>>
      /\ left' = Without(left, {stored}) /\ unrecorded' = Without(unrecorded, {stored})
      /\ begun' = Without(begun, {stored})
  BY <1>1 DEF Holds, Tells, MetLimit, Forgets
<1>3. hold # Stay
  BY <1>1 DEF Stay
<1>4. stored \in Accounts /\ Says(hold, Told, stored, run.at)
  BY <1>1, <1>2, <1>3, DecisionsSay
<1>5. PICK l \in Limits, r \in Nat, why \in Reasons :
        hold = Hold(l, r, why) /\ Current(stored, l, r, run.at)
  BY <1>1, <1>3, <1>4 DEF Says, Move
<1>6. PICK told, met, cur, s, rd, le :
        told = Told /\ met = Met(told, cur) /\ cur = stored /\ s = run.at /\ rd = readings /\ le = lastEarly
  OBVIOUS
<1>7. /\ told \in Ledgers /\ Behind(told, rd) /\ cur \in Accounts /\ s \in Nat /\ le \in [Accounts -> Nat]
      /\ Current(cur, l, r, s) /\ s <= s
  BY <1>2, <1>4, <1>5, <1>6, ToldIs, InAsk
<1>8. PICK b, n, u, said, b2, n2, u2 :
        /\ b = begun /\ n = left /\ u = unrecorded /\ said = logged
        /\ b2 = Without(b, {cur}) /\ n2 = Without(n, {cur}) /\ u2 = Without(u, {cur})
  OBVIOUS
<1>9. /\ IsBag(b) /\ IsBag(n) /\ IsBag(u)
      /\ Tallied(told, s, rd, le, b) /\ Switched(told, s, rd, le, n, u, {})
      /\ Prompt => Spoken(told, s, rd, le, said) /\ ~repeated
      /\ \A e \in said : e[2] # "early"
      /\ said \subseteq Accounts \X Limits \X Nat \X Reasons
  BY <1>2, <1>6, <1>8, ToldIs, InAsk DEF TypeOK
<1>10. /\ met \in Ledgers /\ Behind(met, rd)
       /\ \A x \in Things : Rec(met, x) = Rec(told, x) \/ (x[1] \in {cur} /\ x[2] = "early")
       /\ \A x \in Things : \A t : x[2] # "early" => Carries(told, met, x, t, rd, le)
  BY <1>6, <1>7, MetClears
<1>11. Tallied(met, s, rd, le, b2) /\ Switched(met, s, rd, le, n2, u2, {})
  BY <1>7, <1>8, <1>9, <1>10, Clears
<1>12. IsBag(b2) /\ IsBag(n2) /\ IsBag(u2)
  BY <1>8, <1>9, Forgotten
<1>13. Prompt => Spoken(met, s, rd, le, said)
  BY <1>7, <1>9, <1>10, SpokenOn
<1>14. PICK m : m = Say(met, cur, hold)
  OBVIOUS
<1>15. PICK x : x = <<cur, l, EndOf(cur, l, r)>>
  OBVIOUS
<1>16. /\ x \in Things /\ m \in Ledgers /\ Behind(m, rd)
       /\ \A y \in Things : \A t : Carries(met, m, y, t, rd, le) /\ Counts(met, m, y, t, rd, le)
  BY <1>5, <1>6, <1>7, <1>10, <1>14, <1>15, Speaks
<1>17. Tallied(m, s, rd, le, b2) /\ Switched(m, s, rd, le, n2, u2, {})
  BY <1>7, <1>10, <1>11, <1>12, <1>16, TalliedOn, SwitchedOn
<1>18. Said(told, cur, hold) <=> Said(met, cur, hold)
  <2>1. hold.on = l /\ l # "early"
    BY <1>5 DEF Hold, Limits
  <2>2. met.limits = told.limits
    BY <1>6, <1>7 DEF Met, Ledgers
  <2> QED BY <2>1, <2>2 DEF Said
<1>19. /\ logged' \subseteq Accounts \X Limits \X Nat \X Reasons
       /\ Prompt => Spoken(m, s, rd, le, logged') /\ ~repeated'
  <2>1. CASE Said(told, cur, hold)
    <3>1. logged' = said /\ repeated' = repeated
      BY <1>1, <1>6, <1>8, <2>1 DEF log
    <3>2. Prompt => Spoken(m, s, rd, le, said)
      BY <1>7, <1>9, <1>10, <1>13, <1>16, SpokenOn
    <3> QED BY <1>9, <3>1, <3>2
  <2>2. CASE ~Said(told, cur, hold)
    <3>1. PICK e : e = <<cur, l, EndOf(cur, l, r), why>>
      OBVIOUS
    <3>2. Log(stored, hold)
      BY <1>1, <1>6, <2>2
    <3>3. logged' = said \cup {e} /\ repeated' = (repeated \/ e \in said)
      BY <1>5, <1>6, <1>8, <3>1, <3>2, LogIs
    <3>4. EndOf(cur, l, r) \in Nat
      BY <1>7, LegitIs DEF Current
    <3>5. Prompt => e \notin said /\ Spoken(m, s, rd, le, said \cup {e})
      <4>1. Prompt => Saying(met, cur, l, r, why, s, hold, m, le, s, said)
        BY <1>5, <1>6, <1>7, <1>9, <1>10, <1>13, <1>14, <1>18, <2>2 DEF Saying
      <4> QED BY <1>6, <3>1, <4>1, LogsOnce
    <3>6. said \cup {e} \subseteq Accounts \X Limits \X Nat \X Reasons
      BY <1>7, <1>9, <3>1, <3>4
    <3> QED BY <1>9, <3>3, <3>5, <3>6
  <2> QED BY <2>1, <2>2
<1>20. ledger' = Dropped(m, now) \/ (ledger' = ledger /\ m = Loaded)
  <2>1. Keeps(m)
    BY <1>1, <1>6, <1>14
  <2> QED BY <2>1, KeepsIs
<1>21. /\ IsBag(left') /\ IsBag(begun') /\ IsBag(unrecorded') /\ Behind(m, readings)
       /\ Tallied(m, run.at, readings, lastEarly, begun')
       /\ Switched(m, run.at, readings, lastEarly, left', unrecorded', {})
       /\ Prompt => Spoken(m, run.at, readings, lastEarly, logged') /\ ~repeated'
  <2>1. begun' = b2 /\ left' = n2 /\ unrecorded' = u2
    BY <1>2, <1>6, <1>8
  <2> QED BY <1>6, <1>12, <1>16, <1>17, <1>19, <2>1
<1> QED BY <1>2, <1>16, <1>19, <1>20, <1>21, Over

\* What is said of limits is whatever moves before the share were begun.
LEMMA SpokenElse ==
  ASSUME NEW k, NEW t, NEW rd, NEW le, NEW le2, NEW said, Spoken(k, t, rd, le, said),
         \A e \in said : e[2] # "early"
  PROVE  Spoken(k, t, rd, le2, said)
<1> SUFFICES ASSUME NEW e \in said, NEW x, x = <<e[1], e[2], e[3]>>
             PROVE  x \in Things /\ (Gone(x, t, rd, le2) \/ (Kept(k, x, le2) /\ e[4] \in Rec(k, x).said))
  BY DEF Spoken
<1>1. x \in Things /\ (Gone(x, t, rd, le) \/ (Kept(k, x, le) /\ e[4] \in Rec(k, x).said))
  BY DEF Spoken
<1>2. x[3] # 0
  BY <1>1, ThingIs
<1> QED BY <1>1, <1>2 DEF Gone, Kept

\* A save in time drops nothing still decided about.
LEMMA PromptCarries ==
  ASSUME Prompt, NEW m \in Ledgers, NEW s \in Nat, NEW t \in Nat, t >= Start, t <= s + Lasting,
         NEW le \in [Accounts -> Nat], NEW rd, Behind(m, rd), NEW x \in Things, x[2] # "early"
  PROVE  Carries(m, Dropped(m, t), x, s, rd, le)
<1>1. CASE Rec(Dropped(m, t), x) = Rec(m, x)
  BY <1>1 DEF Carries, Kept, RecEnd
<1>2. CASE Rec(Dropped(m, t), x) # Rec(m, x)
  <2> SUFFICES ASSUME Kept(m, x, le) PROVE Gone(x, s, rd, le)
    BY DEF Carries
  <2>1. x[3] # 0 /\ x[3] \in Nat
    BY ThingIs
  <2>2. x[3] + Same <= t
    BY <1>2, <2>1, DroppedEnded
  <2>3. x[3] + Jitter <= s
    BY <2>1, <2>2, AutoSwitchBounds DEF Prompt
  <2> QED BY <2>1, <2>3 DEF Gone
<1> QED BY <1>1, <1>2

\* An attempt at a move.
LEMMA MovesGuarded ==
  ASSUME Heard, Moves
  PROVE  Heard'
<1>1. PICK order, move :
        /\ order \in Orders /\ move \in Decisions(order)
        /\ move.do = "move"
        /\ LET plan == move.plan
               away == plan.on # "early"
               over == IF away THEN {stored} ELSE IF Rested(plan, run.at) THEN {plan.to} ELSE {}
               kept == IF away THEN Met(Told, stored) ELSE Told
           IN  /\ run' = [run EXCEPT !.order = order, !.plan = plan]
               /\ Saves(Attempted(kept, plan, run.at))
               /\ begun' = BagAdd(Without(begun, over), Thing(plan)) /\ Forgets(over)
               /\ lastEarly' = IF away THEN lastEarly ELSE [lastEarly EXCEPT ![plan.to] = run.at]
  BY DEF Moves
<1>2. /\ pc = "ask" /\ pc' = "switching"
      /\ UNCHANGED <<now, readings, stored, parked, logged, repeated>>
  BY DEF Moves, Tells, log
<1>3. PICK plan, told, s, rd, le, cur, t :
        /\ plan = move.plan /\ told = Told /\ s = run.at /\ rd = readings /\ le = lastEarly
        /\ cur = stored /\ t = now
  OBVIOUS
<1>4. PICK kept, over :
        /\ kept = IF plan.on # "early" THEN Met(told, cur) ELSE told
        /\ over = IF plan.on # "early" THEN {cur} ELSE IF Rested(plan, s) THEN {plan.to} ELSE {}
  OBVIOUS
<1>5. PICK x, m, j, le2 :
        /\ x = Thing(plan) /\ m = Attempted(kept, plan, s) /\ j = Dropped(m, t)
        /\ le2 = IF plan.on # "early" THEN le ELSE [le EXCEPT ![plan.to] = s]
  OBVIOUS
<1>6. /\ run' = [run EXCEPT !.order = order, !.plan = plan]
      /\ ledger' = j
      /\ begun' = BagAdd(Without(begun, over), x)
      /\ left' = Without(left, over) /\ unrecorded' = Without(unrecorded, over)
      /\ lastEarly' = le2
  BY <1>1, <1>3, <1>4, <1>5 DEF Saves, Forgets
<1>7. move # Stay
  BY <1>1 DEF Stay
<1>8. stored \in Accounts /\ Says(move, Told, stored, run.at)
  BY <1>1, <1>2, <1>7, DecisionsSay
<1>9. PICK p : move = Move(p) /\ p.from = stored /\ Decided(p, run.at) /\ Open(TriedFor(Told, p))
  BY <1>1, <1>7, <1>8 DEF Says, Hold
<1>10. p = plan
  BY <1>3, <1>9 DEF Move
<1>11. /\ cur \in Accounts /\ plan.from = cur /\ Decided(plan, s) /\ Open(TriedFor(told, plan))
  BY <1>3, <1>8, <1>9, <1>10
<1>12. /\ told \in Ledgers /\ Behind(told, rd) /\ s \in Nat /\ t \in Nat /\ s <= t /\ t >= Start /\ s >= Start
       /\ le \in [Accounts -> Nat] /\ s <= s /\ t <= s + Lasting
  BY <1>2, <1>3, ToldIs, InAsk DEF TypeOK
<1>13. PICK b, n, u, said, b2, n2, u2 :
        /\ b = begun /\ n = left /\ u = unrecorded /\ said = logged
        /\ b2 = Without(b, over) /\ n2 = Without(n, over) /\ u2 = Without(u, over)
  OBVIOUS
<1>14. /\ IsBag(b) /\ IsBag(n) /\ IsBag(u)
       /\ Tallied(told, s, rd, le, b) /\ Switched(told, s, rd, le, n, u, {})
       /\ Prompt => Spoken(told, s, rd, le, said) /\ ~repeated
       /\ \A e \in said : e[2] # "early"
       /\ said \subseteq Accounts \X Limits \X Nat \X Reasons
  BY <1>2, <1>3, <1>13, ToldIs, InAsk DEF TypeOK
<1>15. /\ plan \in Plans /\ plan.from \in Accounts /\ plan.to \in Accounts /\ x \in Things
       /\ x[2] = "early" <=> plan.on = "early"
       /\ plan.on = "early" => x[1] = plan.to
       /\ x[3] = 0 => plan.resets = 0 /\ x[2] = "early"
       /\ x[3] # 0 => ~Gone(x, s, rd, le)
  BY <1>3, <1>5, <1>11, <1>12, DecidedIs
<1>16. /\ kept \in Ledgers /\ Behind(kept, rd)
       /\ \A y \in Things : Rec(kept, y) = Rec(told, y) \/ (y[1] \in over /\ y[2] = "early")
       /\ \A y \in Things : \A z : y[2] # "early" => Carries(told, kept, y, z, rd, le)
       /\ Open(TriedFor(kept, plan))
  <2>1. CASE plan.on # "early"
    <3>1. kept = Met(told, cur) /\ over = {cur}
      BY <1>4, <2>1
    <3>2. kept.limits = told.limits
      BY <1>12, <3>1 DEF Met, Ledgers
    <3>3. Open(TriedFor(kept, plan))
      BY <1>11, <2>1, <3>2 DEF TriedFor
    <3> QED BY <1>11, <1>12, <3>1, <3>3, MetClears
  <2>2. CASE plan.on = "early"
    <3>1. kept = told
      BY <1>4, <2>2
    <3> QED BY <1>11, <1>12, <3>1 DEF Carries
  <2> QED BY <2>1, <2>2
<1>17. Tallied(kept, s, rd, le, b2) /\ Switched(kept, s, rd, le, n2, u2, {})
  BY <1>12, <1>13, <1>14, <1>16, Clears
<1>18. IsBag(b2) /\ IsBag(n2) /\ IsBag(u2)
  BY <1>13, <1>14, Forgotten
<1>19. Gone(x, s, rd, le) => Times(x, b2) = 0 /\ Times(x, n2) = 0
  <2> SUFFICES ASSUME Gone(x, s, rd, le) PROVE Times(x, b2) = 0 /\ Times(x, n2) = 0
    OBVIOUS
  <2>1. x[3] = 0 /\ plan.resets = 0 /\ plan.on = "early" /\ x[1] = plan.to /\ x[2] = "early"
    BY <1>15
  <2>2. s - le[plan.to] >= Length["weekly"]
    BY <2>1 DEF Gone
  <2>3. Rested(plan, s)
    BY <1>3, <2>1, <2>2 DEF Rested
  <2>4. over = {plan.to}
    BY <1>4, <2>1, <2>3
  <2> QED BY <1>13, <1>14, <1>15, <2>1, <2>4, Forgotten
<1>20. /\ j \in Ledgers /\ Behind(j, rd) /\ m \in Ledgers /\ Behind(m, rd)
       /\ Planned(plan, j, t, rd, le2)
       /\ Tallied(j, t, rd, le2, BagAdd(b2, x))
       /\ Switched(j, t, rd, le2, n2, u2, {})
       /\ Times(x, n2) <= Times(x, u2)
       /\ \A y \in Things : \A z : y[2] # "early" => Carries(kept, m, y, z, rd, le)
  <2>1. /\ rd = readings /\ Behind(kept, readings)
        /\ Tallied(kept, s, readings, le, b2) /\ Switched(kept, s, readings, le, n2, u2, {})
        /\ Gone(x, s, readings, le) => Times(x, b2) = 0 /\ Times(x, n2) = 0
    BY <1>3, <1>16, <1>17, <1>19
  <2>2. /\ j \in Ledgers /\ Behind(j, readings) /\ m \in Ledgers /\ Behind(m, readings)
        /\ Planned(plan, j, t, readings, le2)
        /\ Tallied(j, t, readings, le2, BagAdd(b2, x))
        /\ Switched(j, t, readings, le2, n2, u2, {})
        /\ Times(x, n2) <= Times(x, u2)
        /\ \A y \in Things : \A z : y[2] # "early" => Carries(kept, m, y, z, readings, le)
    <3>1. kept \in Ledgers /\ Open(TriedFor(kept, plan)) /\ Decided(plan, s)
      BY <1>11, <1>16
    <3>2. le \in [Accounts -> Nat] /\ s \in Nat /\ t \in Nat /\ s <= t /\ t >= Start
      BY <1>12
    <3>3. /\ x = Thing(plan) /\ m = Attempted(kept, plan, s) /\ j = Dropped(m, t)
          /\ le2 = IF plan.on # "early" THEN le ELSE [le EXCEPT ![plan.to] = s]
      BY <1>5
    <3>4. Attempting(kept, le, s, t, plan, x, b2, n2, u2, le2, m, j)
      BY <1>18, <2>1, <3>1, <3>2, <3>3 DEF Attempting
    <3> QED BY <3>4, AttemptIs
  <2> QED BY <2>1, <2>2
<1>21. Prompt => Spoken(j, s, rd, le2, said)
  <2> SUFFICES ASSUME Prompt PROVE Spoken(j, s, rd, le2, said)
    OBVIOUS
  <2>1. Spoken(kept, s, rd, le, said)
    BY <1>12, <1>14, <1>16, SpokenOn
  <2>2. Spoken(m, s, rd, le, said)
    BY <1>12, <1>14, <1>16, <1>20, <2>1, SpokenOn
  <2>3. \A y \in Things : y[2] # "early" => Carries(m, j, y, s, rd, le)
    BY <1>5, <1>12, <1>20, PromptCarries
  <2>4. Spoken(j, s, rd, le, said)
    BY <1>12, <1>14, <1>20, <2>2, <2>3, SpokenOn
  <2> QED BY <1>14, <2>4, SpokenElse
<1>22. IsBag(BagAdd(b2, x))
  BY <1>15, <1>18, OneMore
<1>23. /\ run'.plan = plan /\ run'.at = s
       /\ run' \in [at : Nat, order : {"most-left", "resets-soonest"}, plan : Plans]
  <2>1. run \in [at : Nat, order : {"most-left", "resets-soonest"}, plan : Plans]
    BY <1>2, InAsk DEF TypeOK
  <2>2. order \in {"most-left", "resets-soonest"}
    BY <1>1, AutoSwitchAssumption
  <2> QED BY <1>3, <1>6, <1>15, <2>1, <2>2
<1>24. Since' = t /\ SaysSince' = s /\ Just' = {}
  BY <1>2, <1>3, <1>23 DEF Since, SaysSince, Just
<1>25. le2 \in [Accounts -> Nat]
  BY <1>5, <1>12, <1>15
<1>26. TypeOK'
  <2>1. TypeOK
    BY <1>2, InAsk
  <2>2. /\ now' = t /\ stored' = stored /\ parked' = parked /\ lastEarly' = le2 /\ ledger' = j
        /\ pc' = "switching" /\ begun' = BagAdd(b2, x) /\ left' = n2 /\ unrecorded' = u2
        /\ logged' = said
    BY <1>2, <1>3, <1>6, <1>13
  <2> QED BY <1>12, <1>14, <1>18, <1>20, <1>22, <1>23, <1>25, <2>1, <2>2 DEF TypeOK
<1>27. Answering(readings', now')
  BY <1>2, InAsk
<1>28. Behind(ledger', readings')
  BY <1>2, <1>3, <1>6, <1>20
<1>29. Planned(run'.plan, ledger', now', readings', lastEarly')
  BY <1>2, <1>3, <1>6, <1>20, <1>23
<1>30. Tallied(ledger', Since', readings', lastEarly', begun')
  BY <1>2, <1>3, <1>6, <1>13, <1>20, <1>24
<1>31. Switched(ledger', Since', readings', lastEarly', left', unrecorded', Just')
  BY <1>2, <1>3, <1>6, <1>13, <1>20, <1>24
<1>32. Times(Thing(run'.plan), left') <= Times(Thing(run'.plan), unrecorded')
  BY <1>5, <1>6, <1>13, <1>20, <1>23
<1>33. Prompt => Spoken(ledger', SaysSince', readings', lastEarly', logged') /\ ~repeated'
  BY <1>2, <1>3, <1>6, <1>13, <1>14, <1>21, <1>24
<1> QED BY <1>2, <1>26, <1>27, <1>28, <1>29, <1>30, <1>31, <1>32, <1>33 DEF Heard, Guarded

-----------------------------------------------------------------------------
(* A switch under way. *)

\* What Heard says then.
LEMMA InSwitch ==
  ASSUME Heard, pc \in {"switching", "switched"}
  PROVE  /\ TypeOK /\ Answering(readings, now) /\ Behind(ledger, readings)
         /\ now \in Nat /\ now >= Start /\ run.at \in Nat /\ run.at <= now
         /\ ledger \in Ledgers /\ lastEarly \in [Accounts -> Nat]
         /\ IsBag(left) /\ IsBag(begun) /\ IsBag(unrecorded)
         /\ run.plan \in Plans /\ Planned(run.plan, ledger, now, readings, lastEarly)
         /\ run.plan.from \in Accounts /\ run.plan.to \in Accounts /\ Thing(run.plan) \in Things
         /\ Tallied(ledger, now, readings, lastEarly, begun)
         /\ Switched(ledger, now, readings, lastEarly, left, unrecorded, Just)
         /\ logged \subseteq Accounts \X Limits \X Nat \X Reasons
         /\ \A e \in logged : e[2] # "early"
         /\ Prompt => Spoken(ledger, SaysSince, readings, lastEarly, logged) /\ ~repeated
         /\ SaysSince \in Nat /\ SaysSince <= now
<1>1. TypeOK /\ Start \in Nat
  BY AutoSwitchBounds DEF Heard, Guarded
<1>2. \A e \in logged : e[2] # "early"
  BY <1>1 DEF TypeOK, Limits
<1>3. run.at \in Nat /\ now \in Nat /\ run.plan \in Plans
  BY <1>1 DEF TypeOK
<1>4. Since = now
  BY DEF Since
<1>5. SaysSince \in Nat /\ SaysSince <= now
  BY <1>1, <1>3 DEF SaysSince, TypeOK
<1>6. Planned(run.plan, ledger, now, readings, lastEarly)
  BY DEF Heard, Guarded
<1>7. run.plan.from \in Accounts /\ run.plan.to \in Accounts /\ Thing(run.plan) \in Things
  BY <1>6 DEF Planned
<1> QED BY <1>1, <1>2, <1>3, <1>4, <1>5, <1>6, <1>7 DEF Heard, Guarded, TypeOK

\* What is kept when it is over, or was.
LEMMA Done ==
  ASSUME Heard, pc \in {"switching", "switched"}, now' = now, readings' = readings, lastEarly' = lastEarly,
         stored' \in Accounts \cup {Nobody}, parked' \subseteq Accounts,
         pc' \in {"idle", "cut"}, run' = NoRun,
         NEW m \in Ledgers, Behind(m, readings),
         ledger' = Dropped(m, now) \/ (ledger' = ledger /\ m = ledger),
         IsBag(left'), IsBag(begun'), IsBag(unrecorded'),
         logged' \subseteq Accounts \X Limits \X Nat \X Reasons,
         Tallied(m, now, readings, lastEarly, begun'),
         Switched(m, now, readings, lastEarly, left', unrecorded', {}),
         Prompt => Spoken(m, now, readings, lastEarly, logged') /\ ~repeated'
  PROVE  Heard'
<1>1. /\ TypeOK /\ Answering(readings, now) /\ now \in Nat /\ now >= Start
      /\ lastEarly \in [Accounts -> Nat]
  BY InSwitch
<1>2. PICK t, rd, le, j : t = now /\ rd = readings /\ le = lastEarly /\ j = ledger'
  OBVIOUS
<1>3. /\ j \in Ledgers /\ Behind(j, rd)
      /\ \A x \in Things : Carries(m, j, x, t, rd, le) /\ Counts(m, j, x, t, rd, le)
  <2>1. CASE j = Dropped(m, t)
    BY <1>1, <1>2, <2>1, DroppedIs, DroppedBehind, DroppedCarries
  <2>2. CASE j = m
    BY <1>1, <1>2, <2>2, SameRecords
  <2> QED BY <1>2, <2>1, <2>2
<1>4. PICK b, n, u, said : b = begun' /\ n = left' /\ u = unrecorded' /\ said = logged'
  OBVIOUS
<1>5. /\ IsBag(b) /\ Tallied(m, t, rd, le, b) /\ Switched(m, t, rd, le, n, u, {})
      /\ Prompt => Spoken(m, t, rd, le, said)
      /\ t \in Nat /\ t <= t /\ le \in [Accounts -> Nat]
  BY <1>1, <1>2, <1>4
<1>6. \A e \in said : e[2] # "early"
  BY <1>4 DEF Limits
<1>7. Tallied(j, t, rd, le, b) /\ Switched(j, t, rd, le, n, u, {})
  BY <1>3, <1>5, TalliedOn, SwitchedOn
<1>8. Prompt => Spoken(j, t, rd, le, said)
  BY <1>3, <1>5, <1>6, SpokenOn
<1>9. Since' = t /\ SaysSince' = t /\ Just' = {}
  BY <1>2 DEF Since, SaysSince, Just
<1>10. TypeOK'
  BY <1>1, <1>2, <1>3, NoRunIs DEF TypeOK
<1>11. Answering(readings', now')
  BY <1>1
<1>12. Behind(ledger', readings')
  BY <1>2, <1>3
<1>13. Tallied(ledger', Since', readings', lastEarly', begun')
  BY <1>2, <1>4, <1>7, <1>9
<1>14. Switched(ledger', Since', readings', lastEarly', left', unrecorded', Just')
  BY <1>2, <1>4, <1>7, <1>9
<1>15. Prompt => Spoken(ledger', SaysSince', readings', lastEarly', logged') /\ ~repeated'
  BY <1>2, <1>4, <1>8, <1>9
<1> QED BY <1>10, <1>11, <1>12, <1>13, <1>14, <1>15 DEF Heard, Guarded

\* A switch is made for a thing not yet switched for, but for the switches lost.
LEMMA SwitchesGuarded ==
  ASSUME Heard, Switches \/ CutShort
  PROVE  Heard'
<1>1. /\ pc = "switching" /\ stored = run.plan.from
      /\ UNCHANGED <<now, readings, ledger, begun, lastEarly, logged, repeated>>
      /\ stored' = run.plan.to /\ parked' = (parked \ {run.plan.to}) \cup ({stored} \ {Nobody})
      /\ left' = BagAdd(left, Thing(run.plan))
      /\ \/ pc' = "switched" /\ UNCHANGED <<run, unrecorded>>
         \/ /\ pc' = "cut" /\ run' = NoRun
            /\ unrecorded' = BagAdd(unrecorded, Thing(run.plan))
  <2>1. CASE Switches
    BY <2>1 DEF Switches, PutInUse, log
  <2>2. CASE CutShort
    <3>1. run.plan.from \in Accounts
      BY <2>2, InSwitch DEF CutShort
    <3>2. {stored} \ {Nobody} = {stored}
      BY <2>2, <3>1, AutoSwitchBounds DEF CutShort
    <3> QED BY <2>2, <3>2 DEF CutShort, log
  <2> QED BY <2>1, <2>2
<1>2. PICK x, k, t, rd, le, b, n, u, said :
        /\ x = Thing(run.plan) /\ k = ledger /\ t = now /\ rd = readings /\ le = lastEarly
        /\ b = begun /\ n = left /\ u = unrecorded /\ said = logged
  OBVIOUS
<1>3. /\ TypeOK /\ Answering(readings, now) /\ Behind(k, rd) /\ t \in Nat /\ t >= Start
      /\ k \in Ledgers /\ le \in [Accounts -> Nat] /\ IsBag(n) /\ IsBag(u) /\ IsBag(b)
      /\ Planned(run.plan, k, t, rd, le)
      /\ run.plan.from \in Accounts /\ run.plan.to \in Accounts /\ x \in Things
      /\ Tallied(k, t, rd, le, b) /\ Switched(k, t, rd, le, n, u, {})
      /\ said \subseteq Accounts \X Limits \X Nat \X Reasons
      /\ \A e \in said : e[2] # "early"
      /\ Times(x, n) <= Times(x, u)
  <2>1. Just = {}
    BY <1>1 DEF Just
  <2>2. Times(Thing(run.plan), left) <= Times(Thing(run.plan), unrecorded)
    BY <1>1 DEF Heard, Guarded
  <2> QED BY <1>1, <1>2, <2>1, <2>2, InSwitch
<1>4. /\ IsBag(BagAdd(n, x)) /\ IsBag(BagAdd(u, x))
      /\ \A y \in Things : Times(y, BagAdd(n, x)) = IF y = x THEN Times(x, n) + 1 ELSE Times(y, n)
      /\ \A y \in Things : Times(y, BagAdd(u, x)) = IF y = x THEN Times(x, u) + 1 ELSE Times(y, u)
  BY <1>3, OneMore
<1>5. Times(x, n) \in Nat /\ Times(x, u) \in Nat
  BY <1>3, TimesIs
<1>6. Prompt => Spoken(k, t, rd, le, said) /\ ~repeated
  <2>1. PICK s : s = SaysSince
    OBVIOUS
  <2>2. s \in Nat /\ s <= t /\ (Prompt => Spoken(k, s, rd, le, said) /\ ~repeated)
    BY <1>1, <1>2, <2>1, InSwitch
  <2>3. \A y \in Things : Carries(k, k, y, t, rd, le)
    BY DEF Carries
  <2> QED BY <1>3, <2>2, <2>3, SpokenOn
<1>7. stored' \in Accounts \cup {Nobody} /\ parked' \subseteq Accounts
  BY <1>1, <1>3 DEF TypeOK
<1>8. CASE pc' = "switched" /\ UNCHANGED <<run, unrecorded>>
  <2>1. Switched(k, t, rd, le, BagAdd(n, x), u, {x})
    BY <1>3, <1>4, <1>5 DEF Switched
  <2>2. Since' = t /\ SaysSince' = t /\ Just' = {x}
    BY <1>1, <1>2, <1>8 DEF Since, SaysSince, Just
  <2>3. TypeOK'
    BY <1>1, <1>2, <1>3, <1>4, <1>7, <1>8 DEF TypeOK
  <2>4. Answering(readings', now')
    BY <1>1, <1>3
  <2>5. Behind(ledger', readings')
    BY <1>1, <1>2, <1>3
  <2>6. Planned(run'.plan, ledger', now', readings', lastEarly')
    BY <1>1, <1>2, <1>3, <1>8
  <2>7. Tallied(ledger', Since', readings', lastEarly', begun')
    BY <1>1, <1>2, <1>3, <2>2
  <2>8. Switched(ledger', Since', readings', lastEarly', left', unrecorded', Just')
    BY <1>1, <1>2, <1>8, <2>1, <2>2
  <2>9. Prompt => Spoken(ledger', SaysSince', readings', lastEarly', logged') /\ ~repeated'
    BY <1>1, <1>2, <1>6, <2>2
  <2> QED BY <1>8, <2>3, <2>4, <2>5, <2>6, <2>7, <2>8, <2>9 DEF Heard, Guarded
<1>9. CASE pc' = "cut" /\ run' = NoRun /\ unrecorded' = BagAdd(unrecorded, Thing(run.plan))
  <2>1. Switched(k, t, rd, le, BagAdd(n, x), BagAdd(u, x), {})
    <3>1. ASSUME NEW y \in Things
          PROVE  \/ Times(y, BagAdd(n, x)) <= Times(y, BagAdd(u, x))
                 \/ /\ Times(y, BagAdd(n, x)) <= 1 + Times(y, BagAdd(u, x))
                    /\ y \in {} \/ Gone(y, t, rd, le) \/ (Kept(k, y, le) /\ Rec(k, y).switched)
      <4>1. CASE y = x
        BY <1>3, <1>4, <1>5, <4>1
      <4>2. CASE y # x
        BY <1>3, <1>4, <4>2 DEF Switched
      <4> QED BY <4>1, <4>2
    <3> QED BY <3>1 DEF Switched
  <2>2. /\ IsBag(left') /\ IsBag(begun') /\ IsBag(unrecorded')
        /\ logged' \subseteq Accounts \X Limits \X Nat \X Reasons
        /\ Tallied(ledger, now, readings, lastEarly, begun')
        /\ Switched(ledger, now, readings, lastEarly, left', unrecorded', {})
        /\ Prompt => Spoken(ledger, now, readings, lastEarly, logged') /\ ~repeated'
        /\ ledger \in Ledgers /\ Behind(ledger, readings)
    BY <1>1, <1>2, <1>3, <1>4, <1>6, <1>9, <2>1
  <2>3. pc \in {"switching", "switched"} /\ pc' \in {"idle", "cut"}
    BY <1>1, <1>9
  <2>4. ledger' = ledger /\ ledger = ledger
    BY <1>1
  <2> QED BY <1>1, <1>7, <1>9, <2>2, <2>3, <2>4, Done
<1> QED BY <1>1, <1>8, <1>9

\* Writing the record of a plan under way.
LEMMA RetryingCarries ==
  ASSUME NEW k \in Ledgers, Behind(k, readings), NEW le, NEW t, NEW plan \in Plans,
         Planned(plan, k, t, readings, le), NEW x, x = Thing(plan), NEW tried, tried = TriedFor(k, plan),
         NEW new \in Tries, new.resets = tried.resets, new.at = tried.at,
         tried.switched => new.switched, tried.said \subseteq new.said,
         NEW m, m = Trying(k, plan, new)
  PROVE  /\ x \in Things /\ m \in Ledgers /\ Behind(m, readings) /\ Rec(m, x) = new
         /\ \A y \in Things : \A z : Carries(k, m, y, z, readings, le)
         /\ \A y \in Things : \A z : y # x \/ tried.attempts <= new.attempts => Counts(k, m, y, z, readings, le)
         /\ Kept(k, x, le) => tried = Rec(k, x) /\ Kept(m, x, le)
         /\ Kept(m, x, le) \/ Gone(x, t, readings, le)
<1>1. Meant(plan, k, readings, le) /\ x \in Things
  BY MeantIs DEF Planned
<1>2. /\ m \in Ledgers /\ Behind(m, readings) /\ Rec(m, x) = new /\ RecEnd(m, x) = x[3]
      /\ RecEnd(k, x) = x[3] => tried = Rec(k, x)
      /\ \A y \in Things : \A z : y # x => Carries(k, m, y, z, readings, le) /\ Counts(k, m, y, z, readings, le)
  <2>1. PICK rd : rd = readings
    OBVIOUS
  <2> QED BY <1>1, <2>1, TryingCarries
<1>3. Kept(k, x, le) => tried = Rec(k, x) /\ Kept(m, x, le)
  BY <1>2 DEF Kept
<1>4. Kept(m, x, le) \/ Gone(x, t, readings, le)
  BY <1>2, <1>3 DEF Planned
<1>5. ASSUME NEW z PROVE Carries(k, m, x, z, readings, le)
  BY <1>2, <1>3 DEF Carries
<1>6. ASSUME NEW z, tried.attempts <= new.attempts PROVE Counts(k, m, x, z, readings, le)
  BY <1>2, <1>3, <1>6 DEF Counts
<1> QED BY <1>1, <1>2, <1>3, <1>4, <1>5, <1>6

\* What is kept of the thing a plan under way is for.
LEMMA TriedForIs ==
  ASSUME NEW k \in Ledgers, NEW plan \in Plans, plan.from \in Accounts, plan.to \in Accounts,
         Thing(plan) \in Things
  PROVE  TriedFor(k, plan) \in Tries
<1>1. PICK x : x = Thing(plan)
  OBVIOUS
<1>2. New(0) \in Tries
  BY DEF New, Tries
<1>3. TriedFor(k, plan) = Of(Rec(k, x), plan.resets)
  BY <1>1, <1>2, TryingIs
<1>4. Rec(k, x) \in Tries /\ New(plan.resets) \in Tries
  BY <1>1, RecIs DEF New, Tries, Plans
<1> QED BY <1>3, <1>4 DEF Of

\* The record of a switch, or its loss.
LEMMA FinishesGuarded ==
  ASSUME Heard, Finishes
  PROVE  Heard'
<1>1. /\ pc = "switched" /\ pc' = "idle" /\ run' = NoRun
      /\ UNCHANGED <<now, readings, stored, parked, left, begun, lastEarly, logged, repeated>>
      /\ \/ ledger' = Dropped(SwitchedFor(ledger, run.plan), now) /\ unrecorded' = unrecorded
         \/ ledger' = ledger /\ unrecorded' = BagAdd(unrecorded, Thing(run.plan))
  BY DEF Finishes, Saves, logins, log
<1>2. PICK plan, x, k, t, rd, le, b, n, u, said :
        /\ plan = run.plan /\ x = Thing(plan) /\ k = ledger /\ t = now /\ rd = readings /\ le = lastEarly
        /\ b = begun /\ n = left /\ u = unrecorded /\ said = logged
  OBVIOUS
<1>3. /\ TypeOK /\ Behind(k, rd) /\ t \in Nat /\ t >= Start
      /\ k \in Ledgers /\ le \in [Accounts -> Nat] /\ IsBag(n) /\ IsBag(u) /\ IsBag(b)
      /\ plan \in Plans /\ Planned(plan, k, t, rd, le)
      /\ plan.from \in Accounts /\ plan.to \in Accounts /\ x \in Things
      /\ Tallied(k, t, rd, le, b) /\ Switched(k, t, rd, le, n, u, {x})
      /\ said \subseteq Accounts \X Limits \X Nat \X Reasons
      /\ \A e \in said : e[2] # "early"
      /\ Prompt => Spoken(k, t, rd, le, said) /\ ~repeated
  <2>1. Just = {Thing(run.plan)} /\ SaysSince = now
    BY <1>1 DEF Just, SaysSince
  <2> QED BY <1>1, <1>2, <2>1, InSwitch
<1>4. /\ stored' \in Accounts \cup {Nobody} /\ parked' \subseteq Accounts
      /\ pc \in {"switching", "switched"} /\ pc' \in {"idle", "cut"}
      /\ left' = n /\ begun' = b /\ logged' = said /\ repeated' = repeated
  BY <1>1, <1>2, <1>3 DEF TypeOK
<1>5. CASE ledger' = Dropped(SwitchedFor(ledger, run.plan), now) /\ unrecorded' = unrecorded
  <2>1. PICK tried, new, m :
          /\ tried = TriedFor(k, plan) /\ new = [tried EXCEPT !.switched = TRUE] /\ m = Trying(k, plan, new)
    OBVIOUS
  <2>2. tried \in Tries
    BY <1>2, <1>3, <2>1, TriedForIs
  <2>3. /\ new \in Tries /\ new.resets = tried.resets /\ new.at = tried.at /\ new.switched
        /\ new.said = tried.said /\ new.attempts = tried.attempts /\ tried.attempts \in Nat
    BY <2>1, <2>2 DEF Tries
  <2>4. m = SwitchedFor(k, plan)
    BY <2>1 DEF SwitchedFor
  <2>5. /\ tried.switched => new.switched
        /\ tried.said \subseteq new.said /\ tried.attempts <= new.attempts
    BY <2>3
  <2>6. /\ m \in Ledgers /\ Behind(m, rd) /\ Rec(m, x) = new
        /\ \A y \in Things : \A z : Carries(k, m, y, z, rd, le)
        /\ \A y \in Things : \A z : Counts(k, m, y, z, rd, le)
        /\ Kept(m, x, le) \/ Gone(x, t, rd, le)
    <3>1. rd = readings /\ Behind(k, readings) /\ Planned(plan, k, t, readings, le)
      BY <1>2, <1>3
    <3>2. /\ m \in Ledgers /\ Behind(m, readings) /\ Rec(m, x) = new
          /\ \A y \in Things : \A z : Carries(k, m, y, z, readings, le)
          /\ \A y \in Things : \A z : y # x \/ tried.attempts <= new.attempts => Counts(k, m, y, z, readings, le)
          /\ Kept(m, x, le) \/ Gone(x, t, readings, le)
      <4>1. k \in Ledgers /\ plan \in Plans /\ x = Thing(plan) /\ tried = TriedFor(k, plan) /\ m = Trying(k, plan, new)
        BY <1>2, <1>3, <2>1
      <4>2. new \in Tries /\ new.resets = tried.resets /\ new.at = tried.at
        BY <2>3
      <4> QED BY <2>5, <3>1, <4>1, <4>2, RetryingCarries
    <3> QED BY <2>5, <3>1, <3>2
  <2>7. t <= t
    BY <1>3
  <2>8. Tallied(m, t, rd, le, b)
    BY <1>3, <2>6, <2>7, TalliedOn
  <2>9. Switched(m, t, rd, le, n, u, {})
    <3>1. ASSUME NEW y \in Things
          PROVE  \/ Times(y, n) <= Times(y, u)
                 \/ /\ Times(y, n) <= 1 + Times(y, u)
                    /\ y \in {} \/ Gone(y, t, rd, le) \/ (Kept(m, y, le) /\ Rec(m, y).switched)
      <4>1. CASE y = x
        <5>1. Times(y, n) <= Times(y, u) \/ Times(y, n) <= 1 + Times(y, u)
          BY <1>3 DEF Switched
        <5> QED BY <2>3, <2>6, <4>1, <5>1
      <4>2. CASE y # x
        <5>1. Carries(k, m, y, t, rd, le)
          BY <2>6
        <5> QED BY <1>3, <4>2, <5>1 DEF Switched, Carries
      <4> QED BY <4>1, <4>2
    <3> QED BY <3>1 DEF Switched
  <2>10. Prompt => Spoken(m, t, rd, le, said)
    BY <1>3, <2>6, <2>7, SpokenOn
  <2>11. /\ IsBag(left') /\ IsBag(begun') /\ IsBag(unrecorded')
         /\ logged' \subseteq Accounts \X Limits \X Nat \X Reasons
         /\ Behind(m, readings)
         /\ Tallied(m, now, readings, lastEarly, begun')
         /\ Switched(m, now, readings, lastEarly, left', unrecorded', {})
         /\ Prompt => Spoken(m, now, readings, lastEarly, logged') /\ ~repeated'
         /\ ledger' = Dropped(m, now)
    BY <1>2, <1>3, <1>4, <1>5, <2>4, <2>6, <2>8, <2>9, <2>10
  <2> QED BY <1>1, <1>4, <2>6, <2>11, Done
<1>6. CASE ledger' = ledger /\ unrecorded' = BagAdd(unrecorded, Thing(run.plan))
  <2>1. /\ IsBag(BagAdd(u, x))
        /\ \A y \in Things : Times(y, BagAdd(u, x)) = IF y = x THEN Times(x, u) + 1 ELSE Times(y, u)
    BY <1>3, OneMore
  <2>2. Switched(k, t, rd, le, n, BagAdd(u, x), {})
    <3>1. ASSUME NEW y \in Things
          PROVE  \/ Times(y, n) <= Times(y, BagAdd(u, x))
                 \/ /\ Times(y, n) <= 1 + Times(y, BagAdd(u, x))
                    /\ y \in {} \/ Gone(y, t, rd, le) \/ (Kept(k, y, le) /\ Rec(k, y).switched)
      <4>1. CASE y = x
        <5>1. Times(y, n) <= Times(y, u) \/ Times(y, n) <= 1 + Times(y, u)
          BY <1>3 DEF Switched
        <5>2. Times(y, n) \in Nat /\ Times(y, u) \in Nat
          BY <1>3, TimesIs
        <5> QED BY <2>1, <4>1, <5>1, <5>2
      <4>2. CASE y # x
        BY <1>3, <2>1, <4>2 DEF Switched
      <4> QED BY <4>1, <4>2
    <3> QED BY <3>1 DEF Switched
  <2>3. /\ IsBag(left') /\ IsBag(begun') /\ IsBag(unrecorded')
        /\ logged' \subseteq Accounts \X Limits \X Nat \X Reasons
        /\ Behind(ledger, readings) /\ ledger \in Ledgers
        /\ Tallied(ledger, now, readings, lastEarly, begun')
        /\ Switched(ledger, now, readings, lastEarly, left', unrecorded', {})
        /\ Prompt => Spoken(ledger, now, readings, lastEarly, logged') /\ ~repeated'
    BY <1>2, <1>3, <1>4, <1>6, <2>1, <2>2
  <2> QED BY <1>1, <1>4, <1>6, <2>3, Done
<1> QED BY <1>1, <1>5, <1>6

\* What a refusal keeps of the thing it refused, and the attempts that count since.
LEMMA RefusedKeeps ==
  ASSUME NEW k \in Ledgers, Behind(k, readings), NEW le, NEW t, NEW plan \in Plans,
         plan.from \in Accounts, plan.to \in Accounts,
         Planned(plan, k, t, readings, le), NEW x, x = Thing(plan), NEW b, IsBag(b),
         Tallied(k, t, readings, le, b), NEW over \in {"account", "moment", "other"},
         NEW kept, kept = CASE over = "account" -> PassedOver(k, plan)
                            [] over = "moment"  -> Waited(k, plan)
                            [] over = "other"   -> k,
         NEW b2, b2 = IF over = "moment" THEN BagRemove(b, x) ELSE b
  PROVE  /\ kept \in Ledgers /\ Behind(kept, readings) /\ IsBag(b2)
         /\ Tallied(kept, t, readings, le, b2)
         /\ \A y \in Things : \A z : Carries(k, kept, y, z, readings, le)
<1>1. PICK tried : tried = TriedFor(k, plan)
  OBVIOUS
<1>2. x \in Things
  BY DEF Planned
<1>3. tried \in Tries
  BY <1>1, <1>2, TriedForIs
<1>4. /\ tried.attempts \in Nat /\ tried.waits \in Nat /\ Attempts \in Nat /\ Attempts <= Attempts
      /\ tried.attempts <= tried.attempts /\ tried.said \subseteq Reasons /\ tried.passed \subseteq Accounts
      /\ tried.resets \in Nat /\ tried.at \in Nat /\ tried.switched \in BOOLEAN
  BY <1>3, AutoSwitchBounds DEF Tries
<1>5. CASE over = "other"
  <2>1. kept = k /\ b2 = b
    BY <1>5
  <2> QED BY <2>1 DEF Carries
<1>6. ASSUME NEW new \in Tries, new.resets = tried.resets, new.at = tried.at,
             new.switched = tried.switched, new.said = tried.said,
             kept = Trying(k, plan, new)
      PROVE  /\ kept \in Ledgers /\ Behind(kept, readings) /\ Rec(kept, x) = new
             /\ \A y \in Things : \A z : Carries(k, kept, y, z, readings, le)
             /\ \A y \in Things : \A z : y # x \/ tried.attempts <= new.attempts => Counts(k, kept, y, z, readings, le)
             /\ Kept(k, x, le) => tried = Rec(k, x) /\ Kept(kept, x, le)
  BY <1>1, <1>6, RetryingCarries
<1>7. ASSUME NEW y \in Things, kept \in Ledgers, Carries(k, kept, y, t, readings, le),
             Counts(k, kept, y, t, readings, le)
      PROVE  /\ Times(y, b) <= Attempts
             /\ \/ Times(y, b) = 0 \/ Gone(y, t, readings, le)
                \/ Kept(kept, y, le) /\ Times(y, b) <= Rec(kept, y).attempts
  <2>1. Times(y, b) \in Nat /\ Rec(k, y).attempts \in Nat /\ Rec(kept, y).attempts \in Nat
    BY <1>7, TimesIs, RecIs
  <2> QED BY <1>7, <2>1 DEF Tallied, Carries, Counts
<1>8. CASE over = "account"
  <2>1. kept = PassedOver(k, plan) /\ b2 = b
    BY <1>8
  <2>2. PICK new : new = IF plan.on = "early"
                         THEN [tried EXCEPT !.waits = 0, !.attempts = IF @ < Attempts THEN Attempts ELSE @]
                         ELSE [tried EXCEPT !.waits = 0, !.passed = @ \cup {plan.to}]
    OBVIOUS
  <2>3. kept = Trying(k, plan, new)
    BY <1>1, <2>1, <2>2 DEF PassedOver
  <2>4. /\ new \in Tries /\ new.resets = tried.resets /\ new.at = tried.at /\ new.switched = tried.switched
        /\ new.said = tried.said /\ tried.attempts <= new.attempts
    <3>1. CASE plan.on = "early"
      <4>1. PICK c \in Nat : c = (IF tried.attempts < Attempts THEN Attempts ELSE tried.attempts) /\ tried.attempts <= c
        BY <1>4
      <4>2. new = [tried EXCEPT !.waits = 0, !.attempts = c]
        BY <2>2, <3>1, <4>1
      <4> QED BY <1>3, <4>1, <4>2 DEF Tries
    <3>2. CASE plan.on # "early"
      <4>1. PICK p \in SUBSET Accounts : p = tried.passed \cup {plan.to}
        BY <1>4
      <4>2. new = [tried EXCEPT !.waits = 0, !.passed = p]
        BY <2>2, <3>2, <4>1
      <4> QED BY <1>3, <1>4, <4>2 DEF Tries
    <3> QED BY <3>1, <3>2
  <2>5. /\ kept \in Ledgers /\ Behind(kept, readings)
        /\ \A y \in Things : \A z : Carries(k, kept, y, z, readings, le) /\ Counts(k, kept, y, z, readings, le)
    BY <1>6, <2>3, <2>4
  <2>6. Tallied(kept, t, readings, le, b2)
    BY <1>7, <2>1, <2>5 DEF Tallied
  <2> QED BY <2>1, <2>5, <2>6
<1>9. CASE over = "moment"
  <2>1. kept = Waited(k, plan) /\ b2 = BagRemove(b, x)
    BY <1>9
  <2>2. PICK new : new = [tried EXCEPT !.attempts = IF @ = 0 THEN 0 ELSE @ - 1, !.waits = @ + 1]
    OBVIOUS
  <2>3. kept = Trying(k, plan, new)
    BY <1>1, <2>1, <2>2 DEF Waited
  <2>4. PICK c \in Nat : c = IF tried.attempts = 0 THEN 0 ELSE tried.attempts - 1
    BY <1>4
  <2>5. /\ new \in Tries /\ new.resets = tried.resets /\ new.at = tried.at /\ new.switched = tried.switched
        /\ new.said = tried.said /\ new.attempts = c
    <3>1. PICK w \in Nat : w = tried.waits + 1
      BY <1>4
    <3>2. new = [tried EXCEPT !.attempts = c, !.waits = w]
      BY <2>2, <2>4, <3>1
    <3> QED BY <1>3, <3>2 DEF Tries
  <2>6. /\ kept \in Ledgers /\ Behind(kept, readings) /\ Rec(kept, x) = new
        /\ \A y \in Things : \A z : Carries(k, kept, y, z, readings, le)
        /\ \A y \in Things : \A z : y # x => Counts(k, kept, y, z, readings, le)
        /\ Kept(k, x, le) => tried = Rec(k, x) /\ Kept(kept, x, le)
    BY <1>6, <2>3, <2>5
  <2>7. /\ IsBag(b2)
        /\ \A y \in Things : Times(y, b2) = IF y = x /\ Times(x, b) > 0 THEN Times(x, b) - 1 ELSE Times(y, b)
    BY <1>2, <2>1, OneFewer
  <2>8. ASSUME NEW y \in Things
        PROVE  /\ Times(y, b2) <= Attempts
               /\ \/ Times(y, b2) = 0 \/ Gone(y, t, readings, le)
                  \/ Kept(kept, y, le) /\ Times(y, b2) <= Rec(kept, y).attempts
    <3>1. CASE y # x
      <4>1. Times(y, b2) = Times(y, b)
        BY <2>7, <3>1
      <4> QED BY <1>7, <2>6, <3>1, <4>1
    <3>2. CASE y = x
      <4>1. Times(x, b) \in Nat
        BY TimesIs
      <4>2. /\ Times(x, b) <= Attempts
            /\ \/ Times(x, b) = 0 \/ Gone(x, t, readings, le)
               \/ Kept(k, x, le) /\ Times(x, b) <= Rec(k, x).attempts
        BY <1>2 DEF Tallied
      <4>3. Times(x, b2) = IF Times(x, b) > 0 THEN Times(x, b) - 1 ELSE Times(x, b)
        BY <1>2, <2>7
      <4>4. Kept(k, x, le) /\ Times(x, b) <= Rec(k, x).attempts =>
              Kept(kept, x, le) /\ Times(x, b2) <= Rec(kept, x).attempts
        BY <1>4, <2>4, <2>5, <2>6, <4>1, <4>3
      <4>5. Times(x, b2) <= Attempts /\ (Times(x, b) = 0 => Times(x, b2) = 0)
        BY <1>4, <4>1, <4>2, <4>3
      <4> QED BY <3>2, <4>2, <4>4, <4>5
    <3> QED BY <3>1, <3>2
  <2> QED BY <2>6, <2>7, <2>8 DEF Tallied
<1> QED BY <1>5, <1>8, <1>9

\* A switch refused, and judged again.
LEMMA RefusedGuarded ==
  ASSUME Heard, NEW over \in {"account", "moment", "other"}, Refused(over)
  PROVE  Heard'
<1>1. PICK plan, k, kept, b2 :
        /\ plan = run.plan /\ k = ledger
        /\ kept = CASE over = "account" -> PassedOver(k, plan)
                    [] over = "moment"  -> Waited(k, plan)
                    [] over = "other"   -> k
        /\ b2 = IF over = "moment" THEN BagRemove(begun, Thing(plan)) ELSE begun
  OBVIOUS
<1>2. /\ pc = "switching" /\ pc' = "idle" /\ run' = NoRun
      /\ UNCHANGED <<now, readings, stored, parked, left, unrecorded, lastEarly>>
      /\ begun' = b2
      /\ \E d \in UNION {Judged(kept, plan.from, [order |-> run.order, overridden |-> o], lastUsed, run.at) :
                           o \in BOOLEAN} :
              IF d.do = "hold" /\ ~Said(kept, plan.from, d)
              THEN Saves(Say(kept, plan.from, d)) /\ Log(plan.from, d)
              ELSE Saves(kept) /\ UNCHANGED log
  BY <1>1 DEF Refused, logins
<1>3. PICK policy, d :
              /\ d \in Judged(kept, plan.from, policy, lastUsed, run.at)
              /\ IF d.do = "hold" /\ ~Said(kept, plan.from, d)
                 THEN Saves(Say(kept, plan.from, d)) /\ Log(plan.from, d)
                 ELSE Saves(kept) /\ UNCHANGED log
  BY <1>2
<1>4. PICK x, t, s, rd, le, b, n, u, said, used :
        /\ x = Thing(plan) /\ t = now /\ s = run.at /\ rd = readings /\ le = lastEarly
        /\ b = begun /\ n = left /\ u = unrecorded /\ said = logged /\ used = lastUsed
  OBVIOUS
<1>5. /\ TypeOK /\ Answering(readings, now) /\ Behind(k, rd) /\ t \in Nat /\ t >= Start
      /\ k \in Ledgers /\ le \in [Accounts -> Nat] /\ IsBag(n) /\ IsBag(u) /\ IsBag(b)
      /\ plan \in Plans /\ Planned(plan, k, t, rd, le)
      /\ plan.from \in Accounts /\ plan.to \in Accounts /\ x \in Things
      /\ Tallied(k, t, rd, le, b) /\ Switched(k, t, rd, le, n, u, {})
      /\ said \subseteq Accounts \X Limits \X Nat \X Reasons
      /\ \A e \in said : e[2] # "early"
      /\ s \in Nat /\ s <= t /\ s <= s /\ t <= t
      /\ Prompt => Spoken(k, s, rd, le, said) /\ ~repeated
  <2>1. Just = {} /\ SaysSince = run.at
    BY <1>2 DEF Just, SaysSince
  <2>2. s \in Nat /\ t \in Nat /\ s <= t
    BY <1>2, <1>4, InSwitch
  <2> QED BY <1>1, <1>2, <1>4, <2>1, <2>2, InSwitch
<1>6. /\ kept \in Ledgers /\ Behind(kept, rd) /\ IsBag(b2)
      /\ Tallied(kept, t, rd, le, b2)
      /\ \A y \in Things : \A z : Carries(k, kept, y, z, rd, le)
  <2>1. b2 = IF over = "moment" THEN BagRemove(b, x) ELSE b
    BY <1>1, <1>4
  <2> QED BY <1>1, <1>4, <1>5, <2>1, RefusedKeeps
<1>7. Switched(kept, t, rd, le, n, u, {})
  BY <1>5, <1>6, SwitchedOn
<1>8. Prompt => Spoken(kept, s, rd, le, said)
  BY <1>5, <1>6, SpokenOn
<1>9. Says(d, kept, plan.from, s)
  <2>1. d \in Judged(kept, plan.from, policy, used, s) /\ parked \subseteq Accounts
    BY <1>3, <1>4, <1>5 DEF TypeOK
  <2>2. Behind(kept, readings)
    BY <1>4, <1>6
  <2> QED BY <1>5, <1>6, <2>1, <2>2, JudgedSays
<1>10. /\ stored' \in Accounts \cup {Nobody} /\ parked' \subseteq Accounts
       /\ pc \in {"switching", "switched"} /\ pc' \in {"idle", "cut"}
       /\ left' = n /\ begun' = b2 /\ unrecorded' = u
  BY <1>2, <1>4, <1>5 DEF TypeOK
<1>11. CASE ~(d.do = "hold" /\ ~Said(kept, plan.from, d))
  <2>1. ledger' = Dropped(kept, now) /\ logged' = said /\ repeated' = repeated
    BY <1>3, <1>4, <1>11 DEF Saves, log
  <2>2. Prompt => Spoken(kept, t, rd, le, said)
    <3>1. \A y \in Things : Carries(kept, kept, y, t, rd, le)
      BY DEF Carries
    <3> QED BY <1>5, <1>6, <1>8, <3>1, SpokenOn
  <2>3. /\ IsBag(left') /\ IsBag(begun') /\ IsBag(unrecorded')
        /\ logged' \subseteq Accounts \X Limits \X Nat \X Reasons
        /\ Behind(kept, readings)
        /\ Tallied(kept, now, readings, lastEarly, begun')
        /\ Switched(kept, now, readings, lastEarly, left', unrecorded', {})
        /\ Prompt => Spoken(kept, now, readings, lastEarly, logged') /\ ~repeated'
    BY <1>4, <1>5, <1>6, <1>7, <1>10, <2>1, <2>2
  <2> QED BY <1>2, <1>6, <1>10, <2>1, <2>3, Done
<1>12. CASE d.do = "hold" /\ ~Said(kept, plan.from, d)
  <2>1. PICK l \in Limits, r \in Nat, why \in Reasons : d = Hold(l, r, why) /\ Current(plan.from, l, r, s)
    BY <1>9, <1>12 DEF Says, Stay, Move
  <2>2. PICK m, e : m = Say(kept, plan.from, d) /\ e = <<plan.from, l, EndOf(plan.from, l, r), why>>
    OBVIOUS
  <2>3. ledger' = Dropped(m, now) /\ Log(plan.from, d)
    BY <1>3, <1>12, <2>2 DEF Saves
  <2>4. logged' = said \cup {e} /\ repeated' = (repeated \/ e \in said)
    BY <1>4, <2>1, <2>2, <2>3, LogIs
  <2>5. Behind(kept, readings)
    BY <1>4, <1>6
  <2>6. /\ m \in Ledgers /\ Behind(m, rd)
        /\ \A y \in Things : \A z : Carries(kept, m, y, z, rd, le) /\ Counts(kept, m, y, z, rd, le)
    <3>1. PICK y : y = <<plan.from, l, EndOf(plan.from, l, r)>>
      OBVIOUS
    <3> QED BY <1>4, <1>5, <1>6, <2>1, <2>2, <2>5, <3>1, Speaks
  <2>7. Tallied(m, t, rd, le, b2) /\ Switched(m, t, rd, le, n, u, {})
    BY <1>5, <1>6, <1>7, <2>6, TalliedOn, SwitchedOn
  <2>8. Prompt => e \notin said /\ Spoken(m, t, rd, le, said \cup {e})
    <3> SUFFICES ASSUME Prompt PROVE e \notin said /\ Spoken(m, t, rd, le, said \cup {e})
      OBVIOUS
    <3>1. rd = readings /\ Spoken(kept, s, readings, le, said)
      BY <1>4, <1>8
    <3>2. e \notin said /\ Spoken(m, t, readings, le, said \cup {e})
      <4>1. /\ kept \in Ledgers /\ plan.from \in Accounts /\ s \in Nat /\ t \in Nat /\ s <= t
            /\ le \in [Accounts -> Nat] /\ ~Said(kept, plan.from, d) /\ \A i \in said : i[2] # "early"
        BY <1>5, <1>6, <1>12
      <4>2. Saying(kept, plan.from, l, r, why, s, d, m, le, t, said)
        BY <2>1, <2>2, <2>5, <3>1, <4>1 DEF Saying
      <4> QED BY <2>2, <4>2, LogsOnce
    <3> QED BY <3>1, <3>2
  <2>9. said \cup {e} \subseteq Accounts \X Limits \X Nat \X Reasons
    <3>1. EndOf(plan.from, l, r) \in Nat
      BY <1>5, <2>1, LegitIs DEF Current
    <3> QED BY <1>5, <2>1, <2>2, <3>1
  <2>10. /\ IsBag(left') /\ IsBag(begun') /\ IsBag(unrecorded')
         /\ logged' \subseteq Accounts \X Limits \X Nat \X Reasons
         /\ Behind(m, readings)
         /\ Tallied(m, now, readings, lastEarly, begun')
         /\ Switched(m, now, readings, lastEarly, left', unrecorded', {})
         /\ Prompt => Spoken(m, now, readings, lastEarly, logged') /\ ~repeated'
    BY <1>4, <1>5, <1>6, <1>10, <2>4, <2>6, <2>7, <2>8, <2>9
  <2> QED BY <1>2, <1>10, <2>3, <2>6, <2>10, Done
<1> QED BY <1>11, <1>12

-----------------------------------------------------------------------------
\* Heard is inductive, for every value of the constants.
THEOREM AlwaysHeard == Spec => []Heard
<1>1. Init => Heard
  BY GuardedAtFirst
<1>2. Heard /\ [Next]_vars => Heard'
  <2> SUFFICES ASSUME Heard, [Next]_vars PROVE Heard'
    OBVIOUS
  <2>1. CASE Outside
    BY <2>1, OutsideGuarded
  <2>2. CASE Begin \/ RefusedUnkept \/ UNCHANGED vars
    BY <2>2, NothingKept
  <2>3. CASE CannotTell
    BY <2>3, CannotTellGuarded
  <2>4. CASE Stays \/ Stops
    BY <2>4, StaysGuarded
  <2>5. CASE Holds
    BY <2>5, HoldsGuarded
  <2>6. CASE Moves
    BY <2>6, MovesGuarded
  <2>7. CASE Switches \/ CutShort
    BY <2>7, SwitchesGuarded
  <2>8. CASE Finishes
    BY <2>8, FinishesGuarded
  <2>9. CASE \E over \in {"account", "moment", "other"} : Refused(over)
    BY <2>9, RefusedGuarded
  <2> QED BY <2>1, <2>2, <2>3, <2>4, <2>5, <2>6, <2>7, <2>8, <2>9, Zenon DEF Next, Decides
<1> QED BY <1>1, <1>2, PTL DEF Spec

\* A limit is switched away from once before it resets and a week moved to once
\* (decide's records of what was switched for, kept under resets given late), but for
\* the switches nobody could record: for any accounts, windows, clock and events.
THEOREM LeavesOnce == Spec => []LeftOnce
<1>1. Heard => LeftOnce
  <2> SUFFICES ASSUME Heard, NEW x \in DOMAIN left
               PROVE  Times(x, left) <= 1 + Times(x, unrecorded)
    BY DEF LeftOnce
  <2>1. IsBag(left) /\ IsBag(unrecorded)
    BY DEF Heard, Guarded, TypeOK
  <2>2. x \in Things
    BY <2>1 DEF IsBag
  <2>3. Times(x, left) \in Nat /\ Times(x, unrecorded) \in Nat
    BY <2>1, TimesIs
  <2>4. Times(x, left) <= Times(x, unrecorded) \/ Times(x, left) <= 1 + Times(x, unrecorded)
    BY <2>2 DEF Heard, Guarded, Switched
  <2> QED BY <2>3, <2>4
<1> QED BY <1>1, AlwaysHeard, PTL

\* Attempts that waiting would not mend are made at one thing ATTEMPTS times at most
\* (attempted, waited and passed_over, saved before anything moves), however each ends.
THEOREM TriesAtMost == Spec => []TriedAtMost
<1>1. Heard => TriedAtMost
  <2> SUFFICES ASSUME Heard, NEW x \in DOMAIN begun
               PROVE  Times(x, begun) <= Attempts
    BY DEF TriedAtMost
  <2>1. x \in Things
    BY DEF Heard, Guarded, TypeOK, IsBag
  <2> QED BY <2>1 DEF Heard, Guarded, Tallied
<1> QED BY <1>1, AlwaysHeard, PTL

\* A reason is logged once (said, kept with the ledger before the log is written), where
\* a decision is over before resets as far apart as it takes could be two.
THEOREM SaysOnce == Prompt => (Spec => []SaidOnce)
<1> SUFFICES ASSUME Prompt PROVE Spec => []SaidOnce
  OBVIOUS
<1>1. Heard => SaidOnce
  BY DEF Heard, SaidOnce
<1> QED BY <1>1, AlwaysHeard, PTL
=============================================================================
