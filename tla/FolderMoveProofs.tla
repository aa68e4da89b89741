-------------------------- MODULE FolderMoveProofs --------------------------
(* What TLAPS proves of FolderMove. *)
EXTENDS FolderMove, TLAPS, FiniteSetTheorems, WellFoundedInduction

-----------------------------------------------------------------------------
(* The record. *)

\* What a cookie jar may be.
Jars == Sessions \cup {NoSession, None}

\* How the record names a folder.
IsPark(s, a, n) == s.parked[a] # None /\ s.parked[a].name = n
IsParked(s, n) == \E a \in Accounts : IsPark(s, a, n)
Aside(s, n)  == \E r \in s.aside : r.name = n
Listed(s, n) == \E d \in s.discarded : d.name = n

\* No folder is named twice by the record.
Once(s) ==
  /\ \A a, b \in Accounts, n \in Names : IsPark(s, a, n) /\ IsPark(s, b, n) => a = b
  /\ \A q, r \in s.aside : q.name = r.name => q = r
  /\ \A n \in Names : ~(IsParked(s, n) /\ Aside(s, n))
  /\ \A n \in Names : ~(IsParked(s, n) /\ Listed(s, n))
  /\ \A n \in Names : ~(Aside(s, n) /\ Listed(s, n))

\* What a move holds is named by it alone, but the park an arrive is of.
Apart(s) == s.moving # NoMove =>
  /\ s.moving.park \notin s.moving.asides
  /\ \A n \in Names : MoveHolds(s, n) => ~Aside(s, n) /\ ~Listed(s, n)
  /\ \A a \in Accounts, n \in Names : IsPark(s, a, n) /\ MoveHolds(s, n) =>
       s.moving.half = "arrive" /\ a = s.moving.who /\ n = s.moving.park

-----------------------------------------------------------------------------
(* What is on the disk. *)

\* Every jar is one, in the root and in every folder.
JarsTyped == root.has[Jar] \in Jars /\ \A n \in Names : folders[n].has[Jar] \in Jars

\* A folder that can be put back as that account's, with that session.
Whole(n, a, login) ==
  LET f == folders[n]
  IN /\ f.made /\ f.manifest # None
     /\ f.manifest.account = a /\ f.manifest.login = login
     /\ f.has[Jar] = login
     /\ HeldItems(n, f.manifest.items) = f.manifest.items
     /\ f.keys = {f.manifest.keys} /\ NamedBy(f.manifest.keys) = a

\* The park of a move: what it may hold, and that its manifest and keys come before that.
MovePark == Moving # NoMove =>
  LET f == folders[Moving.park]
  IN /\ NamedBy(Moving.keys) = Moving.who
     /\ f.has[Jar] \in {None, Moving.login}
     /\ f.manifest # None => /\ f.manifest.account = Moving.who
                             /\ f.manifest.login = Moving.login
                             /\ f.manifest.keys = Moving.keys
     /\ f.keys = {} \/ (f.keys = {Moving.keys} /\ f.manifest # None)
     /\ (\E i \in ItemSet : f.has[i] # None) => f.keys # {}
     /\ Moving.half = "arrive" =>
          /\ saved.parked[Moving.who] = [name |-> Moving.park, login |-> Moving.login]
          /\ f.keys # {}

\* What holds of the record and the disk, whatever a run is doing.
Data == JarsTyped /\ EveryFolderNamed /\ Once(saved) /\ Apart(saved) /\ MovePark /\ ParksWhole

-----------------------------------------------------------------------------
(* The run. *)

\* The steps of a move that is recorded, and those of them that make and fill a folder.
Doing == Fallible \cup {"midway"}
Built == {"keep", "make", "manifest", "keys", "clear", "setAside", "out"}

\* What each step is of.
Ops ==
  /\ pc # "idle" => run.op # None
  /\ pc = "idle" => run = NoRun
  /\ pc \in {"sweep", "begin"} => /\ run.half = None /\ run.row = None /\ run.name = None
                                   /\ run.on = "forward" /\ ~run.stopped
  /\ run.op \in {"switch", "forget"} => run.who \in Accounts
  /\ pc = "settle" => run.on \in {"settle", "after"}
  /\ pc = "look" => /\ run.on = "settle" /\ run.op \notin {"repair", "abandon"}
                    /\ Moving # NoMove => run.op = "enroll" /\ run.stopped
                    /\ run.op = "enroll" /\ run.stopped => Moving # NoMove
  /\ pc = "forget" => run.op = "forget" /\ Moving = NoMove
  /\ pc = "enrol" => run.op = "enroll" /\ run.on = "giveUp" /\ Moving = NoMove
  /\ pc = "giveUp" => /\ Moving # NoMove
                      /\ \/ run.op = "enroll" /\ run.on = "giveUp"
                         \/ run.op = "abandon" /\ run.on = "settle"
  /\ run.on = "giveUp" => run.op \in {"enroll", "abandon"}
  /\ run.on = "giveUp" /\ run.op = "enroll" => run.who \in Accounts /\ run.session \in Sessions
  /\ pc = "purge" => run.half = "done" \/ Moving = NoMove
  /\ pc \in {"reclaim", "giveBack"} => run.op = "repair"
  /\ run.op = "enroll" /\ run.on # "giveUp" /\ pc # "look" => ~run.stopped

\* Which half of which move it is in.
Halves ==
  /\ pc \in {"reserve", "record"} =>
       /\ run.half \in {"leave", "arrive", "start", "keysAside", "giveUp"}
       /\ run.half \in {"leave", "arrive", "start"} => Moving = NoMove /\ run.on = "forward"
       /\ run.half \in {"keysAside", "giveUp"} => Moving # NoMove
       /\ run.half = "keysAside" => run.on \in {"settle", "after"}
  /\ run.half = "leave" => /\ run.op \in {"switch", "start"} /\ run.on \in {"forward", "after"}
                           /\ Moving # NoMove => Moving.half = "leave"
  /\ run.half = "arrive" => /\ run.op = "switch" /\ run.on \in {"forward", "after"}
                            /\ Moving # NoMove => Moving.half = "arrive"
  /\ run.half = "start" => run.op = "start" /\ Moving = NoMove /\ run.on = "forward"
  /\ run.half = "keysAside" => run.on # "forward" /\ (Moving # NoMove => Moving.half = "arrive")
  /\ run.half = "giveUp" => run.op = "enroll" /\ run.on = "giveUp"
  /\ run.half = "done" => pc = "purge" /\ run.op \in {"forget", "repair"}
  /\ run.op = "switch" /\ run.on \in {"forward", "after"} /\ pc \notin {"idle", "sweep", "begin"} =>
       run.half \in {"leave", "arrive", "keysAside"}

\* The park a switch arrives with is whole all through its leave.
SwitchPark ==
  (/\ pc \in {"reserve", "record", "settle", "commitLeave"} \cup Doing
   /\ run.op = "switch" /\ run.half = "leave")
  => CanArrive(run.who) /\ (Moving # NoMove => Moving.who # run.who)

\* What a move is recorded from.
Reserving == pc \in {"reserve", "record"} =>
  /\ run.half = "leave" => /\ root.has[Jar] \in Sessions /\ NamedBy(root.keys) \in Accounts
                           /\ run.op = "switch" => run.who # NamedBy(root.keys)
  /\ run.half = "arrive" => CanArrive(run.who)
  /\ run.half = "start" => root.keys # None
  /\ run.half = "keysAside" => /\ Moving.half = "arrive" /\ root.has[Jar] = Moving.login
                               /\ root.keys # None
  /\ pc = "record" => run.name \in Names \/ (run.half = "arrive" /\ run.name = None)
  /\ pc = "record" /\ run.name # None =>
       ~Named(saved, run.name) /\ run.name \in pending /\ ~folders[run.name].made

\* The folder a run makes, a write at a time.
Building ==
  /\ pc \in {"make", "manifest", "keys"} => run.name \in Names /\ run.kept # None
  /\ pc = "manifest" => folders[run.name] = [NoFolder EXCEPT !.made = TRUE]
  /\ pc = "keys" => folders[run.name] = [NoFolder EXCEPT !.made = TRUE, !.manifest = run.kept]

\* A leave: root to park.
OfLeave ==
  /\ Moving # NoMove /\ Moving.half = "leave" /\ run.half = "leave" /\ run.on = "forward"
  /\ run.name = Moving.park /\ run.to = Moving.park
  /\ pc \in {"make", "manifest", "keys", "clear", "out", "verify", "midway"}
  /\ pc \in {"make", "manifest", "keys", "clear"} =>
       root.keys = Moving.keys /\ root.has[Jar] = Moving.login
  /\ pc \in {"make", "manifest", "keys"} =>
       /\ run.kept.account = Moving.who /\ run.kept.login = Moving.login
       /\ run.kept.keys = Moving.keys
  /\ pc \in {"clear", "out"} => folders[Moving.park].keys = {Moving.keys}
  /\ pc = "out" => root.has[Jar] \in {None, Moving.login}
  /\ pc = "midway" => Whole(Moving.park, Moving.who, Moving.login)

\* An arrive: what was left is set aside, the park comes in.
OfArrive ==
  /\ Moving # NoMove /\ Moving.half = "arrive" /\ run.half = "arrive" /\ run.on = "forward"
  /\ pc \in Built \cup {"held", "forgetLeft", "in", "put", "arrived", "midway"}
  /\ pc \in Built => run.name \in Moving.asides /\ run.to = run.name
  /\ pc \in {"clear", "setAside", "out"} => folders[run.name].made

\* A leave that took nothing out yet: its keys go back.
OfKeysBack ==
  /\ Moving # NoMove /\ Moving.half = "leave" /\ run.on \in {"settle", "after"}
  /\ pc \in {"put", "midway"}

\* A leave settled forward.
OfLeaveOn ==
  /\ Moving # NoMove /\ Moving.half = "leave" /\ run.on \in {"settle", "after"}
  /\ pc \in {"clear", "out", "verify", "midway"} /\ run.to = Moving.park
  /\ folders[Moving.park].keys = {Moving.keys}
  /\ pc \in {"clear", "out"} /\ Jar \in run.items => root.has[Jar] \in {None, Moving.login}
  /\ pc = "midway" => Whole(Moving.park, Moving.who, Moving.login)

\* Taken back, and of an arrive killed as it set aside what was there.
OfBack ==
  /\ Moving # NoMove /\ Moving.half = "arrive" /\ run.on \in {"settle", "after"}
  /\ \/ pc \in {"out", "midway"}
     \/ pc = "verify" /\ run.row # "settingAside"
     \/ pc = "finishAside" /\ run.row = "backAside"
     \/ pc = "forgetLeft" /\ run.row = "settingAside"
  /\ run.row = "settingAside" => run.to \in Moving.asides /\ folders[run.to].made
  /\ run.row # "settingAside" => run.to = Moving.park
  /\ pc = "out" /\ run.row # "settingAside" /\ Jar \in run.items =>
       root.has[Jar] \in {None, Moving.login}
  /\ run.row = "settingAside" \/ pc \in {"midway", "finishAside"} =>
       Whole(Moving.park, Moving.who, Moving.login)

\* An arrive whose root was opened meanwhile: its keys are set aside first.
OfKeysAside ==
  /\ Moving # NoMove /\ Moving.half = "arrive" /\ run.on \in {"settle", "after"}
  /\ pc \in {"keep", "make", "manifest", "keys", "clear", "out", "verify", "midway"}
  /\ run.to = Moving.park
  /\ pc \in {"keep", "make", "manifest", "keys", "clear"} =>
       root.has[Jar] = Moving.login /\ root.keys # None
  /\ pc \in {"keep", "make", "manifest", "keys"} => run.name \in Moving.asides
  /\ pc = "out" => root.has[Jar] \in {None, Moving.login}
  /\ pc = "midway" => Whole(Moving.park, Moving.who, Moving.login)

\* A move given up: what is there is set aside.
OfGiveUp ==
  /\ Moving # NoMove /\ run.on = "giveUp"
  /\ pc \in {"make", "manifest", "keys", "out", "left", "hold", "midway"}
  /\ pc \in {"make", "manifest", "keys", "out"} => run.name \in Moving.asides /\ run.to = run.name
  /\ pc = "out" => folders[run.name].made
  /\ pc = "midway" /\ folders[Moving.park].has[Jar] = Moving.login =>
       Whole(Moving.park, Moving.who, Moving.login)

\* A sign-in waited for: the keys of the root are set aside.
OfStart ==
  /\ Moving = NoMove /\ run.half = "start" /\ run.on = "forward"
  /\ run.name \in Names /\ run.name \in pending /\ ~Named(saved, run.name)
  /\ pc \in {"keep", "make", "manifest", "keys", "clear", "midway", "started"}
  /\ pc \in {"keep", "make", "manifest", "keys"} => root.keys # None

\* The steps of a move, by what they are of.
RowInv ==
  /\ pc \in Doing => run.row # None
  /\ pc \in Doing /\ run.row = "leave" => OfLeave
  /\ pc \in Doing /\ run.row = "arrive" => OfArrive
  /\ pc \in Doing /\ run.row = "keysBack" => OfKeysBack
  /\ pc \in Doing /\ run.row = "leaveOn" => OfLeaveOn
  /\ pc \in Doing /\ run.row \in {"back", "backAside", "settingAside"} => OfBack
  /\ pc \in Doing /\ run.row = "keysAside" => OfKeysAside
  /\ pc \in Doing /\ run.row = "giveUp" => OfGiveUp
  /\ pc \in Doing \cup {"started"} /\ run.row = "start" => OfStart

\* What a move is saved on.
Committing ==
  /\ pc \in {"commitLeave", "commitArrive", "undone", "givenUp"} => Moving # NoMove
  /\ pc = "commitLeave" => /\ Moving.half = "leave" /\ Whole(Moving.park, Moving.who, Moving.login)
                           /\ run.on \in {"forward", "settle", "after"}
  /\ pc = "commitArrive" => Moving.half = "arrive" /\ run.on \in {"forward", "settle", "after"}
  /\ pc = "undone" => run.on \in {"settle", "after"}
  /\ pc = "undone" /\ Moving.half = "arrive" => Whole(Moving.park, Moving.who, Moving.login)
  /\ pc = "givenUp" => run.on = "giveUp"
  /\ pc = "givenUp" /\ folders[Moving.park].has[Jar] = Moving.login =>
       Whole(Moving.park, Moving.who, Moving.login)
  /\ pc = "started" => run.row = "start"

\* What holds of a run.
RunInv == Ops /\ Halves /\ SwitchPark /\ Reserving /\ Building /\ RowInv /\ Committing

\* The inductive invariant.
Inv == TypeOK /\ Data /\ RunInv

-----------------------------------------------------------------------------
(* The constants, and least elements. *)

\* What the items are, and the names.
LEMMA Constant ==
  /\ Jar \in ItemSet /\ Rest \subseteq ItemSet /\ Jar \notin Rest
  /\ Names \subseteq Nat /\ Names \subseteq Int
  /\ Nothing \in Holding
BY ItemsListed, FolderBounds DEF Jar, ItemSet, Rest, Names, Nothing, Holding, Fresh, NoSession

\* A set of names that is not empty has a least.
LEMMA LeastIs ==
  ASSUME NEW ns \in SUBSET Nat, ns # {}
  PROVE  \E n \in ns : \A o \in ns : n <= o
<1>1. PICK n \in ns : \A o \in ns : <<o, n>> \notin OpToRel(<, Nat)
  BY WFMin, NatLessThanWellFounded
<1>2. ASSUME NEW o \in ns PROVE ~(o < n)
  <2>1. o \in Nat /\ n \in Nat OBVIOUS
  <2> QED BY <1>1, <2>1, Zenon DEF OpToRel
<1> QED BY <1>2

\* What is moved next is of what is to be moved.
LEMMA FirstIs ==
  ASSUME NEW is \in SUBSET ItemSet, is # {}
  PROVE  First(is) \in is /\ Final(is) \in is
<1>1. \A i \in ItemSet : Place(i) \in 1..Len(Items)
  BY ItemsListed DEF ItemSet, Place
<1>2. First(is) \in is
  <2> DEFINE ks == {Place(i) : i \in is}
  <2>1. ks \in SUBSET Nat /\ ks # {} BY <1>1
  <2>2. PICK m \in ks : \A k \in ks : m <= k
    <3> HIDE DEF ks
    <3> QED BY <2>1, LeastIs
  <2>3. PICK i \in is : Place(i) = m BY <2>2
  <2>4. \A j \in is : Place(i) <= Place(j) BY <2>2, <2>3
  <2> QED BY <2>4 DEF First
<1>3. Final(is) \in is
  <2> DEFINE ks == {Len(Items) - Place(i) : i \in is}
  <2>1. ks \in SUBSET Nat /\ ks # {} BY <1>1, ItemsListed
  <2>2. PICK m \in ks : \A k \in ks : m <= k
    <3> HIDE DEF ks
    <3> QED BY <2>1, LeastIs
  <2>3. PICK i \in is : Len(Items) - Place(i) = m BY <2>2
  <2>4. \A j \in is : Len(Items) - Place(i) <= Len(Items) - Place(j) BY <2>2, <2>3
  <2>5. \A j \in is : Place(i) >= Place(j) BY <2>4, <1>1, ItemsListed
  <2> QED BY <2>5 DEF Final
<1> QED BY <1>2, <1>3

-----------------------------------------------------------------------------
(* What the operations of the record keep. *)

\* Each operation makes a record of a record.
LEMMA RecordsKept ==
  ASSUME NEW s \in Records, NEW n \in Names, NEW a \in Accounts \cup {None},
         NEW login \in Sessions \cup {None}
  PROVE  /\ LetGo(s, n) \in Records /\ Discard(s, n) \in Records
         /\ AddAside(s, n, a, login) \in Records /\ KeepAside(s, n, a, login) \in Records
         /\ Identified(s, a, login) \in Records /\ Nobody(s) \in Records
<1>1. ASSUME NEW t \in Records PROVE LetGo(t, n) \in Records
  BY DEF LetGo, Records
<1>2. ASSUME NEW t \in Records PROVE AddAside(t, n, a, login) \in Records
  BY DEF AddAside, Records
<1>3. ASSUME NEW t \in Records
      PROVE  [t EXCEPT !.discarded = @ \cup {[name |-> n, forgotten |-> FALSE]}] \in Records
  <2> PICK d : d = [name |-> n, forgotten |-> FALSE] OBVIOUS
  <2>1. d \in [name : Names, forgotten : BOOLEAN] BY Zenon
  <2>2. [t EXCEPT !.discarded = @ \cup {d}] \in Records BY <2>1 DEF Records
  <2> QED BY <2>2, Zenon
<1>4. Discard(s, n) \in Records
  BY <1>1, <1>3, Zenon DEF Discard
<1>5. Identified(s, a, login) \in Records /\ Nobody(s) \in Records
  BY DEF Identified, Nobody, Records
<1> QED BY <1>1, <1>2, <1>4, <1>5 DEF KeepAside

\* A park let go of.
LEMMA LetGoOf ==
  ASSUME NEW s \in Records, NEW n \in Names, NEW t, t = LetGo(s, n)
  PROVE  /\ \A a \in Accounts, o \in Names : IsPark(t, a, o) <=> IsPark(s, a, o) /\ o # n
         /\ \A a \in Accounts : t.parked[a] = IF IsPark(s, a, n) THEN None ELSE s.parked[a]
         /\ t.aside = s.aside /\ t.discarded = s.discarded /\ t.moving = s.moving
         /\ t.enrolled = s.enrolled /\ t.inUse = s.inUse
BY NoneApart DEF LetGo, Records, IsPark

\* An aside added: one, unless there is one of that name.
LEMMA AddAsideOf ==
  ASSUME NEW s \in Records, NEW n \in Names, NEW a \in Accounts \cup {None},
         NEW login \in Sessions \cup {None}, NEW t, t = AddAside(s, n, a, login)
  PROVE  /\ t.parked = s.parked /\ t.discarded = s.discarded /\ t.moving = s.moving
         /\ t.enrolled = s.enrolled /\ t.inUse = s.inUse
         /\ s.aside \subseteq t.aside
         /\ \A r \in t.aside : r \in s.aside \/ r = [name |-> n, account |-> a, login |-> login]
         /\ \A o \in Names : Aside(t, o) <=> Aside(s, o) \/ o = n
         /\ (\A q, r \in s.aside : q.name = r.name => q = r)
              => \A q, r \in t.aside : q.name = r.name => q = r
<1>1. CASE \E r \in s.aside : r.name = n
  BY <1>1 DEF AddAside, Aside
<1>2. CASE ~\E r \in s.aside : r.name = n
  <2>1. t = [s EXCEPT !.aside = @ \cup {[name |-> n, account |-> a, login |-> login]}]
    BY <1>2 DEF AddAside
  <2>2. t.aside = s.aside \cup {[name |-> n, account |-> a, login |-> login]}
    BY <2>1 DEF Records
  <2>3. /\ t.parked = s.parked /\ t.discarded = s.discarded /\ t.moving = s.moving
        /\ t.enrolled = s.enrolled /\ t.inUse = s.inUse
    BY <2>1 DEF Records
  <2> PICK r0 : r0 = [name |-> n, account |-> a, login |-> login] OBVIOUS
  <2>4. t.aside = s.aside \cup {r0} /\ r0.name = n BY <2>2
  <2>5. \A o \in Names : Aside(t, o) <=> Aside(s, o) \/ o = n BY <2>4 DEF Aside
  <2>6. (\A q, r \in s.aside : q.name = r.name => q = r)
          => \A q, r \in t.aside : q.name = r.name => q = r
    BY <2>4, <1>2
  <2> QED BY <2>3, <2>4, <2>5, <2>6
<1> QED BY <1>1, <1>2

\* A folder listed to be deleted, and no park any more.
LEMMA DiscardOf ==
  ASSUME NEW s \in Records, NEW n \in Names, NEW t, t = Discard(s, n)
  PROVE  /\ \A a \in Accounts, o \in Names : IsPark(t, a, o) <=> IsPark(s, a, o) /\ o # n
         /\ \A a \in Accounts : t.parked[a] = IF IsPark(s, a, n) THEN None ELSE s.parked[a]
         /\ t.aside = s.aside /\ t.moving = s.moving
         /\ t.enrolled = s.enrolled /\ t.inUse = s.inUse
         /\ s.discarded \subseteq t.discarded
         /\ \A d \in t.discarded : d \in s.discarded \/ d = [name |-> n, forgotten |-> FALSE]
         /\ \A o \in Names : Listed(t, o) <=> Listed(s, o) \/ o = n
<1> PICK g : g = LetGo(s, n) OBVIOUS
<1>1. g \in Records BY RecordsKept
<1>2. CASE \E d \in g.discarded : d.name = n
  <2>1. t = g BY <1>2 DEF Discard
  <2> QED BY <2>1, <1>1, <1>2, LetGoOf DEF Listed
<1>3. CASE ~\E d \in g.discarded : d.name = n
  <2>1. t = [g EXCEPT !.discarded = @ \cup {[name |-> n, forgotten |-> FALSE]}]
    BY <1>3 DEF Discard
  <2>2. t.discarded = g.discarded \cup {[name |-> n, forgotten |-> FALSE]}
    BY <2>1, <1>1 DEF Records
  <2>3. /\ t.parked = g.parked /\ t.aside = g.aside /\ t.moving = g.moving
        /\ t.enrolled = g.enrolled /\ t.inUse = g.inUse
    BY <2>1, <1>1 DEF Records
  <2> PICK d0 : d0 = [name |-> n, forgotten |-> FALSE] OBVIOUS
  <2>4. t.discarded = g.discarded \cup {d0} /\ d0.name = n BY <2>2
  <2>5. \A o \in Names : Listed(t, o) <=> Listed(g, o) \/ o = n BY <2>4 DEF Listed
  <2>6. \A o \in Names : Listed(g, o) <=> Listed(s, o) BY LetGoOf DEF Listed
  <2>7. \A a \in Accounts, o \in Names : IsPark(t, a, o) <=> IsPark(g, a, o) BY <2>3 DEF IsPark
  <2>8. /\ \A a \in Accounts, o \in Names : IsPark(g, a, o) <=> IsPark(s, a, o) /\ o # n
        /\ \A a \in Accounts : g.parked[a] = IF IsPark(s, a, n) THEN None ELSE s.parked[a]
        /\ g.aside = s.aside /\ g.discarded = s.discarded /\ g.moving = s.moving
        /\ g.enrolled = s.enrolled /\ g.inUse = s.inUse
    BY LetGoOf
  <2> QED BY <2>3, <2>4, <2>5, <2>6, <2>7, <2>8
<1> QED BY <1>2, <1>3

\* A park kept aside.
LEMMA KeepAsideOf ==
  ASSUME NEW s \in Records, NEW n \in Names, NEW a \in Accounts \cup {None},
         NEW login \in Sessions \cup {None}, NEW t, t = KeepAside(s, n, a, login)
  PROVE  /\ \A b \in Accounts, o \in Names : IsPark(t, b, o) <=> IsPark(s, b, o) /\ o # n
         /\ \A b \in Accounts : t.parked[b] = IF IsPark(s, b, n) THEN None ELSE s.parked[b]
         /\ t.discarded = s.discarded /\ t.moving = s.moving
         /\ t.enrolled = s.enrolled /\ t.inUse = s.inUse
         /\ s.aside \subseteq t.aside
         /\ \A r \in t.aside : r \in s.aside \/ r = [name |-> n, account |-> a, login |-> login]
         /\ \A o \in Names : Aside(t, o) <=> Aside(s, o) \/ o = n
         /\ (\A q, r \in s.aside : q.name = r.name => q = r)
              => \A q, r \in t.aside : q.name = r.name => q = r
<1> PICK g : g = LetGo(s, n) OBVIOUS
<1>1. g \in Records BY RecordsKept
<1>2. t = AddAside(g, n, a, login) BY DEF KeepAside
<1>3. /\ \A b \in Accounts, o \in Names : IsPark(g, b, o) <=> IsPark(s, b, o) /\ o # n
      /\ \A b \in Accounts : g.parked[b] = IF IsPark(s, b, n) THEN None ELSE s.parked[b]
      /\ g.aside = s.aside /\ g.discarded = s.discarded /\ g.moving = s.moving
      /\ g.enrolled = s.enrolled /\ g.inUse = s.inUse
  BY LetGoOf
<1>4. /\ t.parked = g.parked /\ t.discarded = g.discarded /\ t.moving = g.moving
      /\ t.enrolled = g.enrolled /\ t.inUse = g.inUse
      /\ g.aside \subseteq t.aside
      /\ \A r \in t.aside : r \in g.aside \/ r = [name |-> n, account |-> a, login |-> login]
      /\ \A o \in Names : Aside(t, o) <=> Aside(g, o) \/ o = n
      /\ (\A q, r \in g.aside : q.name = r.name => q = r)
           => \A q, r \in t.aside : q.name = r.name => q = r
  BY <1>1, <1>2, AddAsideOf
<1>5. \A b \in Accounts, o \in Names : IsPark(t, b, o) <=> IsPark(g, b, o) BY <1>4 DEF IsPark
<1>6. \A o \in Names : Aside(g, o) <=> Aside(s, o) BY <1>3 DEF Aside
<1> QED BY <1>3, <1>4, <1>5, <1>6

\* A park recorded: what it replaces is set aside.
LEMMA ParkOf ==
  ASSUME NEW s \in Records, NEW n \in Names, NEW a \in Accounts, NEW login \in Sessions,
         NEW t, t = Park(s, a, n, login)
  PROVE  /\ t \in Records
         /\ \A b \in Accounts : b # a => t.parked[b] = s.parked[b]
         /\ t.parked[a] = [name |-> n, login |-> login]
         /\ t.discarded = s.discarded /\ t.moving = s.moving
         /\ t.enrolled = s.enrolled /\ t.inUse = s.inUse
         /\ s.aside \subseteq t.aside
         /\ \A r \in t.aside : r \in s.aside \/
              /\ s.parked[a] # None /\ s.parked[a].name # n
              /\ r = [name |-> s.parked[a].name, account |-> a, login |-> s.parked[a].login]
         /\ \A o \in Names : Aside(t, o) <=> Aside(s, o) \/ (IsPark(s, a, o) /\ o # n)
         /\ (\A q, r \in s.aside : q.name = r.name => q = r)
              => \A q, r \in t.aside : q.name = r.name => q = r
<1>0. PICK g : g = [s EXCEPT !.parked[a] = [name |-> n, login |-> login]] OBVIOUS
<1>1. /\ g \in Records
      /\ \A b \in Accounts : b # a => g.parked[b] = s.parked[b]
      /\ g.parked[a] = [name |-> n, login |-> login]
      /\ g.aside = s.aside /\ g.discarded = s.discarded /\ g.moving = s.moving
      /\ g.enrolled = s.enrolled /\ g.inUse = s.inUse
  BY <1>0 DEF Records
<1>2. \A o \in Names : Aside(g, o) <=> Aside(s, o) BY <1>1 DEF Aside
<1>3. CASE s.parked[a] = None \/ s.parked[a].name = n
  <2>1. t = g BY <1>0, <1>3 DEF Park
  <2>2. \A o \in Names : ~(IsPark(s, a, o) /\ o # n) BY <1>3 DEF IsPark
  <2> QED BY <2>1, <2>2, <1>1, <1>2
<1>4. CASE s.parked[a] # None /\ s.parked[a].name # n
  <2> PICK old : old = s.parked[a] OBVIOUS
  <2>1. t = AddAside(g, old.name, a, old.login) BY <1>0, <1>4 DEF Park
  <2>2. old \in [name : Names, login : Sessions] BY <1>4 DEF Records
  <2> PICK nm, lg : nm = old.name /\ lg = old.login OBVIOUS
  <2>3. nm \in Names /\ lg \in Sessions \cup {None} /\ a \in Accounts \cup {None} BY <2>2
  <2>7. t = AddAside(g, nm, a, lg) BY <2>1
  <2>8. g \in Records BY <1>1
  <2>4. /\ t.parked = g.parked /\ t.discarded = g.discarded /\ t.moving = g.moving
        /\ t.enrolled = g.enrolled /\ t.inUse = g.inUse
        /\ g.aside \subseteq t.aside
        /\ \A r \in t.aside : r \in g.aside \/ r = [name |-> nm, account |-> a, login |-> lg]
        /\ \A o \in Names : Aside(t, o) <=> Aside(g, o) \/ o = nm
        /\ (\A q, r \in g.aside : q.name = r.name => q = r)
             => \A q, r \in t.aside : q.name = r.name => q = r
    BY <2>8, <2>7, <2>3, AddAsideOf
  <2>5. t \in Records BY <2>8, <2>7, <2>3, RecordsKept
  <2>6. \A o \in Names : o = old.name <=> IsPark(s, a, o) /\ o # n BY <1>4 DEF IsPark
  <2> QED BY <1>1, <1>2, <1>4, <2>4, <2>5, <2>6
<1> QED BY <1>3, <1>4

\* What a move set aside is indexed, where it was made.
LEMMA IndexAsidesOf ==
  ASSUME NEW s \in Records, NEW m \in Moves, TypeOK,
         NEW t, t = IndexAsides(s, m)
  PROVE  /\ t \in Records
         /\ t.parked = s.parked /\ t.discarded = s.discarded /\ t.moving = s.moving
         /\ t.enrolled = s.enrolled /\ t.inUse = s.inUse
         /\ s.aside \subseteq t.aside
         /\ \A r \in t.aside : r \in s.aside \/
              /\ r.name \in m.asides /\ r.login = None
              /\ r.account = IF folders[r.name].manifest = None THEN None
                             ELSE folders[r.name].manifest.account
         /\ \A o \in Names : Aside(t, o) <=> Aside(s, o) \/ (o \in m.asides /\ folders[o].made)
         /\ (\A q, r \in s.aside : q.name = r.name => q = r)
              => \A q, r \in t.aside : q.name = r.name => q = r
<1> DEFINE new == {n \in m.asides : folders[n].made /\ \A r \in s.aside : r.name # n}
           Of(n) == folders[n].manifest
           Row1(n) == [name |-> n, account |-> IF Of(n) = None THEN None ELSE Of(n).account,
                       login |-> None]
<1>1. new \subseteq Names BY DEF Moves
<1>2. \A n \in new : Row1(n) \in [name : Names, account : Accounts \cup {None},
                                  login : Sessions \cup {None}]
  BY <1>1 DEF TypeOK, Folders, Manifests
<1> PICK rows : rows = {Row1(n) : n \in new} OBVIOUS
<1>3. t = [s EXCEPT !.aside = @ \cup rows] BY DEF IndexAsides
<1>4. rows \subseteq [name : Names, account : Accounts \cup {None}, login : Sessions \cup {None}]
  BY <1>2
<1>5. /\ t \in Records /\ t.aside = s.aside \cup rows
      /\ t.parked = s.parked /\ t.discarded = s.discarded /\ t.moving = s.moving
      /\ t.enrolled = s.enrolled /\ t.inUse = s.inUse
  BY <1>3, <1>4 DEF Records
<1>6. \A r \in rows : r.name \in new /\ r = Row1(r.name) OBVIOUS
<1>7. \A n \in new : \E r \in rows : r.name = n
  <2> TAKE n \in new
  <2>1. Row1(n) \in rows /\ Row1(n).name = n OBVIOUS
  <2> QED BY <2>1
<1>8. \A r \in rows : /\ r.name \in m.asides /\ r.login = None
                      /\ r.account = IF folders[r.name].manifest = None THEN None
                                     ELSE folders[r.name].manifest.account
  BY <1>6
<1>9. \A q \in s.aside, r \in rows : q.name # r.name BY <1>6
<1>10. \A q, r \in rows : q.name = r.name => q = r BY <1>6
<1>11. \A o \in Names : Aside(t, o) <=> Aside(s, o) \/ (o \in m.asides /\ folders[o].made)
  <2> TAKE o \in Names
  <2>1. Aside(t, o) <=> Aside(s, o) \/ \E r \in rows : r.name = o BY <1>5 DEF Aside
  <2>2. (\E r \in rows : r.name = o) <=> o \in new BY <1>6, <1>7
  <2>3. o \in new <=> o \in m.asides /\ folders[o].made /\ ~Aside(s, o) BY DEF Aside
  <2> QED BY <2>1, <2>2, <2>3
<1> HIDE DEF new, Row1, Of
<1> QED BY <1>5, <1>8, <1>9, <1>10, <1>11

\* What a folder agrees on is a session of an account's, and the folder is there.
LEMMA ClaimsOf ==
  ASSUME NEW a \in Accounts, NEW ns \in SUBSET Names, TypeOK, NEW n \in Claims(a, ns)
  PROVE  /\ n \in ns /\ n \in Names /\ AgreesOn(n)
         /\ folders[n].made /\ folders[n].manifest # None
         /\ folders[n].manifest.account = a /\ folders[n].manifest.login \in Sessions
<1>1. n \in ns /\ n \in Names /\ AgreesOn(n) /\ folders[n].manifest.account = a
  BY DEF Claims
<1> PICK f : f = folders[n] OBVIOUS
<1>2. f \in Folders BY <1>1 DEF TypeOK
<1>3. /\ f.manifest # None /\ f.manifest.login # None /\ f.keys = {f.manifest.keys}
  BY <1>1 DEF AgreesOn
<1>4. f.manifest.login \in Sessions BY <1>2, <1>3 DEF Folders, Manifests
<1>5. f # NoFolder BY <1>3 DEF NoFolder
<1>6. f.made BY <1>1, <1>5 DEF TypeOK
<1> QED BY <1>1, <1>3, <1>4, <1>6

\* What giving back makes of a record.
GivesBack(s, ns, t) ==
  /\ t \in Records /\ Once(t) /\ Apart(t)
  /\ t.moving = s.moving /\ t.enrolled = s.enrolled /\ t.inUse = s.inUse
  /\ \A a \in Accounts : t.parked[a] = s.parked[a] \/
       (/\ Takes(s, a)
        /\ \E n \in Claims(a, ns) :
             t.parked[a] = [name |-> n, login |-> folders[n].manifest.login])
  /\ t.aside \subseteq s.aside
  /\ \A d \in t.discarded : d \in s.discarded \/ d.forgotten = FALSE
  /\ \A n \in Names : Named(s, n) => Named(t, n)

\* Asides given back to who takes them: each taker's park is one it claims.
LEMMA GivenBackOf ==
  ASSUME NEW s \in Records, NEW ns \in SUBSET Names, TypeOK, Once(s), Apart(s),
         \A n \in ns : ~IsParked(s, n) /\ ~Listed(s, n) /\ ~MoveHolds(s, n),
         NEW t, t = GivenBack(s, ns)
  PROVE  GivesBack(s, ns, t)
<1> DEFINE tk == {a \in Accounts : Takes(s, a) /\ Claims(a, ns) # {}}
           gv == [a \in tk |-> Least(Claims(a, ns))]
           ls == {s.parked[a].name : a \in {a \in tk : s.parked[a] # None}}
           Given(a) == [name |-> gv[a], login |-> folders[gv[a]].manifest.login]
<1> PICK takers : takers = tk OBVIOUS
<1> PICK lost : lost = ls OBVIOUS
<1>a. \A a \in Accounts : a \in takers <=> Takes(s, a) /\ Claims(a, ns) # {} OBVIOUS
<1>b. takers \subseteq Accounts OBVIOUS
<1>c. \A a \in takers : gv[a] \in Claims(a, ns)
  <2> TAKE a \in takers
  <2>1. Claims(a, ns) # {} /\ Claims(a, ns) \in SUBSET Nat
    BY <1>a, <1>b, Constant DEF Claims
  <2>2. PICK n \in Claims(a, ns) : \A o \in Claims(a, ns) : n <= o
    BY <2>1, LeastIs
  <2>3. Least(Claims(a, ns)) \in Claims(a, ns) BY <2>2 DEF Least
  <2> QED BY <2>3
<1> PICK given : given = gv OBVIOUS
<1>d. \A a \in takers : given[a] \in Claims(a, ns) BY <1>c
<1>e. \A n \in Names : n \in lost <=> \E a \in takers : IsPark(s, a, n)
  BY DEF IsPark, Records
<1>f. lost \subseteq Names BY <1>b DEF Records
<1>g. t = [s EXCEPT
        !.parked = [a \in Accounts |-> IF a \notin takers THEN @[a]
                      ELSE [name |-> given[a], login |-> folders[given[a]].manifest.login]],
        !.discarded = @ \cup [name : lost \ {d.name : d \in @}, forgotten : {FALSE}],
        !.aside = {r \in @ : \A a \in takers : r.name # given[a]}]
  BY DEF GivenBack
<1> HIDE DEF tk, gv, ls
<1>1. \A a \in takers : /\ given[a] \in ns /\ given[a] \in Names /\ folders[given[a]].manifest.account = a
                        /\ folders[given[a]].manifest.login \in Sessions
  BY <1>d, <1>b, ClaimsOf
<1>2. \A a, b \in takers : given[a] = given[b] => a = b BY <1>1
<1>p. PICK parked : parked = [a \in Accounts |-> IF a \notin takers THEN s.parked[a]
                      ELSE [name |-> given[a], login |-> folders[given[a]].manifest.login]]
  OBVIOUS
<1>3. parked \in [Accounts -> [name : Names, login : Sessions] \cup {None}]
  BY <1>p, <1>1, <1>b DEF Records
<1>m. PICK more : more = [name : lost \ {d.name : d \in s.discarded}, forgotten : {FALSE}] OBVIOUS
<1>4. more \subseteq [name : Names, forgotten : BOOLEAN]
  BY <1>m, <1>f
<1>w. PICK fewer : fewer = {r \in s.aside : \A a \in takers : r.name # given[a]} OBVIOUS
<1>5. t = [s EXCEPT !.parked = parked, !.discarded = @ \cup more, !.aside = fewer]
  BY <1>g, <1>p, <1>m, <1>w
<1>6. /\ t.parked = parked /\ t.discarded = s.discarded \cup more /\ t.aside = fewer
      /\ t.moving = s.moving /\ t.enrolled = s.enrolled /\ t.inUse = s.inUse
  BY <1>5 DEF Records
<1>x. fewer \subseteq s.aside BY <1>w
<1>7. t \in Records BY <1>3, <1>4, <1>5, <1>x DEF Records
<1>8. \A a \in Accounts : t.parked[a] = s.parked[a] \/
        (/\ Takes(s, a)
         /\ \E n \in Claims(a, ns) :
              t.parked[a] = [name |-> n, login |-> folders[n].manifest.login])
  BY <1>6, <1>p, <1>a, <1>d
<1>9. \A d \in t.discarded : d \in s.discarded \/ (d.forgotten = FALSE /\ d.name \in lost)
  BY <1>6, <1>m
<1>10. \A n \in Names : Listed(t, n) <=> Listed(s, n) \/ n \in lost
  <2>1. \A n \in Names : (\E d \in more : d.name = n) <=> n \in lost /\ ~Listed(s, n)
    <3> TAKE n \in Names
    <3>1. ASSUME n \in lost, ~Listed(s, n) PROVE \E d \in more : d.name = n
      <4>1. n \notin {d.name : d \in s.discarded} BY <3>1 DEF Listed
      <4>2. [name |-> n, forgotten |-> FALSE] \in more BY <4>1, <3>1, <1>m
      <4> QED BY <4>2
    <3>2. ASSUME NEW d \in more, d.name = n PROVE n \in lost /\ ~Listed(s, n)
      BY <3>2, <1>m DEF Listed
    <3> QED BY <3>1, <3>2
  <2> QED BY <2>1, <1>6 DEF Listed
<1>11. \A n \in Names : Aside(t, n) <=> Aside(s, n) /\ \A a \in takers : n # given[a]
  BY <1>6, <1>w DEF Aside
<1>12. \A a \in Accounts, n \in Names : IsPark(t, a, n) <=>
         \/ a \notin takers /\ IsPark(s, a, n)
         \/ a \in takers /\ n = given[a]
  <2> TAKE a \in Accounts, n \in Names
  <2>1. CASE a \notin takers
    <3>1. t.parked[a] = s.parked[a] BY <2>1, <1>6, <1>p
    <3> QED BY <2>1, <3>1 DEF IsPark
  <2>2. CASE a \in takers
    <3> PICK g : g = [name |-> given[a], login |-> folders[given[a]].manifest.login] OBVIOUS
    <3>1. t.parked[a] = g BY <2>2, <1>6, <1>p
    <3>2. g \in [name : Names, login : Sessions] BY <2>2, <1>1
    <3>3. g # None /\ g.name = given[a] BY <3>2, NoneApart
    <3> QED BY <2>2, <3>1, <3>3 DEF IsPark
  <2> QED BY <2>1, <2>2
<1>13. \A n \in Names : MoveHolds(t, n) <=> MoveHolds(s, n) BY <1>6 DEF MoveHolds
<1>14. \A n \in Names : n \in lost => ~MoveHolds(s, n)
  BY <1>a, <1>b, <1>e DEF Takes, Gone, IsPark
<1>15. Once(t)
  <2>1. \A a, b \in Accounts, n \in Names : IsPark(t, a, n) /\ IsPark(t, b, n) => a = b
    BY <1>12, <1>1, <1>2 DEF Once, IsParked
  <2>2. \A q, r \in t.aside : q.name = r.name => q = r
    BY <1>6, <1>x DEF Once
  <2>3. \A n \in Names : IsParked(t, n) => (IsParked(s, n) /\ n \notin lost) \/ \E a \in takers : n = given[a]
    BY <1>12, <1>e, <1>b DEF IsParked, Once
  <2>4. \A n \in Names : ~(IsParked(t, n) /\ Aside(t, n))
    BY <2>3, <1>11 DEF Once
  <2>5. \A n \in Names : n \in lost => IsParked(s, n) BY <1>e, <1>b DEF IsParked
  <2>6. \A n \in Names : ~(IsParked(t, n) /\ Listed(t, n))
    BY <2>3, <2>5, <1>10, <1>1 DEF Once
  <2>7. \A n \in Names : ~(Aside(t, n) /\ Listed(t, n))
    BY <2>5, <1>10, <1>11 DEF Once
  <2> QED BY <2>1, <2>2, <2>4, <2>6, <2>7 DEF Once
<1>16. Apart(t)
  BY <1>6, <1>10, <1>11, <1>12, <1>13, <1>14, <1>1 DEF Apart
<1>17. \A n \in Names : Named(s, n) => Named(t, n)
  <2>1. \A u \in {s, t} : \A n \in Names :
          Named(u, n) <=> IsParked(u, n) \/ Aside(u, n) \/ Listed(u, n) \/ MoveHolds(u, n)
    BY DEF Named, IsParked, IsPark, Aside, Listed
  <2>2. \A n \in Names : IsParked(s, n) => IsParked(t, n) \/ Listed(t, n)
    BY <1>12, <1>10, <1>e, <1>b DEF IsParked
  <2>3. \A n \in Names : Aside(s, n) => IsParked(t, n) \/ Aside(t, n)
    BY <1>11, <1>12, <1>b DEF IsParked
  <2> QED BY <2>1, <2>2, <2>3, <1>10, <1>13
<1> QED BY <1>6, <1>x, <1>7, <1>8, <1>9, <1>15, <1>16, <1>17 DEF GivesBack

\* What it is to be named, a part at a time.
LEMMA NamedIs ==
  \A s, n : Named(s, n) <=> IsParked(s, n) \/ Aside(s, n) \/ Listed(s, n) \/ MoveHolds(s, n)
BY DEF Named, IsParked, IsPark, Aside, Listed

\* What resolving makes of a record.
ResolvesTo(s, ns, u) ==
  /\ u \in Records /\ Once(u) /\ Apart(u)
  /\ u.moving = s.moving /\ u.enrolled = s.enrolled /\ u.inUse = s.inUse
  /\ \A a \in Accounts : u.parked[a] = s.parked[a] \/
       (/\ Takes(s, a)
        /\ \E n \in Claims(a, ns) :
             u.parked[a] = [name |-> n, login |-> folders[n].manifest.login])
  /\ \A r \in u.aside : r \in s.aside \/
       /\ r.name \in ns
       /\ r.account = IF AgreesOn(r.name) THEN folders[r.name].manifest.account ELSE None
       /\ r.login = IF AgreesOn(r.name) THEN folders[r.name].manifest.login ELSE None
  /\ \A d \in u.discarded : d \in s.discarded \/ d.forgotten = FALSE
  /\ \A n \in Names : Named(s, n) => Named(u, n)
  /\ \A n \in ns : HoldsAnything(n) => Named(u, n)

\* The folders nothing names: what holds anything is given back or set aside.
LEMMA ResolvedOf ==
  ASSUME NEW s \in Records, NEW ns \in SUBSET Names, TypeOK, Once(s), Apart(s),
         \A n \in ns : ~Named(s, n),
         NEW u, u = Resolved(s, ns)
  PROVE  ResolvesTo(s, ns, u)
<1>h. PICK held : held = {n \in ns : HoldsAnything(n)} OBVIOUS
<1>t. PICK t : t = GivenBack(s, held) OBVIOUS
<1>a. PICK asides : asides = {n \in held : ~Named(t, n)} OBVIOUS
<1> DEFINE Row1(n) == [name |-> n,
             account |-> IF AgreesOn(n) THEN folders[n].manifest.account ELSE None,
             login   |-> IF AgreesOn(n) THEN folders[n].manifest.login ELSE None]
<1>r. PICK rows : rows = {Row1(n) : n \in asides} OBVIOUS
<1>1. held \in SUBSET ns /\ held \in SUBSET Names BY <1>h
<1>2. \A n \in held : ~IsParked(s, n) /\ ~Listed(s, n) /\ ~MoveHolds(s, n)
  BY <1>1, NamedIs
<1>z. GivesBack(s, held, t) BY <1>1, <1>2, <1>t, GivenBackOf
<1>3. /\ t \in Records /\ Once(t) /\ Apart(t)
      /\ t.moving = s.moving /\ t.enrolled = s.enrolled /\ t.inUse = s.inUse
      /\ \A a \in Accounts : t.parked[a] = s.parked[a] \/
           (/\ Takes(s, a)
            /\ \E n \in Claims(a, held) :
                 t.parked[a] = [name |-> n, login |-> folders[n].manifest.login])
      /\ t.aside \subseteq s.aside
      /\ \A d \in t.discarded : d \in s.discarded \/ d.forgotten = FALSE
      /\ \A n \in Names : Named(s, n) => Named(t, n)
  BY <1>z, Zenon DEF GivesBack
<1>4. u = [t EXCEPT !.aside = @ \cup rows]
  BY <1>h, <1>t, <1>a, <1>r DEF Resolved
<1>5. \A n \in asides : /\ n \in Names
                        /\ Row1(n) \in [name : Names, account : Accounts \cup {None},
                                        login : Sessions \cup {None}]
  <2> TAKE n \in asides
  <2>1. n \in Names BY <1>a, <1>1
  <2>2. CASE AgreesOn(n)
    <3>1. folders[n].manifest # None BY <2>2 DEF AgreesOn
    <3> QED BY <2>1, <2>2, <3>1 DEF TypeOK, Folders, Manifests
  <2>3. CASE ~AgreesOn(n)
    BY <2>1, <2>3
  <2> QED BY <2>1, <2>2, <2>3
<1>6. rows \subseteq [name : Names, account : Accounts \cup {None}, login : Sessions \cup {None}]
  BY <1>5, <1>r
<1>7. /\ u \in Records /\ u.aside = t.aside \cup rows
      /\ u.parked = t.parked /\ u.discarded = t.discarded /\ u.moving = t.moving
      /\ u.enrolled = t.enrolled /\ u.inUse = t.inUse
  BY <1>3, <1>4, <1>6 DEF Records
<1>8. \A r \in rows : /\ r.name \in asides
                      /\ r.account = IF AgreesOn(r.name) THEN folders[r.name].manifest.account ELSE None
                      /\ r.login = IF AgreesOn(r.name) THEN folders[r.name].manifest.login ELSE None
  BY <1>r
<1>9. \A q, r \in rows : q.name = r.name => q = r BY <1>r
<1>10. \A n \in asides : \E r \in rows : r.name = n
  <2> TAKE n \in asides
  <2>1. Row1(n) \in rows /\ Row1(n).name = n BY <1>r
  <2> QED BY <2>1
<1> HIDE DEF Row1
<1>11. \A n \in Names : Aside(u, n) <=> Aside(t, n) \/ n \in asides
  BY <1>7, <1>8, <1>10 DEF Aside
<1>12. \A n \in Names : /\ IsParked(u, n) <=> IsParked(t, n)
                        /\ Listed(u, n) <=> Listed(t, n)
                        /\ MoveHolds(u, n) <=> MoveHolds(t, n)
                        /\ \A a \in Accounts : IsPark(u, a, n) <=> IsPark(t, a, n)
  BY <1>7 DEF IsParked, Listed, MoveHolds, IsPark
<1>13. \A n \in asides : ~IsParked(t, n) /\ ~Listed(t, n) /\ ~MoveHolds(t, n) /\ ~Aside(t, n)
  BY <1>a, NamedIs
<1>14. Once(u)
  <2>1. \A q, r \in u.aside : q.name = r.name => q = r
    <3>1. \A q \in t.aside, r \in rows : q.name # r.name
      BY <1>8, <1>13 DEF Aside
    <3>2. \A q, r \in t.aside : q.name = r.name => q = r BY <1>3 DEF Once
    <3> QED BY <3>1, <3>2, <1>7, <1>9
  <2>2. \A a, b \in Accounts, n \in Names : IsPark(u, a, n) /\ IsPark(u, b, n) => a = b
    BY <1>3, <1>12 DEF Once
  <2> QED BY <2>1, <2>2, <1>3, <1>11, <1>12, <1>13 DEF Once
<1>15. Apart(u)
  BY <1>3, <1>7, <1>11, <1>12, <1>13 DEF Apart
<1>16. \A n \in Names : Named(t, n) => Named(u, n)
  BY <1>11, <1>12, NamedIs
<1>17. \A n \in held : Named(u, n)
  BY <1>1, <1>11, <1>16, <1>a, NamedIs
<1>18. \A a \in Accounts : \A n \in Claims(a, held) : n \in Claims(a, ns)
  BY <1>1 DEF Claims
<1>19. \A r \in rows : r.name \in ns BY <1>8, <1>a, <1>1
<1>20. \A a \in Accounts : u.parked[a] = s.parked[a] \/
         (/\ Takes(s, a)
          /\ \E n \in Claims(a, ns) :
               u.parked[a] = [name |-> n, login |-> folders[n].manifest.login])
  BY <1>3, <1>7, <1>18
<1>21. \A r \in u.aside : r \in s.aside \/
         /\ r.name \in ns
         /\ r.account = IF AgreesOn(r.name) THEN folders[r.name].manifest.account ELSE None
         /\ r.login = IF AgreesOn(r.name) THEN folders[r.name].manifest.login ELSE None
  BY <1>3, <1>7, <1>8, <1>19
<1> QED BY <1>3, <1>7, <1>14, <1>15, <1>16, <1>17, <1>20, <1>21, <1>h DEF ResolvesTo

\* What removing an account makes of a record.
Removes(s, a, t) ==
  /\ t \in Records /\ Once(t)
  /\ t.moving = NoMove /\ t.inUse = s.inUse
  /\ t.parked[a] = None /\ \A b \in Accounts : b # a => t.parked[b] = s.parked[b]
  /\ t.aside \subseteq s.aside
  /\ \A d \in t.discarded : d \in s.discarded \/
       (d.forgotten = TRUE /\ (IsPark(s, a, d.name)
                                 \/ \E r \in s.aside : r.name = d.name /\ r.account = a))
  /\ \A n \in Names : Named(s, n) => Named(t, n)

\* An account removed, with no move recorded: all that is filed under it is listed.
LEMMA RemovedOf ==
  ASSUME NEW s \in Records, NEW a \in Accounts, Once(s), s.moving = NoMove,
         NEW t, t = Removed(s, a)
  PROVE  Removes(s, a, t)
<1>f. PICK filed : filed = Filed(s, a) OBVIOUS
<1>1. \A n \in filed : /\ n \in Names
                       /\ IsPark(s, a, n) \/ \E r \in s.aside : r.name = n /\ r.account = a
  BY <1>f DEF Filed, IsPark, Records
<1>2. \A n \in Names : IsPark(s, a, n) => n \in filed
  BY <1>f DEF Filed, IsPark
<1>3. \A n \in filed : ~MoveHolds(s, n) BY DEF MoveHolds
<1>p. PICK parked : parked = [s.parked EXCEPT ![a] = None] OBVIOUS
<1>w. PICK fewer : fewer = {r \in s.aside : r.name \notin filed} OBVIOUS
<1>l. PICK listed : listed = {d \in s.discarded : d.name \notin filed}
                               \cup [name : filed, forgotten : {TRUE}] OBVIOUS
<1>4. t = [s EXCEPT !.enrolled = @ \ {a}, !.parked = parked, !.aside = fewer,
                    !.discarded = listed, !.awaiting = IF s.awaiting = a THEN None ELSE s.awaiting]
  <2>1. {n \in filed : ~MoveHolds(s, n)} = filed BY <1>3
  <2> QED BY <2>1, <1>f, <1>p, <1>w, <1>l DEF Removed
<1>5. parked \in [Accounts -> [name : Names, login : Sessions] \cup {None}]
  BY <1>p DEF Records
<1>6. listed \in SUBSET [name : Names, forgotten : BOOLEAN]
  BY <1>l, <1>1 DEF Records
<1>7. fewer \subseteq s.aside BY <1>w
<1>8. t \in Records BY <1>4, <1>5, <1>6, <1>7 DEF Records
<1>9. /\ t.parked = parked /\ t.aside = fewer /\ t.discarded = listed
      /\ t.moving = s.moving /\ t.inUse = s.inUse
  BY <1>4 DEF Records
<1>10. t.parked[a] = None /\ \A b \in Accounts : b # a => t.parked[b] = s.parked[b]
  BY <1>9, <1>p DEF Records
<1>11. \A b \in Accounts, n \in Names : IsPark(t, b, n) <=> b # a /\ IsPark(s, b, n)
  BY <1>10 DEF IsPark
<1>12. \A n \in Names : Aside(t, n) <=> Aside(s, n) /\ n \notin filed
  BY <1>9, <1>w DEF Aside
<1>13. \A n \in Names : Listed(t, n) <=> Listed(s, n) \/ n \in filed
  <2> TAKE n \in Names
  <2>1. ASSUME n \in filed PROVE \E d \in listed : d.name = n
    <3>1. [name |-> n, forgotten |-> TRUE] \in listed BY <2>1, <1>l
    <3> QED BY <3>1
  <2>2. ASSUME n \notin filed PROVE (\E d \in listed : d.name = n) <=> \E d \in s.discarded : d.name = n
    BY <2>2, <1>l
  <2> QED BY <2>1, <2>2, <1>9 DEF Listed
<1>14. \A n \in Names : n \in filed => \A b \in Accounts : b # a => ~IsPark(s, b, n)
  BY <1>1 DEF Once, IsParked, Aside
<1>15. Once(t)
  <2>1. \A q, r \in t.aside : q.name = r.name => q = r BY <1>7, <1>9 DEF Once
  <2>2. \A b, c \in Accounts, n \in Names : IsPark(t, b, n) /\ IsPark(t, c, n) => b = c
    BY <1>11 DEF Once
  <2>3. \A n \in Names : IsParked(t, n) => IsParked(s, n) /\ n \notin filed
    BY <1>11, <1>14 DEF IsParked
  <2> QED BY <2>1, <2>2, <2>3, <1>12, <1>13 DEF Once
<1>16. \A d \in t.discarded : d \in s.discarded \/ (d.forgotten = TRUE /\ d.name \in filed)
  <2>1. \A d \in [name : filed, forgotten : {TRUE}] : d.forgotten = TRUE /\ d.name \in filed
    OBVIOUS
  <2>2. \A d \in t.discarded : d \in s.discarded \/ d \in [name : filed, forgotten : {TRUE}]
    BY <1>9, <1>l, Zenon
  <2> QED BY <2>1, <2>2
<1>17. \A n \in Names : Named(s, n) => Named(t, n)
  <2>1. \A n \in Names : IsParked(s, n) => IsParked(t, n) \/ n \in filed
    BY <1>11, <1>2 DEF IsParked
  <2>2. \A n \in Names : MoveHolds(s, n) <=> MoveHolds(t, n) BY <1>9 DEF MoveHolds
  <2> QED BY <2>1, <2>2, <1>12, <1>13, NamedIs
<1> QED BY <1>1, <1>7, <1>8, <1>9, <1>10, <1>15, <1>16, <1>17 DEF Removes

-----------------------------------------------------------------------------
(* What a step of a run keeps: the ends, the app, and what settling makes of a move. *)

\* What a folder is to whoever puts it back is said by the folder alone.
LEMMA WholeStays ==
  ASSUME NEW n, folders'[n] = folders[n]
  PROVE  \A a, l : Whole(n, a, l)' <=> Whole(n, a, l)
BY DEF Whole, HeldItems, InFolder, NamedBy

\* A park that can be put back: a folder of that account's, with that session.
LEMMA CanArriveIs ==
  ASSUME NEW a
  PROVE  CanArrive(a) <=> saved.parked[a] # None /\ Whole(saved.parked[a].name, a, saved.parked[a].login)
BY DEF CanArrive, Whole

\* It still can, where neither its folder nor what is recorded of it changed.
LEMMA CanArriveStays ==
  ASSUME NEW a, saved'.parked[a] = saved.parked[a],
         folders'[saved.parked[a].name] = folders[saved.parked[a].name]
  PROVE  CanArrive(a)' <=> CanArrive(a)
<1> PICK n, l : n = saved.parked[a].name /\ l = saved.parked[a].login OBVIOUS
<1>1. Whole(n, a, l)' <=> Whole(n, a, l) BY WholeStays
<1>2. CanArrive(a)' <=> saved'.parked[a] # None /\ Whole(n, a, l)' BY DEF CanArrive, Whole
<1>3. CanArrive(a) <=> saved.parked[a] # None /\ Whole(n, a, l) BY DEF CanArrive, Whole
<1> QED BY <1>1, <1>2, <1>3

\* Nothing written: what is on the disk stays as it was.
LEMMA SameData ==
  ASSUME Data, UNCHANGED <<root, folders, saved, pending>>
  PROVE  Data'
BY DEF Data, JarsTyped, EveryFolderNamed, HoldsAnything, InFolder, Named, MoveHolds, Once, Apart, IsPark,
       IsParked, Aside, Listed, MovePark, Moving, ParksWhole, CanArrive, HeldItems

\* A run that ends.
LEMMA EndKeeps ==
  ASSUME pc' = "idle", run' = NoRun
  PROVE  RunInv'
<1>1. /\ NoRun.op = None /\ NoRun.half = None /\ NoRun.row = None /\ NoRun.on = "forward"
      /\ NoRun.stopped = FALSE
  BY DEF NoRun
<1>2. None \notin Commands \cup Rows \cup Stages BY NoneApart
<1>3. Ops' BY <1>1, <1>2 DEF Ops, Commands
<1>4. Halves' BY <1>1, <1>2 DEF Halves, Stages
<1>5. SwitchPark' BY <1>1, <1>2 DEF SwitchPark, Doing, Fallible
<1>6. Reserving' BY DEF Reserving
<1>7. Building' BY DEF Building
<1>8. RowInv' BY DEF RowInv, Doing, Fallible
<1>9. Committing' BY DEF Committing
<1> QED BY <1>3, <1>4, <1>5, <1>6, <1>7, <1>8, <1>9 DEF RunInv

\* A step of the run alone, whose place and data are typed.
LEMMA Stands ==
  ASSUME Inv, UNCHANGED <<root, folders, saved, pending, appOpen, issued>>, pc' \in Steps, run' \in Runs,
         ended' \subseteq Sessions, ran' \in BOOLEAN
  PROVE  TypeOK' /\ Data'
BY SameData DEF Inv, TypeOK

\* A run that ends, nothing written.
LEMMA Ends ==
  ASSUME Inv, UNCHANGED <<root, folders, saved, pending, appOpen, issued, ended, ran>>, End
  PROVE  Inv'
<1>1. NoRun \in Runs BY DEF NoRun, Runs
<1>2. pc' = "idle" /\ run' = NoRun BY DEF End
<1>3. ended' \subseteq Sessions /\ ran' \in BOOLEAN BY DEF Inv, TypeOK
<1>4. TypeOK' /\ Data' BY <1>1, <1>2, <1>3, Stands DEF Steps
<1> QED BY <1>2, <1>4, EndKeeps DEF Inv

\* The steps that are of no move in particular.
Plain == {"idle", "sweep", "begin", "look", "giveUp", "enrol", "forget", "reclaim", "giveBack", "purge"}

\* Of those, only what the command is and which half it was in says anything.
LEMMA PlainKeeps ==
  ASSUME pc' \in Plain, Ops', Halves'
  PROVE  RunInv'
<1>1. SwitchPark' BY DEF SwitchPark, Doing, Fallible, Plain
<1>2. Reserving' BY DEF Reserving, Plain
<1>3. Building' BY DEF Building, Plain
<1>4. RowInv' BY DEF RowInv, Doing, Fallible, Plain
<1>5. Committing' BY DEF Committing, Plain
<1> QED BY <1>1, <1>2, <1>3, <1>4, <1>5 DEF RunInv

\* A command's first step.
LEMMA StartInv ==
  ASSUME Inv, NEW op \in Commands, NEW who \in Accounts \cup {None}, Start(op, who)
  PROVE  Inv'
<1>0. /\ pc = "idle" /\ pc' \in {"begin", "sweep"}
      /\ run' = [NoRun EXCEPT !.op = op, !.who = who]
      /\ op \in {"switch", "forget"} => who \in saved.enrolled
      /\ UNCHANGED <<root, folders, saved, pending, appOpen, issued, opens, ended, ran, mishaps>>
  BY DEF Start, Still, disk, app
<1>r. PICK r : r = [NoRun EXCEPT !.op = op, !.who = who] OBVIOUS
<1>1. /\ r \in Runs
      /\ r.op = op /\ r.who = who /\ r.half = None /\ r.row = None /\ r.on = "forward"
      /\ r.stopped = FALSE /\ r.name = None
  BY <1>r DEF NoRun, Runs
<1>2. run' = r BY <1>0, <1>r
<1>3. TypeOK' BY <1>0, <1>1, <1>2 DEF Inv, TypeOK, Steps
<1>4. Data' BY <1>0, SameData DEF Inv
<1>5. None \notin Commands \cup Rows \cup Stages BY NoneApart
<1>6. op # None BY <1>5
<1>7. who \in saved.enrolled => who \in Accounts BY DEF Inv, TypeOK, Records
<1>8. Ops' BY <1>0, <1>1, <1>2, <1>5, <1>6, <1>7 DEF Ops, Commands
<1>9. Halves' BY <1>0, <1>1, <1>2, <1>5 DEF Halves, Stages
<1> QED BY <1>0, <1>3, <1>4, <1>8, <1>9, PlainKeeps DEF Inv, Plain

\* Closed.
LEMMA BeginInv ==
  ASSUME Inv, Begin
  PROVE  Inv'
<1>0. /\ pc = "begin"
      /\ UNCHANGED <<root, folders, saved, pending, appOpen, issued, opens, ended, ran>>
  BY DEF Begin, Still, disk, app
<1>i. TypeOK /\ Ops /\ Halves BY DEF Inv, RunInv
<1>5. None \notin Commands \cup Rows \cup Stages BY NoneApart
<1>e. ended' \subseteq Sessions /\ ran' \in BOOLEAN BY <1>0 DEF Inv, TypeOK
<1>1. CASE pc' = "settle" /\ run' = [run EXCEPT !.on = "settle"]
  <2>1. run' \in Runs BY <1>1, <1>i DEF TypeOK, Runs
  <2>2. /\ run'.on = "settle" /\ run'.op = run.op /\ run'.who = run.who /\ run'.half = run.half
        /\ run'.row = run.row /\ run'.name = run.name /\ run'.stopped = run.stopped
    BY <1>1, <1>i DEF TypeOK, Runs
  <2>3. TypeOK' /\ Data' BY <1>0, <1>1, <1>e, <2>1, Stands DEF Steps
  <2>8. Ops' BY <1>0, <1>1, <2>2, <1>i, <1>5 DEF Ops, Commands
  <2>9. Halves' BY <1>0, <1>1, <2>2, <1>i, <1>5 DEF Halves, Stages, Ops
  <2>10. SwitchPark' BY <1>0, <1>1, <2>2, <1>i, <1>5 DEF SwitchPark, Ops, Stages
  <2>11. Reserving' BY <1>1 DEF Reserving
  <2>12. Building' BY <1>1 DEF Building
  <2>13. RowInv' BY <1>1 DEF RowInv, Doing, Fallible
  <2>14. Committing' BY <1>1 DEF Committing
  <2> QED BY <2>3, <2>8, <2>9, <2>10, <2>11, <2>12, <2>13, <2>14 DEF Inv, RunInv
<1>2. CASE pc' = "reclaim" /\ run' = run /\ run.op = "repair"
  <2>3. TypeOK' /\ Data' BY <1>0, <1>2, <1>i, <1>e, Stands DEF Steps, TypeOK
  <2>8. Ops' BY <1>0, <1>2, <1>i, <1>5 DEF Ops, Commands
  <2>9. Halves' BY <1>0, <1>2, <1>i, <1>5 DEF Halves, Stages, Ops
  <2> QED BY <1>2, <2>3, <2>8, <2>9, PlainKeeps DEF Inv, Plain
<1>3. CASE pc' = "forget" /\ run' = [run EXCEPT !.stopped = TRUE] /\ run.op = "forget" /\ Moving = NoMove
  <2>1. run' \in Runs BY <1>3, <1>i DEF TypeOK, Runs
  <2>2. /\ run'.on = run.on /\ run'.op = run.op /\ run'.who = run.who /\ run'.half = run.half
        /\ run'.row = run.row /\ run'.name = run.name
    BY <1>3, <1>i DEF TypeOK, Runs
  <2>3. TypeOK' /\ Data' BY <1>0, <1>3, <1>e, <2>1, Stands DEF Steps
  <2>8. Ops' BY <1>0, <1>3, <2>2, <1>i, <1>5 DEF Ops, Commands, Moving
  <2>9. Halves' BY <1>0, <1>3, <2>2, <1>i, <1>5 DEF Halves, Stages, Ops, Moving
  <2> QED BY <1>3, <2>3, <2>8, <2>9, PlainKeeps DEF Inv, Plain
<1>4. CASE End
  BY <1>0, <1>4, Ends
<1> QED BY <1>0, <1>1, <1>2, <1>3, <1>4 DEF Begin, Goes

\* What follows a settling, the move gone.
LEMMA ContinuesKeeps ==
  ASSUME TypeOK, Ops, Halves, Continues, Moving' = NoMove, run.half # "done",
         pc \in {"settle", "purge", "commitLeave"}
  PROVE  /\ RunInv'
         /\ pc' \in Steps /\ run' \in Runs
<1>5. None \notin Commands \cup Rows \cup Stages BY NoneApart
<1>1. CASE End
  <2>1. NoRun \in Runs BY DEF NoRun, Runs
  <2> QED BY <1>1, <2>1, EndKeeps DEF End, Steps
<1>2. CASE pc' = "reclaim" /\ run' = run /\ run.op = "repair"
  <2>1. Ops' BY <1>2, <1>5 DEF Ops, Commands
  <2>2. Halves' BY <1>2, <1>5 DEF Ops, Halves, Stages
  <2> QED BY <1>2, <2>1, <2>2, PlainKeeps DEF Plain, TypeOK, Steps
<1>3. CASE pc' = "look" /\ run' = run /\ run.on = "settle" /\ run.op \notin {"repair", "abandon"}
  <2>1. Ops' BY <1>3, <1>5 DEF Ops, Commands
  <2>2. Halves' BY <1>3, <1>5 DEF Ops, Halves, Stages
  <2> QED BY <1>3, <2>1, <2>2, PlainKeeps DEF Plain, TypeOK, Steps
<1>4. CASE pc' = "enrol" /\ run' = run /\ run.on = "giveUp" /\ run.op # "abandon"
  <2>1. Ops' BY <1>4, <1>5 DEF Ops, Commands
  <2>2. Halves' BY <1>4, <1>5 DEF Ops, Halves, Stages
  <2> QED BY <1>4, <2>1, <2>2, PlainKeeps DEF Plain, TypeOK, Steps
<1> QED BY <1>1, <1>2, <1>3, <1>4 DEF Continues, Goes

\* What follows a move that cannot be settled, or a step of it that failed at once.
LEMMA UndeterminedKeeps ==
  ASSUME TypeOK, Ops, Halves, Undetermined, Moving' = Moving, run.on = "settle" => Moving # NoMove,
         run.half # "done", pc \in Fallible \cup {"settle"}
  PROVE  /\ RunInv'
         /\ pc' \in Steps /\ run' \in Runs
<1>5. None \notin Commands \cup Rows \cup Stages BY NoneApart
<1>1. CASE End
  <2>1. NoRun \in Runs BY DEF NoRun, Runs
  <2> QED BY <1>1, <2>1, EndKeeps DEF End, Steps
<1>2. CASE pc' = "reclaim" /\ run' = run /\ run.op = "repair" /\ run.on = "settle"
  <2>1. Ops' BY <1>2, <1>5 DEF Ops, Commands
  <2>2. Halves' BY <1>2, <1>5 DEF Ops, Halves, Stages
  <2> QED BY <1>2, <2>1, <2>2, PlainKeeps DEF Plain, TypeOK, Steps
<1>3. CASE pc' = "look" /\ run' = [run EXCEPT !.stopped = TRUE] /\ run.on = "settle" /\ run.op = "enroll"
  <2>1. run' \in Runs BY <1>3 DEF TypeOK, Runs
  <2>2. /\ run'.on = run.on /\ run'.op = run.op /\ run'.who = run.who /\ run'.half = run.half
        /\ run'.row = run.row /\ run'.name = run.name /\ run'.stopped = TRUE
    BY <1>3 DEF TypeOK, Runs
  <2>3. Ops' BY <1>3, <2>2, <1>5 DEF Ops, Commands
  <2>4. Halves' BY <1>3, <2>2, <1>5 DEF Ops, Halves, Stages
  <2> QED BY <1>3, <2>1, <2>3, <2>4, PlainKeeps DEF Plain, Steps
<1>4. CASE pc' = "giveUp" /\ run' = run /\ run.on = "settle" /\ run.op = "abandon"
  <2>1. Ops' BY <1>4, <1>5 DEF Ops, Commands
  <2>2. Halves' BY <1>4, <1>5 DEF Ops, Halves, Stages
  <2> QED BY <1>4, <2>1, <2>2, PlainKeeps DEF Plain, TypeOK, Steps
<1> QED BY <1>1, <1>2, <1>3, <1>4 DEF Undetermined, Goes

\* What follows a step that failed.
LEMMA FailedKeeps ==
  ASSUME Inv, Failed, pc \in Fallible, UNCHANGED <<root, folders, saved, pending, appOpen, issued, ended, ran>>
  PROVE  Inv'
<1>i. TypeOK /\ Ops /\ Halves /\ SwitchPark /\ RowInv BY DEF Inv, RunInv
<1>5. None \notin Commands \cup Rows \cup Stages BY NoneApart
<1>e. ended' \subseteq Sessions /\ ran' \in BOOLEAN BY DEF Inv, TypeOK
<1>m. Moving' = Moving BY DEF Moving
<1>h. run.half # "done" BY <1>i DEF Halves, Fallible
<1>s. run.on = "settle" => Moving # NoMove
  <2>1. pc \in Doing /\ run.row \in Rows BY <1>i DEF RowInv, Doing, TypeOK, Runs
  <2> QED BY <2>1, <1>i DEF Rows, RowInv, OfLeave, OfArrive, OfKeysBack, OfLeaveOn, OfBack, OfKeysAside,
                            OfGiveUp, OfStart
<1>1. CASE Undetermined
  <2>1. RunInv' /\ pc' \in Steps /\ run' \in Runs
    BY <1>1, <1>i, <1>m, <1>s, <1>h, UndeterminedKeeps
  <2> QED BY <2>1, <1>e, Stands DEF Inv
<1>2. CASE /\ pc' = "settle" /\ run' = [run EXCEPT !.on = "after"]
           /\ run.on = "forward" /\ Moving # NoMove
  <2>1. run' \in Runs BY <1>2, <1>i DEF TypeOK, Runs
  <2>2. /\ run'.on = "after" /\ run'.op = run.op /\ run'.who = run.who /\ run'.half = run.half
        /\ run'.row = run.row /\ run'.name = run.name /\ run'.stopped = run.stopped
    BY <1>2, <1>i DEF TypeOK, Runs
  <2>3. TypeOK' /\ Data' BY <1>2, <1>e, <2>1, Stands DEF Steps
  <2>8. Ops' BY <1>2, <2>2, <1>i, <1>5, <1>m DEF Ops, Commands, Fallible
  <2>9. Halves' BY <1>2, <2>2, <1>i, <1>5, <1>m DEF Halves, Stages, Ops, Fallible
  <2>10. SwitchPark'
    <3>1. \A a : CanArrive(a) => CanArrive(a)' BY DEF CanArrive, HeldItems, InFolder
    <3> QED BY <1>2, <2>2, <1>i, <1>m, <3>1 DEF SwitchPark, Doing
  <2>11. Reserving' BY <1>2 DEF Reserving
  <2>12. Building' BY <1>2 DEF Building
  <2>13. RowInv' BY <1>2 DEF RowInv, Doing, Fallible
  <2>14. Committing' BY <1>2 DEF Committing
  <2> QED BY <2>3, <2>8, <2>9, <2>10, <2>11, <2>12, <2>13, <2>14 DEF Inv, RunInv
<1> QED BY <1>1, <1>2 DEF Failed
\* Only the app's folder written: all that is said of the record and of parks stays.
LEMMA RootData ==
  ASSUME Data, UNCHANGED <<folders, saved, pending>>, root'.has[Jar] \in Jars
  PROVE  Data'
<1>1. JarsTyped' BY DEF Data, JarsTyped
<1>2. EveryFolderNamed' BY DEF Data, EveryFolderNamed, HoldsAnything, InFolder, Named, MoveHolds
<1>3. Once(saved)' /\ Apart(saved)'
  BY DEF Data, Once, Apart, IsPark, IsParked, Aside, Listed, MoveHolds
<1>4. MovePark' BY DEF Data, MovePark, Moving
<1>5. ParksWhole' BY DEF Data, ParksWhole, CanArrive, HeldItems, InFolder, MoveHolds
<1> QED BY <1>1, <1>2, <1>3, <1>4, <1>5 DEF Data

\* The run's invariant, where the jar, the keys and all that is on the disk are as they were.
LEMMA RunStands ==
  ASSUME RunInv, UNCHANGED <<folders, saved, pending, pc, run>>,
         root'.has[Jar] = root.has[Jar], root'.keys = root.keys
  PROVE  RunInv'
<1>1. Ops' /\ Halves' BY DEF RunInv, Ops, Halves, Moving
<1>2. SwitchPark' BY DEF RunInv, SwitchPark, Moving, CanArrive, HeldItems, InFolder
<1>3. Reserving'
  BY DEF RunInv, Reserving, Moving, CanArrive, HeldItems, InFolder, Named, MoveHolds
<1>4. Building' BY DEF RunInv, Building
<1>5. RowInv'
  BY DEF RunInv, RowInv, OfLeave, OfArrive, OfKeysBack, OfLeaveOn, OfBack, OfKeysAside, OfGiveUp,
     OfStart, Moving, Whole, HeldItems, InFolder, Named, MoveHolds
<1>6. Committing' BY DEF RunInv, Committing, Moving, Whole, HeldItems, InFolder
<1> QED BY <1>1, <1>2, <1>3, <1>4, <1>5, <1>6 DEF RunInv

\* The app gone as it was.
LEMMA DiesInv ==
  ASSUME Inv, Dies
  PROVE  Inv'
<1>1. /\ UNCHANGED <<root, folders, saved, pending, pc, run, issued, ended, ran>> /\ appOpen' = FALSE
  BY DEF Dies, disk
<1>2. TypeOK' BY <1>1 DEF Inv, TypeOK
<1>3. Data' BY <1>1, SameData DEF Inv
<1>4. RunInv' BY <1>1, RunStands DEF Inv
<1> QED BY <1>2, <1>3, <1>4 DEF Inv

\* The app quit: it writes its own folder, and no run is under way.
LEMMA WritesInv ==
  ASSUME Inv, NEW jar \in Jars, NEW keys \in Keys, NEW is \in Accounts \cup {Fresh}, Writes(jar, keys, is),
         issued' \subseteq Sessions
  PROVE  Inv'
<1>1. /\ pc = "idle" /\ UNCHANGED <<folders, saved, pending, pc, run>> /\ appOpen' = FALSE /\ ran' = TRUE
      /\ ended' = ended \cup ({root.has[Jar]} \cap (Sessions \ {jar}))
  BY DEF Writes, disk
<1>h. PICK has : has = [i \in ItemSet |-> IF i = Jar THEN jar
                                          ELSE IF InRoot(i) /\ is # Fresh THEN is
                                          ELSE root.has[i]] OBVIOUS
<1>2. root' = [has |-> has, keys |-> keys] BY <1>h DEF Writes
<1>3. root \in [has : Holding, keys : Keys] BY DEF Inv, TypeOK
<1>4. has \in Holding BY <1>h, <1>3 DEF Holding, Jars
<1>5. root' \in [has : Holding, keys : Keys] /\ root'.has[Jar] = jar
  BY <1>2, <1>4, <1>h, Constant
<1>6. TypeOK' BY <1>1, <1>5 DEF Inv, TypeOK
<1>7. Data' BY <1>1, <1>5, RootData DEF Inv
<1>8. run = NoRun BY <1>1 DEF Inv, RunInv, Ops
<1>9. RunInv' BY <1>1, <1>8, EndKeeps
<1> QED BY <1>6, <1>7, <1>9 DEF Inv

\* The app opened: it makes stores, and no jar.
LEMMA OpensInv ==
  ASSUME Inv, Opens
  PROVE  Inv'
<1>1. /\ UNCHANGED <<folders, saved, pending, pc, run, issued, ended, ran>> /\ appOpen' = TRUE
  BY DEF Opens, disk
<1>h. PICK has : has = [i \in ItemSet |-> IF i \in Rest /\ ~InRoot(i) THEN Fresh ELSE root.has[i]] OBVIOUS
<1>2. root' = [root EXCEPT !.has = has] BY <1>h DEF Opens
<1>3. root \in [has : Holding, keys : Keys] BY DEF Inv, TypeOK
<1>4. has \in Holding BY <1>h, <1>3 DEF Holding
<1>5. has[Jar] = root.has[Jar] BY <1>h, Constant
<1>6. /\ root' \in [has : Holding, keys : Keys]
      /\ root'.has[Jar] = root.has[Jar] /\ root'.keys = root.keys
  BY <1>2, <1>3, <1>4, <1>5
<1>7. TypeOK' BY <1>1, <1>6 DEF Inv, TypeOK
<1>8. root'.has[Jar] \in Jars BY <1>6 DEF Inv, Data, JarsTyped
<1>9. Data' BY <1>1, <1>8, RootData DEF Inv
<1>10. RunInv' BY <1>1, <1>6, RunStands DEF Inv
<1> QED BY <1>7, <1>9, <1>10 DEF Inv

\* Each way the app quits writes a jar and keys.
LEMMA AppInv ==
  ASSUME Inv, App
  PROVE  Inv'
<1>0. /\ root.keys \in Keys /\ root.has[Jar] \in Jars /\ issued \subseteq Sessions
      /\ root \in [has : Holding, keys : Keys]
  BY DEF Inv, TypeOK, Data, JarsTyped
<1>1. \A who \in Accounts \cup {None} : \A tok \in Tokens \cup {Emptied} : [who |-> who, tok |-> tok] \in Keys
  BY DEF Keys
<1>2. NamedBy(root.keys) \in Accounts \cup {None} BY <1>0 DEF NamedBy, Keys
<1>3. [who |-> NamedBy(root.keys), tok |-> Emptied] \in Keys BY <1>1, <1>2
<1>4. NoSession \in Jars /\ Sessions \subseteq Jars /\ \A s \in Sessions : Owner[s] \in Accounts
  BY SessionsOwned DEF Jars
<1>5. CASE Opens BY <1>5, OpensInv
<1>6. CASE Dies BY <1>6, DiesInv
<1>7. CASE QuitsAsItWas
  <2>1. issued' \subseteq Sessions BY <1>0, <1>7 DEF QuitsAsItWas
  <2>2. CASE Writes(NoSession, [who |-> NamedBy(root.keys), tok |-> Emptied], Fresh)
    BY <2>1, <2>2, <1>3, <1>4, WritesInv
  <2>3. CASE Writes(root.has[Jar], root.keys, Fresh)
    BY <2>1, <2>3, <1>0, WritesInv
  <2>4. ASSUME root.has[Jar] \in Sessions, root.keys # None,
               NEW tok \in CachesOf(root.has[Jar], root.keys.who),
               Writes(root.has[Jar], [root.keys EXCEPT !.tok = tok], Owner[root.has[Jar]])
        PROVE  Inv'
    <3> PICK jar, keys, is : /\ jar = root.has[Jar] /\ keys = [root.keys EXCEPT !.tok = tok]
                             /\ is = Owner[root.has[Jar]]
      OBVIOUS
    <3>1. tok \in Tokens \cup {Emptied} BY <2>4 DEF CachesOf
    <3>2. keys \in Keys BY <2>4, <3>1, <1>0 DEF Keys
    <3>3. jar \in Jars /\ is \in Accounts \cup {Fresh} BY <1>0, <1>4, <2>4
    <3>4. Writes(jar, keys, is) BY <2>4
    <3> QED BY <2>1, <3>2, <3>3, <3>4, WritesInv
  <2> QED BY <1>7, <2>2, <2>3, <2>4 DEF QuitsAsItWas
<1>8. CASE QuitsLoggedOut
  BY <1>8, <1>0, <1>3, <1>4, WritesInv DEF QuitsLoggedOut
<1>9. ASSUME NEW s \in Sessions, QuitsSignedIn(s) PROVE Inv'
  <2>1. PICK who \in {Owner[s], NamedBy(root.keys)} : \E tok \in CachesOf(s, who) :
          Writes(s, [who |-> who, tok |-> tok], Owner[s])
    BY <1>9 DEF QuitsSignedIn
  <2>2. PICK tok \in CachesOf(s, who) : Writes(s, [who |-> who, tok |-> tok], Owner[s])
    BY <2>1
  <2>3. tok \in Tokens \cup {Emptied} /\ who \in Accounts \cup {None}
    BY <1>2, <1>4 DEF CachesOf
  <2>4. [who |-> who, tok |-> tok] \in Keys BY <1>1, <2>3
  <2>5. issued' \subseteq Sessions BY <1>0, <1>9 DEF QuitsSignedIn
  <2> QED BY <2>2, <2>4, <2>5, <1>4, WritesInv
<1> QED BY <1>5, <1>6, <1>7, <1>8, <1>9 DEF App

\* What settling a move may make of it: the row, and what it goes by.
RowIs(m, r) ==
  \/ r = [step |-> "undone", row |-> None, items |-> {}] /\ m.half = "leave"
  \/ r = [step |-> "put", row |-> "keysBack", items |-> {}] /\ m.half = "leave"
  \/ /\ r.step \in {"clear", "out"} /\ r.row = "leaveOn" /\ r.items = m.items /\ m.half = "leave"
     /\ root.has[Jar] = m.login /\ folders[m.park].keys = {m.keys}
  \/ /\ r.step = "out" /\ r.row = "leaveOn" /\ r.items \in SUBSET (m.items \ {Jar}) /\ m.half = "leave"
     /\ folders[m.park].has[Jar] = m.login
  \/ r = [step |-> "commitArrive", row |-> None, items |-> {}] /\ m.half = "arrive"
  \/ /\ r.step = "out" /\ r.row = "back" /\ r.items = m.items /\ m.half = "arrive"
     /\ root.has[Jar] = m.login
  \/ /\ r.step = "reserve" /\ m.half = "arrive" /\ root.has[Jar] = m.login /\ root.keys # None
  \/ /\ r.step = "out" /\ r.row \in {"back", "backAside"} /\ r.items = m.items \ {Jar}
     /\ m.half = "arrive"
  \/ r.step = "stop"

\* The row settling finds is one of those.
LEMMA RowOf ==
  ASSUME NEW m \in Moves, NEW r, r = Row(m)
  PROVE  RowIs(m, r)
<1> DEFINE here == JarIs(root.has[Jar], m.login)
           To(step, line, items) == [step |-> step, row |-> line, items |-> items]
<1>1. here = "mine" => root.has[Jar] = m.login BY DEF JarIs
<1>2. JarIs(folders[m.park].has[Jar], m.login) = "mine" => folders[m.park].has[Jar] = m.login BY DEF JarIs
<1>3. KeysAre(m) \in {"signedOut", "other"} => root.keys # None BY DEF KeysAre
<1>4. \A k, is : /\ LeftOn(k, is).step \in {"clear", "out"} /\ LeftOn(k, is).row = "leaveOn"
                 /\ LeftOn(k, is).items = is
                 /\ k # "mine" => LeftOn(k, is).step = "out"
  BY DEF LeftOn
<1>5. CASE m.half = "leave"
  <2>1. \/ r = To("undone", None, {})
        \/ r = To("put", "keysBack", {})
        \/ here = "mine" /\ folders[m.park].keys = {m.keys} /\ r = LeftOn(KeysAre(m), m.items)
        \/ /\ JarIs(folders[m.park].has[Jar], m.login) = "mine"
           /\ \E is \in SUBSET (m.items \ {Jar}) : r = LeftOn("none", is)
        \/ r = To("stop", None, {})
    BY <1>5 DEF Row
  <2> QED BY <1>1, <1>2, <1>4, <1>5, <2>1 DEF RowIs
<1>6. CASE m.half = "arrive"
  <2>1. \/ r = To("commitArrive", None, {})
        \/ here = "mine" /\ r = To("out", "back", m.items)
        \/ here = "mine" /\ KeysAre(m) \in {"signedOut", "other"} /\ r = To("reserve", "keysAside", m.items)
        \/ r = To("out", IF here = "none" THEN "backAside" ELSE "back", m.items \ {Jar})
        \/ r = To("stop", None, {})
    BY <1>6 DEF Row
  <2> HIDE DEF here
  <2> QED BY <1>1, <1>3, <1>6, <2>1 DEF RowIs
<1> QED BY <1>5, <1>6 DEF Moves

\* What a move holds where one is recorded.
LEMMA MoveTyped ==
  ASSUME TypeOK, Moving # NoMove
  PROVE  /\ Moving \in Moves /\ Moving.park \in Names /\ Moving.who \in Accounts
         /\ Moving.login \in Sessions /\ Moving.items \in SUBSET ItemSet /\ Moving.keys \in Keys
         /\ Moving.asides \in SUBSET Names
BY DEF TypeOK, Records, Moving, Moves

\* A move settled: the step its row begins with.
LEMMA SettleInv ==
  ASSUME Inv, Settle
  PROVE  Inv'
<1>0. /\ pc = "settle"
      /\ UNCHANGED <<root, folders, saved, pending, appOpen, issued, opens, ended, ran>>
  BY DEF Settle, Still, disk, app
<1>i. TypeOK /\ Ops /\ Halves /\ SwitchPark /\ MovePark BY DEF Inv, RunInv, Data
<1>5. None \notin Commands \cup Rows \cup Stages BY NoneApart
<1>e. ended' \subseteq Sessions /\ ran' \in BOOLEAN BY <1>0 DEF Inv, TypeOK
<1>m. Moving' = Moving BY <1>0 DEF Moving
<1>h. run.half # "done" BY <1>0, <1>i DEF Halves
<1>1. CASE Moving = NoMove
  <2>1. Continues BY <1>1 DEF Settle
  <2>2. RunInv' /\ pc' \in Steps /\ run' \in Runs
    BY <2>1, <1>0, <1>1, <1>i, <1>m, <1>h, ContinuesKeeps
  <2> QED BY <1>0, <1>e, <2>2, Stands DEF Inv
<1>2. CASE Moving # NoMove
  <2> PICK m : m = Moving OBVIOUS
  <2> PICK r : r = Row(m) OBVIOUS
  <2>m. /\ m \in Moves /\ m.park \in Names /\ m.login \in Sessions /\ m.items \in SUBSET ItemSet
        /\ m.asides \in SUBSET Names /\ m # NoMove /\ m.who \in Accounts
    BY <1>2, <1>i, MoveTyped
  <2>r. RowIs(m, r) BY <2>m, RowOf
  <2>s. \/ Undetermined
        \/ r.step = "reserve" /\ pc' = "reserve" /\ run' = [run EXCEPT !.half = "keysAside"]
        \/ r.step \notin {"stop", "reserve"} /\ Starts(r.step, run.on, r.row, r.items, m.park)
    BY <1>2 DEF Settle
  <2>1. CASE Undetermined
    <3>1. RunInv' /\ pc' \in Steps /\ run' \in Runs
      BY <2>1, <1>0, <1>2, <1>i, <1>m, <1>h, UndeterminedKeeps
    <3> QED BY <1>0, <1>e, <3>1, Stands DEF Inv
  <2>2. CASE r.step = "reserve" /\ pc' = "reserve" /\ run' = [run EXCEPT !.half = "keysAside"]
    <3>1. m.half = "arrive" /\ root.has[Jar] = m.login /\ root.keys # None
      BY <2>2, <2>r DEF RowIs
    <3>2. run' \in Runs BY <2>2, <1>i DEF TypeOK, Runs, Stages
    <3>3. /\ run'.on = run.on /\ run'.op = run.op /\ run'.who = run.who /\ run'.half = "keysAside"
          /\ run'.session = run.session /\ run'.stopped = run.stopped /\ run'.name = run.name
          /\ run'.row = run.row
      BY <2>2, <1>i DEF TypeOK, Runs
    <3>4. TypeOK' /\ Data' BY <1>0, <1>e, <2>2, <3>2, Stands DEF Steps
    <3>5. Ops' BY <1>0, <1>5, <1>i, <1>m, <2>2, <3>3 DEF Ops, Commands
    <3>6. Halves' BY <1>0, <1>5, <1>i, <1>m, <2>2, <2>m, <3>1, <3>3 DEF Halves, Ops, Stages
    <3>7. SwitchPark' BY <3>3 DEF SwitchPark
    <3>8. Reserving' BY <1>0, <1>m, <2>2, <3>1, <3>3 DEF Reserving
    <3>9. Building' BY <2>2 DEF Building
    <3>10. RowInv' BY <2>2 DEF RowInv, Doing, Fallible
    <3>11. Committing' BY <2>2 DEF Committing
    <3> QED BY <3>4, <3>5, <3>6, <3>7, <3>8, <3>9, <3>10, <3>11 DEF Inv, RunInv
  <2>3. CASE Starts(r.step, run.on, r.row, r.items, m.park) /\ r.step \notin {"stop", "reserve"}
    <3>0. pc' = r.step /\ run' = [run EXCEPT !.on = run.on, !.row = r.row, !.items = r.items, !.to = m.park]
      BY <2>3 DEF Starts
    <3>p. pc' = r.step BY <3>0
    <3>1. /\ r.step \in {"undone", "put", "clear", "out", "commitArrive"}
          /\ r.row \in Rows \cup {None} /\ r.items \in SUBSET ItemSet
      BY <2>3, <2>r, <2>m DEF RowIs, Rows
    <3>2. run' \in Runs BY <3>0, <3>1, <2>m, <1>i DEF TypeOK, Runs
    <3>3. /\ run'.on = run.on /\ run'.op = run.op /\ run'.who = run.who /\ run'.half = run.half
          /\ run'.session = run.session /\ run'.stopped = run.stopped /\ run'.name = run.name
          /\ run'.row = r.row /\ run'.items = r.items /\ run'.to = m.park
      BY <3>0, <1>i DEF TypeOK, Runs
    <3>4. TypeOK' /\ Data' BY <1>0, <1>e, <3>p, <3>1, <3>2, Stands DEF Steps, Fallible, Closing
    <3>5. Ops' BY <1>0, <1>5, <1>i, <1>m, <3>p, <3>1, <3>3 DEF Ops, Commands
    <3>6. Halves' BY <1>0, <1>5, <1>i, <1>m, <3>p, <3>1, <3>3 DEF Halves, Ops, Stages
    <3>7. SwitchPark'
      <4>1. \A a : CanArrive(a) => CanArrive(a)' BY <1>0 DEF CanArrive, HeldItems, InFolder
      <4> QED BY <1>0, <1>i, <1>m, <3>3, <4>1 DEF SwitchPark
    <3>8. Reserving' BY <3>p, <3>1 DEF Reserving
    <3>9. Building' BY <3>p, <3>1 DEF Building
    <3>o. run.on \in {"settle", "after"} BY <1>0, <1>i DEF Ops
    <3>k. folders[m.park].has[Jar] = m.login => folders[m.park].keys = {m.keys}
      <4>1. m.login # None BY <2>m, SessionsApart
      <4> QED BY <4>1, <2>m, <1>i, Constant DEF MovePark
    <3>10. RowInv'
      <4>1. r.row \in {None, "keysBack", "leaveOn", "back", "backAside"} BY <2>3, <2>r DEF RowIs
      <4>2. r.row = None => pc' \notin Doing BY <1>5, <2>3, <2>r, <3>p DEF RowIs, Doing, Fallible, Rows
      <4>3. r.row = "keysBack" => OfKeysBack'
        BY <1>5, <1>m, <2>3, <2>r, <2>m, <3>p, <3>3, <3>o DEF RowIs, OfKeysBack, Rows
      <4>4. r.row = "leaveOn" => OfLeaveOn'
        BY <1>0, <1>5, <1>m, <2>3, <2>r, <2>m, <3>p, <3>3, <3>o, <3>k DEF RowIs, OfLeaveOn, Rows
      <4>5. r.row \in {"back", "backAside"} => OfBack'
        BY <1>0, <1>5, <1>m, <2>3, <2>r, <2>m, <3>p, <3>3, <3>o DEF RowIs, OfBack, Rows
      <4>6. pc' # "started" BY <3>p, <3>1
      <4> QED BY <1>5, <3>3, <4>1, <4>2, <4>3, <4>4, <4>5, <4>6 DEF RowInv, Rows
    <3>11. Committing' BY <1>5, <1>m, <2>3, <2>r, <2>m, <3>p, <3>1, <3>3, <3>o DEF Committing, RowIs, Rows
    <3> QED BY <3>4, <3>5, <3>6, <3>7, <3>8, <3>9, <3>10, <3>11 DEF Inv, RunInv
  <2> QED BY <2>s, <2>1, <2>2, <2>3
<1> QED BY <1>1, <1>2

\* Only who is in use, or enrolled, changed in the record.
LEMMA UseData ==
  ASSUME Data, UNCHANGED <<root, folders, pending>>,
         saved'.parked = saved.parked, saved'.aside = saved.aside,
         saved'.discarded = saved.discarded, saved'.moving = saved.moving
  PROVE  Data'
<1>1. JarsTyped' BY DEF Data, JarsTyped
<1>2. EveryFolderNamed' BY DEF Data, EveryFolderNamed, HoldsAnything, InFolder, Named, MoveHolds
<1>3. Once(saved)' /\ Apart(saved)'
  BY DEF Data, Once, Apart, IsPark, IsParked, Aside, Listed, MoveHolds
<1>4. MovePark' BY DEF Data, MovePark, Moving
<1>5. ParksWhole' BY DEF Data, ParksWhole, CanArrive, HeldItems, InFolder, MoveHolds
<1> QED BY <1>1, <1>2, <1>3, <1>4, <1>5 DEF Data

\* The findings of a look that name who the root is.
Known == {"account", "anothers", "heldTwice", "unseen", "alsoParked"}

\* What a look may find.
LEMMA LookIs ==
  ASSUME TypeOK, JarsTyped, NEW v, v = Look
  PROVE  /\ v.also \in Names \cup {None}
         /\ v.is \in {"unknown", "nobody", "unfinished"} \cup Known
         /\ v.is \in Known => /\ root.has[Jar] \in Sessions
                              /\ v.who = NamedBy(root.keys) /\ v.who \in Accounts
<1> DEFINE jar == root.has[Jar]
           named == NamedBy(root.keys)
           also == HeldBy(saved, jar)
<1>2. also \subseteq Names BY DEF HeldBy, TypeOK, Records
<1>3. named \in Accounts \cup {None} BY DEF NamedBy, TypeOK, Keys
<1>4. jar \in Jars BY DEF JarsTyped
<1>5. CASE jar = None \/ jar = NoSession
  <2>1. \E is \in {"unknown", "nobody"} : \E l : v = Says(is, None, l)
    BY <1>5, NoneApart DEF Look
  <2> QED BY <2>1 DEF Known, Says
<1>6. CASE jar \notin {None, NoSession}
  <2>1. \/ v = Says("unfinished", None, FALSE)
        \/ named # None /\ \E is \in Known : v = Says(is, named, FALSE)
        \/ named # None /\ also # {} /\ v = [Says("heldTwice", named, FALSE) EXCEPT !.also = CHOOSE n \in also : TRUE]
    <3> HIDE DEF also
    <3> QED BY <1>6 DEF Look, Known, also
  <2>2. also # {} => (CHOOSE n \in also : TRUE) \in Names BY <1>2
  <2>3. jar \in Sessions BY <1>4, <1>6 DEF Jars
  <2> HIDE DEF also, jar, named
  <2>4. CASE v = Says("unfinished", None, FALSE)
    BY <2>4 DEF Says, Known
  <2>5. ASSUME named # None, NEW is \in Known, v = Says(is, named, FALSE)
        PROVE  v.is = is /\ v.who = named /\ v.also = None
    BY <2>5 DEF Says
  <2>6. CASE named # None /\ also # {} /\ v = [Says("heldTwice", named, FALSE) EXCEPT !.also = CHOOSE n \in also : TRUE]
    <3> PICK o : o = CHOOSE n \in also : TRUE OBVIOUS
    <3>1. o \in Names BY <2>2, <2>6
    <3>2. v = [Says("heldTwice", named, FALSE) EXCEPT !.also = o] BY <2>6
    <3>3. v.is = "heldTwice" /\ v.who = named /\ v.also = o BY <3>2 DEF Says
    <3> QED BY <1>3, <2>3, <2>6, <3>1, <3>3 DEF Known, jar, named
  <2> QED BY <2>1, <2>3, <2>4, <2>5, <2>6, <1>3 DEF jar, named
<1> QED BY <1>5, <1>6

\* A half begun: a name is reserved, or an arrive that sets nothing aside recorded.
LEMMA BeginsInv ==
  ASSUME Inv, pc = "look", UNCHANGED <<root, appOpen, issued, ended, ran>>, Moving = NoMove,
         NEW half \in {"leave", "arrive", "start"}, NEW aside \in BOOLEAN, Begins(half, aside),
         half = "leave" => /\ run.op \in {"switch", "start"}
                           /\ root.has[Jar] \in Sessions /\ NamedBy(root.keys) \in Accounts
                           /\ run.op = "switch" => run.who # NamedBy(root.keys) /\ CanArrive(run.who),
         half = "arrive" => run.op = "switch" /\ CanArrive(run.who),
         half = "start" => run.op = "start" /\ root.keys # None
  PROVE  Inv'
<1>i. TypeOK /\ Ops /\ Halves BY DEF Inv, RunInv
<1>5. None \notin Commands \cup Rows \cup Stages BY NoneApart
<1>0. /\ UNCHANGED <<folders, saved, pending>>
      /\ pc' \in {"reserve", "record"} /\ (pc' = "record" => half = "arrive")
  BY DEF Begins, disk
<1>r. run' = [run EXCEPT !.half = half, !.on = "forward", !.name = None] BY DEF Begins
<1>1. run' \in Runs BY <1>r, <1>i DEF TypeOK, Runs, Stages
<1>2. /\ run'.on = "forward" /\ run'.op = run.op /\ run'.who = run.who /\ run'.half = half
      /\ run'.session = run.session /\ run'.stopped = run.stopped /\ run'.name = None
      /\ run'.row = run.row
  BY <1>r, <1>i DEF TypeOK, Runs
<1>e. ended' \subseteq Sessions /\ ran' \in BOOLEAN BY DEF Inv, TypeOK
<1>m. Moving' = Moving BY <1>0 DEF Moving
<1>3. TypeOK' /\ Data' BY <1>0, <1>1, <1>e, Stands DEF Steps
<1>c. \A a : CanArrive(a) => CanArrive(a)' BY <1>0 DEF CanArrive, HeldItems, InFolder
<1>k. NamedBy(root.keys)' = NamedBy(root.keys) BY DEF NamedBy
<1>8. Ops' BY <1>0, <1>2, <1>5, <1>i, <1>m DEF Ops, Commands
<1>9. Halves' BY <1>0, <1>2, <1>5, <1>i, <1>m DEF Halves, Ops, Stages
<1>10. SwitchPark' BY <1>0, <1>2, <1>m, <1>c DEF SwitchPark
<1>11. Reserving' BY <1>0, <1>2, <1>5, <1>i, <1>m, <1>c, <1>k DEF Reserving
<1>12. Building' BY <1>0 DEF Building
<1>13. RowInv' BY <1>0 DEF RowInv, Doing, Fallible
<1>14. Committing' BY <1>0 DEF Committing
<1> QED BY <1>3, <1>8, <1>9, <1>10, <1>11, <1>12, <1>13, <1>14 DEF Inv, RunInv

\* Nobody recorded as in use.
LEMMA NobodyOf ==
  ASSUME NEW s \in Records
  PROVE  /\ Nobody(s) \in Records
         /\ Nobody(s).parked = s.parked /\ Nobody(s).aside = s.aside
         /\ Nobody(s).discarded = s.discarded /\ Nobody(s).moving = s.moving
         /\ Nobody(s).enrolled = s.enrolled
BY DEF Nobody, Identified, Records

\* The look, and what each command makes of it.
LEMMA LookInv ==
  ASSUME Inv, LookAtIt
  PROVE  Inv'
<1>i. TypeOK /\ Ops /\ Halves /\ JarsTyped BY DEF Inv, RunInv, Data
<1>5. None \notin Commands \cup Rows \cup Stages BY NoneApart
<1>0. pc = "look" /\ UNCHANGED <<root, appOpen, issued, opens, ended, ran>>
  BY DEF LookAtIt, Still, app
<1>e. ended' \subseteq Sessions /\ ran' \in BOOLEAN BY <1>0 DEF Inv, TypeOK
<1> PICK v : v = Look OBVIOUS
<1>v. /\ v.also \in Names \cup {None}
      /\ v.is \in {"unknown", "nobody", "unfinished"} \cup Known
      /\ v.is \in Known => /\ root.has[Jar] \in Sessions
                           /\ v.who = NamedBy(root.keys) /\ v.who \in Accounts
  BY <1>i, LookIs
<1>s. saved \in Records BY <1>i DEF TypeOK
<1>1. CASE Refused
  <2>1. End /\ UNCHANGED <<folders, saved, pending>> BY <1>1 DEF Refused, disk
  <2> QED BY <1>0, <2>1, Ends
<1>2. CASE run.op = "switch" /\ LookForSwitch(v)
  <2>1. Moving = NoMove BY <1>0, <1>2, <1>i DEF Ops
  <2>2. CASE v.is = "account" /\ v.who # run.who /\ CanArrive(run.who) /\ Begins("leave", FALSE)
    BY <1>0, <1>2, <1>v, <2>1, <2>2, BeginsInv DEF Known
  <2>3. CASE CanArrive(run.who) /\ Begins("arrive", v.leftovers)
    <3>1. Begins("arrive", TRUE) \/ Begins("arrive", FALSE)
      BY <2>3 DEF Begins
    <3> QED BY <1>0, <1>2, <2>1, <2>3, <3>1, BeginsInv
  <2> QED BY <1>1, <1>2, <2>2, <2>3 DEF LookForSwitch
<1>3. CASE run.op = "start" /\ LookForStart(v)
  <2>1. Moving = NoMove BY <1>0, <1>3, <1>i DEF Ops
  <2>2. CASE v.is = "account" /\ Begins("leave", FALSE)
    BY <1>0, <1>3, <1>v, <2>1, <2>2, BeginsInv DEF Known
  <2>3. CASE root.keys # None /\ Begins("start", TRUE)
    BY <1>0, <1>3, <2>1, <2>3, BeginsInv
  <2>4. CASE End /\ saved' = Nobody(saved) /\ UNCHANGED <<folders, pending>>
    <3>1. pc' = "idle" /\ run' = NoRun BY <2>4 DEF End
    <3>2. Data' BY <1>0, <1>s, <2>4, NobodyOf, UseData DEF Inv
    <3>3. NoRun \in Runs BY DEF NoRun, Runs
    <3>4. TypeOK' BY <1>0, <1>i, <1>s, <2>4, <3>1, <3>3, NobodyOf DEF TypeOK, Steps
    <3>5. RunInv' BY <3>1, EndKeeps
    <3> QED BY <3>2, <3>4, <3>5 DEF Inv
  <2> QED BY <1>1, <1>3, <2>2, <2>3, <2>4 DEF LookForStart
<1>4. CASE run.op = "forget" /\ LookForForget(v)
  <2>0. /\ run' = [run EXCEPT !.stopped = v.is \notin {"account", "nobody"}] /\ pc' = "forget"
        /\ saved' \in {saved, Nobody(saved)} /\ UNCHANGED <<folders, pending>>
    BY <1>4 DEF LookForForget, disk
  <2>b. PICK b \in BOOLEAN : b = (v.is \notin {"account", "nobody"}) OBVIOUS
  <2>r. run' = [run EXCEPT !.stopped = b] BY <2>0, <2>b
  <2>1. run' \in Runs BY <2>r, <1>i DEF TypeOK, Runs
  <2>2. /\ run'.on = run.on /\ run'.op = run.op /\ run'.who = run.who /\ run'.half = run.half
        /\ run'.session = run.session /\ run'.name = run.name /\ run'.row = run.row
    BY <2>r, <1>i DEF TypeOK, Runs
  <2>p. pc' = "forget" /\ saved' \in {saved, Nobody(saved)} /\ UNCHANGED <<folders, pending>>
    BY <2>0
  <2>3. /\ saved' \in Records /\ saved'.parked = saved.parked /\ saved'.aside = saved.aside
        /\ saved'.discarded = saved.discarded /\ saved'.moving = saved.moving
    BY <1>s, <2>p, NobodyOf
  <2>4. Data' BY <1>0, <2>p, <2>3, UseData DEF Inv
  <2>5. TypeOK' BY <1>0, <1>i, <2>p, <2>1, <2>3 DEF TypeOK, Steps
  <2>m. Moving = NoMove /\ Moving' = NoMove BY <1>0, <1>4, <1>i, <2>3 DEF Ops, Moving
  <2>8. Ops' BY <1>0, <1>4, <1>5, <1>i, <2>p, <2>2, <2>m DEF Ops, Commands
  <2>9. Halves' BY <1>0, <1>4, <1>5, <1>i, <2>p, <2>2, <2>m DEF Halves, Ops, Stages
  <2> QED BY <2>p, <2>4, <2>5, <2>8, <2>9, PlainKeeps DEF Inv, Plain
<1>6. CASE run.op = "enroll" /\ LookForEnroll(v) /\ ~Refused
  <2>0. /\ v.is \in Known
        /\ run' = [run EXCEPT !.who = v.who, !.session = root.has[Jar], !.also = v.also, !.on = "giveUp"]
        /\ pc' = IF run.stopped THEN "giveUp" ELSE "enrol"
        /\ UNCHANGED <<folders, saved, pending>>
    BY <1>6, <1>v DEF LookForEnroll, disk
  <2>b. PICK w, j, o : w = v.who /\ j = root.has[Jar] /\ o = v.also OBVIOUS
  <2>w. w \in Accounts /\ j \in Sessions /\ o \in Names \cup {None} BY <1>v, <2>0, <2>b
  <2>r. run' = [run EXCEPT !.who = w, !.session = j, !.also = o, !.on = "giveUp"] BY <2>0, <2>b
  <2>1. run' \in Runs BY <2>r, <2>w, <1>i DEF TypeOK, Runs
  <2>2. /\ run'.on = "giveUp" /\ run'.op = run.op /\ run'.who \in Accounts /\ run'.half = run.half
        /\ run'.session \in Sessions /\ run'.name = run.name /\ run'.row = run.row
        /\ run'.stopped = run.stopped
    BY <2>r, <2>w, <1>i DEF TypeOK, Runs
  <2>p. /\ pc' = IF run.stopped THEN "giveUp" ELSE "enrol"
        /\ UNCHANGED <<folders, saved, pending>>
    BY <2>0
  <2>3. TypeOK' /\ Data' BY <1>0, <1>e, <2>p, <2>1, Stands DEF Steps
  <2>m. Moving' = Moving BY <2>p DEF Moving
  <2>8. Ops' BY <1>0, <1>6, <1>5, <1>i, <2>p, <2>2, <2>m DEF Ops, Commands
  <2>9. Halves' BY <1>0, <1>6, <1>5, <1>i, <2>p, <2>2, <2>m DEF Halves, Ops, Stages
  <2> QED BY <2>p, <2>3, <2>8, <2>9, PlainKeeps DEF Inv, Plain
<1>7. run.op \in {"switch", "forget", "start", "enroll", "confirm"}
  BY <1>0, <1>5, <1>i DEF Ops, TypeOK, Runs, Commands
<1>8. \/ Refused
      \/ run.op = "switch" /\ LookForSwitch(v)
      \/ run.op = "start" /\ LookForStart(v)
      \/ run.op = "forget" /\ LookForForget(v)
      \/ run.op = "enroll" /\ LookForEnroll(v)
  BY <1>7 DEF LookAtIt
<1> QED BY <1>1, <1>2, <1>3, <1>4, <1>6, <1>8

\* A move that cannot be settled, given up.
LEMMA GiveUpInv ==
  ASSUME Inv, GiveUp
  PROVE  Inv'
<1>i. TypeOK /\ Ops /\ Halves BY DEF Inv, RunInv
<1>5. None \notin Commands \cup Rows \cup Stages BY NoneApart
<1>0. pc = "giveUp" /\ UNCHANGED <<root, folders, saved, pending, appOpen, issued, opens, ended, ran>>
  BY DEF GiveUp, Still, app, disk
<1>e. ended' \subseteq Sessions /\ ran' \in BOOLEAN BY <1>0 DEF Inv, TypeOK
<1>m. Moving' = Moving /\ Moving # NoMove /\ run.op \in {"enroll", "abandon"}
  BY <1>0, <1>i DEF Moving, Ops
<1> PICK left : left = Left(Moving) OBVIOUS
<1>l. left \subseteq Rest BY <1>m, <1>i, MoveTyped DEF Left, Rest
<1>g. \/ /\ pc' \in {"hold", "left"}
         /\ run' = [run EXCEPT !.on = "giveUp", !.row = "giveUp", !.list = left]
      \/ End
      \/ run.op = "enroll" /\ pc' = "reserve" /\ run' = [run EXCEPT !.half = "giveUp", !.list = left]
  BY <1>m DEF GiveUp
<1>1. CASE /\ pc' \in {"hold", "left"}
           /\ run' = [run EXCEPT !.on = "giveUp", !.row = "giveUp", !.list = left]
  <2>0. run \in Runs /\ left \in SUBSET Rest /\ "giveUp" \in Rows BY <1>i, <1>l DEF TypeOK, Rows
  <2>1. run' \in Runs BY <1>1, <2>0 DEF Runs
  <2>2. /\ run'.on = "giveUp" /\ run'.op = run.op /\ run'.who = run.who /\ run'.half = run.half
        /\ run'.session = run.session /\ run'.name = run.name /\ run'.row = "giveUp"
        /\ run'.stopped = run.stopped
    BY <1>1, <1>i DEF TypeOK, Runs
  <2>p. pc' \in {"hold", "left"} BY <1>1
  <2>3. TypeOK' /\ Data' BY <1>0, <1>e, <2>p, <2>1, Stands DEF Steps, Fallible
  <2>8. Ops' BY <1>0, <1>5, <1>i, <1>m, <2>p, <2>2 DEF Ops, Commands
  <2>9. Halves' BY <1>0, <1>5, <1>i, <1>m, <2>p, <2>2 DEF Halves, Ops, Stages
  <2>10. SwitchPark' BY <1>m, <2>2 DEF SwitchPark
  <2>11. Reserving' BY <2>p DEF Reserving
  <2>12. Building' BY <2>p DEF Building
  <2>13. RowInv'
    <3>1. OfGiveUp' BY <1>m, <2>p, <2>2 DEF OfGiveUp
    <3>2. pc' # "started" BY <2>p
    <3> QED BY <1>5, <2>2, <3>1, <3>2 DEF RowInv, Rows
  <2>14. Committing' BY <2>p DEF Committing
  <2> QED BY <2>3, <2>8, <2>9, <2>10, <2>11, <2>12, <2>13, <2>14 DEF Inv, RunInv
<1>2. CASE End
  BY <1>0, <1>2, Ends
<1>3. CASE run.op = "enroll" /\ pc' = "reserve" /\ run' = [run EXCEPT !.half = "giveUp", !.list = left]
  <2>1. run' \in Runs BY <1>3, <1>i, <1>l DEF TypeOK, Runs, Stages
  <2>2. /\ run'.on = run.on /\ run'.op = run.op /\ run'.who = run.who /\ run'.half = "giveUp"
        /\ run'.session = run.session /\ run'.name = run.name /\ run'.row = run.row
        /\ run'.stopped = run.stopped
    BY <1>3, <1>i DEF TypeOK, Runs
  <2>p. run.op = "enroll" /\ pc' = "reserve" BY <1>3
  <2>3. TypeOK' /\ Data' BY <1>0, <1>e, <2>p, <2>1, Stands DEF Steps
  <2>8. Ops' BY <1>0, <1>5, <1>i, <1>m, <2>p, <2>2 DEF Ops, Commands
  <2>9. Halves' BY <1>0, <1>5, <1>i, <1>m, <2>p, <2>2 DEF Halves, Ops, Stages
  <2>10. SwitchPark' BY <2>2 DEF SwitchPark
  <2>11. Reserving' BY <2>p, <2>2 DEF Reserving
  <2>12. Building' BY <2>p DEF Building
  <2>13. RowInv' BY <2>p DEF RowInv, Doing, Fallible
  <2>14. Committing' BY <2>p DEF Committing
  <2> QED BY <2>3, <2>8, <2>9, <2>10, <2>11, <2>12, <2>13, <2>14 DEF Inv, RunInv
<1> QED BY <1>1, <1>2, <1>3, <1>g

\* One name more written down.
LEMMA PendingData ==
  ASSUME Data, UNCHANGED <<root, folders, saved>>, pending \subseteq pending'
  PROVE  Data'
<1>1. JarsTyped' BY DEF Data, JarsTyped
<1>2. EveryFolderNamed' BY DEF Data, EveryFolderNamed, HoldsAnything, InFolder, Named, MoveHolds
<1>3. Once(saved)' /\ Apart(saved)'
  BY DEF Data, Once, Apart, IsPark, IsParked, Aside, Listed, MoveHolds
<1>4. MovePark' BY DEF Data, MovePark, Moving
<1>5. ParksWhole' BY DEF Data, ParksWhole, CanArrive, HeldItems, InFolder, MoveHolds
<1> QED BY <1>1, <1>2, <1>3, <1>4, <1>5 DEF Data

\* A name reserved: one that nothing names and nothing is under.
LEMMA ReserveInv ==
  ASSUME Inv, Reserve
  PROVE  Inv'
<1>i. TypeOK /\ Ops /\ Halves /\ SwitchPark /\ Reserving BY DEF Inv, RunInv
<1>5. None \notin Commands \cup Rows \cup Stages BY NoneApart
<1>0. pc = "reserve" /\ UNCHANGED <<root, folders, saved, appOpen, issued, opens, ended, ran>>
  BY DEF Reserve, Still, app, disk, Refused
<1>e. ended' \subseteq Sessions /\ ran' \in BOOLEAN BY <1>0 DEF Inv, TypeOK
<1>1. CASE Refused
  <2>1. End /\ UNCHANGED pending BY <1>1 DEF Refused, disk
  <2> QED BY <1>0, <2>1, Ends
<1>2. CASE ~Refused
  <2> PICK n : n = Least(Free) OBVIOUS
  <2>0. Free # {} /\ pending' = pending \cup {n} /\ pc' = "record" /\ run' = [run EXCEPT !.name = n]
    BY <1>2 DEF Reserve
  <2>n. n \in Free
    <3>1. Free \in SUBSET Nat BY Constant DEF Free
    <3>2. PICK o \in Free : \A q \in Free : o <= q BY <2>0, <3>1, LeastIs
    <3> QED BY <3>2 DEF Least
  <2>f. n \in Names /\ ~Named(saved, n) /\ ~folders[n].made BY <2>n DEF Free
  <2>1. run' \in Runs BY <2>0, <2>f, <1>i DEF TypeOK, Runs
  <2>2. /\ run'.on = run.on /\ run'.op = run.op /\ run'.who = run.who /\ run'.half = run.half
        /\ run'.session = run.session /\ run'.name = n /\ run'.row = run.row
        /\ run'.stopped = run.stopped
    BY <2>0, <1>i DEF TypeOK, Runs
  <2>p. pending' = pending \cup {n} /\ pc' = "record" BY <2>0
  <2>m. Moving' = Moving BY <1>0 DEF Moving
  <2>3. TypeOK' BY <1>0, <1>i, <2>p, <2>1, <2>f DEF TypeOK, Steps
  <2>4. Data' BY <1>0, <2>p, PendingData DEF Inv
  <2>c. \A a : CanArrive(a) => CanArrive(a)' BY <1>0 DEF CanArrive, HeldItems, InFolder
  <2>8. Ops' BY <1>0, <1>5, <1>i, <2>m, <2>p, <2>2 DEF Ops, Commands
  <2>9. Halves' BY <1>0, <1>5, <1>i, <2>m, <2>p, <2>2 DEF Halves, Ops, Stages
  <2>10. SwitchPark' BY <1>0, <1>i, <2>m, <2>p, <2>2, <2>c DEF SwitchPark
  <2>11. Reserving'
    <3>1. NamedBy(root.keys)' = NamedBy(root.keys) BY <1>0 DEF NamedBy
    <3>2. ~Named(saved, n)' BY <1>0, <2>f DEF Named, MoveHolds
    <3> QED BY <1>0, <1>i, <2>m, <2>p, <2>2, <2>c, <2>f, <3>1, <3>2 DEF Reserving
  <2>12. Building' BY <2>p DEF Building
  <2>13. RowInv' BY <2>p DEF RowInv, Doing, Fallible
  <2>14. Committing' BY <2>p DEF Committing
  <2> QED BY <2>3, <2>4, <2>8, <2>9, <2>10, <2>11, <2>12, <2>13, <2>14 DEF Inv, RunInv
<1> QED BY <1>1, <1>2

\* A move recorded, or an aside more on one: nothing else of the record changes.
LEMMA MovingData ==
  ASSUME TypeOK, Data, UNCHANGED <<root, folders, pending>>,
         saved'.parked = saved.parked, saved'.aside = saved.aside, saved'.discarded = saved.discarded,
         \A n \in Names : MoveHolds(saved, n) => MoveHolds(saved', n),
         Apart(saved'), MovePark'
  PROVE  Data'
<1>1. JarsTyped' BY DEF Data, JarsTyped
<1>2. EveryFolderNamed' BY DEF Data, EveryFolderNamed, HoldsAnything, InFolder, Named, MoveHolds
<1>3. Once(saved)'
  BY DEF Data, Once, IsPark, IsParked, Aside, Listed
<1>5. ParksWhole'
  <2>1. \A a \in Accounts : saved.parked[a] # None => saved.parked[a].name \in Names
    BY DEF TypeOK, Records
  <2>2. \A a \in Accounts : CanArrive(a) => CanArrive(a)' BY CanArriveStays
  <2>3. \A a \in Accounts : saved.parked[a] # None /\ ~MoveHolds(saved', saved.parked[a].name) => CanArrive(a)'
    BY <2>1, <2>2 DEF Data, ParksWhole
  <2> QED BY <2>3 DEF ParksWhole, MoveHolds
<1>6. Apart(saved)' BY DEF Apart, IsPark, Aside, Listed, MoveHolds
<1> QED BY <1>1, <1>2, <1>3, <1>5, <1>6 DEF Data

\* A folder that is not named is not made, or the list has it.
LEMMA NotMade ==
  ASSUME TypeOK, NEW n \in Names, ~folders[n].made
  PROVE  /\ folders[n] = NoFolder /\ folders[n].manifest = None /\ folders[n].keys = {}
         /\ \A i \in ItemSet : folders[n].has[i] = None
BY DEF TypeOK, NoFolder, Nothing

\* A leave recorded: its folder is one nothing names, and the app's folder holds its login.
LEMMA RecordLeaveInv ==
  ASSUME Inv, pc = "record", RecordLeave, Still
  PROVE  Inv'
<1>i. TypeOK /\ Ops /\ Halves /\ SwitchPark /\ Reserving /\ Data BY DEF Inv, RunInv
<1>5. None \notin Commands \cup Rows \cup Stages BY NoneApart
<1>0. UNCHANGED <<root, folders, pending, appOpen, issued, opens, ended, ran>> /\ run.half = "leave"
  BY DEF RecordLeave, Recorded, Still, app
<1>h. /\ root.has[Jar] \in Sessions /\ NamedBy(root.keys) \in Accounts
      /\ run.op = "switch" => run.who # NamedBy(root.keys)
      /\ run.name \in Names /\ ~Named(saved, run.name) /\ run.name \in pending
      /\ ~folders[run.name].made /\ Moving = NoMove /\ run.on = "forward"
  BY <1>0, <1>5, <1>i, NoneApart DEF Reserving, Halves, Stages
<1>1. CASE End /\ UNCHANGED saved
  BY <1>0, <1>1, Ends
<1>2. CASE ~(End /\ UNCHANGED saved)
  <2>v. PICK who, n, login, items, keys, b : /\ who = NamedBy(root.keys) /\ n = run.name /\ login = root.has[Jar]
                                          /\ items = Present /\ keys = root.keys /\ b = (run.op = "start")
    OBVIOUS
  <2>m. PICK m : m = [half |-> "leave", who |-> who, park |-> n, login |-> login, items |-> items,
                      keys |-> keys, asides |-> {}, awaits |-> b] OBVIOUS
  <2>k. PICK kept : kept = [account |-> who, login |-> login, items |-> items, keys |-> keys, left |-> {}] OBVIOUS
  <2>0. /\ saved' = [saved EXCEPT !.moving = m]
        /\ pc' = "make"
        /\ run' = [run EXCEPT !.on = "forward", !.row = "leave", !.kept = kept, !.to = n, !.items = items]
    BY <1>2, <2>v, <2>m, <2>k DEF RecordLeave, Recorded
  <2>t. /\ who \in Accounts /\ n \in Names /\ login \in Sessions /\ items \in SUBSET ItemSet /\ keys \in Keys
    BY <1>h, <1>i, <2>v DEF Present, TypeOK
  <2>b. b \in BOOLEAN BY <2>v
  <2>w. who = NamedBy(root.keys) /\ n = run.name /\ login = root.has[Jar] /\ keys = root.keys BY <2>v
  <2>1. m \in Moves
    <3>1. {} \in SUBSET Names /\ "leave" \in {"leave", "arrive"} OBVIOUS
    <3> QED BY <2>m, <2>t, <2>b, <3>1, Zenon DEF Moves
  <2>2. /\ m.half = "leave" /\ m.who = who /\ m.park = n /\ m.login = login /\ m.items = items
        /\ m.keys = keys /\ m.asides = {}
    BY <2>m
  <2>3. kept \in Manifests /\ kept.account = who /\ kept.login = login /\ kept.keys = keys
    BY <2>k, <2>t DEF Manifests
  <2>4. kept # None /\ m # None BY <2>1, <2>3, NoneApart
  <2>5. /\ saved' \in Records /\ saved'.moving = m /\ saved'.parked = saved.parked
        /\ saved'.aside = saved.aside /\ saved'.discarded = saved.discarded
    BY <2>0, <2>1, <1>i DEF TypeOK, Records
  <2>6. run' \in Runs BY <2>0, <2>3, <2>t, <1>i DEF TypeOK, Runs, Rows
  <2>7. /\ run'.on = "forward" /\ run'.op = run.op /\ run'.who = run.who /\ run'.half = run.half
        /\ run'.session = run.session /\ run'.name = n /\ run'.row = "leave"
        /\ run'.stopped = run.stopped /\ run'.kept = kept /\ run'.to = n /\ run'.items = items
    <3>1. run' = [run EXCEPT !.on = "forward", !.row = "leave", !.kept = kept, !.to = n, !.items = items]
      BY <2>0
    <3>2. run \in Runs BY <1>i DEF TypeOK
    <3> QED BY <3>1, <3>2, <2>w DEF Runs
  <2>p. pc' = "make" BY <2>0
  <2>8. TypeOK' BY <1>0, <1>i, <2>5, <2>6, <2>p DEF TypeOK, Steps, Fallible
  <2>9. Moving' = m /\ Moving' # NoMove BY <2>5, <2>4 DEF Moving, NoMove
  <2>10. \A o \in Names : MoveHolds(saved', o) <=> o = n
    BY <2>2, <2>5, <2>9 DEF MoveHolds, Moving
  <2>11. \A o \in Names : ~MoveHolds(saved, o) BY <1>h DEF MoveHolds, Moving
  <2>12. Apart(saved')
    <3>1. ~IsParked(saved, n) /\ ~Aside(saved, n) /\ ~Listed(saved, n) BY <1>h, <2>w, NamedIs
    <3> QED BY <2>2, <2>5, <2>10, <3>1 DEF Apart, IsPark, IsParked, Aside, Listed
  <2>13. MovePark'
    BY <1>0, <1>h, <1>i, <2>2, <2>9, <2>t, <2>w, NotMade, Constant DEF MovePark, NamedBy
  <2>14. Data' BY <1>0, <1>i, <2>5, <2>11, <2>12, <2>13, MovingData
  <2>15. \A a : CanArrive(a) => CanArrive(a)' BY <1>0, <2>5, CanArriveStays
  <2>16. Ops' BY <1>0, <1>5, <1>i, <2>p, <2>7, <2>9 DEF Ops, Halves, Commands, Stages
  <2>17. Halves' BY <1>0, <1>5, <1>i, <2>p, <2>2, <2>7, <2>9 DEF Halves, Ops, Stages
  <2>18. SwitchPark' BY <1>0, <1>h, <1>i, <2>2, <2>w, <2>7, <2>9, <2>15 DEF SwitchPark
  <2>19. Reserving' BY <2>p DEF Reserving
  <2>20. Building' BY <2>p, <2>7, <2>t, <2>4 DEF Building
  <2>21. RowInv'
    <3>1. OfLeave' BY <1>0, <2>p, <2>w, <2>2, <2>3, <2>7, <2>9 DEF OfLeave
    <3>2. pc' # "started" BY <2>p
    <3> QED BY <1>5, <2>7, <3>1, <3>2 DEF RowInv, Rows
  <2>22. Committing' BY <2>p DEF Committing
  <2> QED BY <2>8, <2>14, <2>16, <2>17, <2>18, <2>19, <2>20, <2>21, <2>22 DEF Inv, RunInv
<1> QED BY <1>1, <1>2

-----------------------------------------------------------------------------
(* A move recorded. *)

\* An arrive recorded: of a park that is whole, and with a folder nothing names for what is there.
LEMMA RecordArriveInv ==
  ASSUME Inv, pc = "record", RecordArrive, Still
  PROVE  Inv'
<1>i. TypeOK /\ Ops /\ Halves /\ SwitchPark /\ Reserving /\ Data BY DEF Inv, RunInv
<1>5. None \notin Commands \cup Rows \cup Stages BY NoneApart
<1>0. UNCHANGED <<root, folders, pending, appOpen, issued, opens, ended, ran>> /\ run.half = "arrive"
  BY DEF RecordArrive, Recorded, Still, app
<1>h. /\ CanArrive(run.who) /\ run.op = "switch" /\ run.who \in Accounts
      /\ Moving = NoMove /\ run.on = "forward"
      /\ run.name # None => run.name \in Names /\ ~Named(saved, run.name)
  BY <1>0, <1>5, <1>i, NoneApart DEF Reserving, Halves, Stages, Ops
<1>1. CASE End /\ UNCHANGED saved
  BY <1>0, <1>1, Ends
<1>2. CASE ~(End /\ UNCHANGED saved)
  <2>v. PICK who, n, login, items, keys, asides, step :
          /\ who = run.who /\ n = saved.parked[who].name /\ login = saved.parked[who].login
          /\ items = folders[n].manifest.items /\ keys = folders[n].manifest.keys
          /\ asides = IF run.name # None THEN {run.name} ELSE {}
          /\ step = IF run.name # None THEN "keep" ELSE "held"
    OBVIOUS
  <2>m. PICK m : m = [half |-> "arrive", who |-> who, park |-> n, login |-> login, items |-> items,
                      keys |-> keys, asides |-> asides, awaits |-> FALSE] OBVIOUS
  <2>0. /\ saved' = [Nobody(saved) EXCEPT !.moving = m]
        /\ Starts(step, "forward", "arrive", {}, run.name)
    BY <1>2, <2>v, <2>m DEF RecordArrive, Recorded
  <2>q. saved' = [Nobody(saved) EXCEPT !.moving = m] BY <2>0
  <2>r. run' = [run EXCEPT !.on = "forward", !.row = "arrive", !.items = {}, !.to = run.name]
    BY <2>0 DEF Starts
  <2>p. pc' = step /\ step \in {"keep", "held"} BY <2>0, <2>v DEF Starts
  <2>a. saved.parked[who] # None /\ Whole(n, who, login) BY <1>h, <2>v, CanArriveIs
  <2>t. /\ who \in Accounts /\ n \in Names /\ login \in Sessions /\ asides \in SUBSET Names
        /\ saved.parked[who] = [name |-> n, login |-> login]
    <3>1. saved.parked[who] \in [name : Names, login : Sessions]
      BY <1>h, <2>v, <2>a, <1>i DEF TypeOK, Records
    <3> QED BY <1>h, <2>v, <3>1
  <2>f. items \in SUBSET ItemSet /\ keys \in Keys /\ NamedBy(keys) = who
    <3>1. folders[n].manifest \in Manifests BY <2>a, <2>t, <1>i DEF Whole, TypeOK, Folders
    <3>2. NamedBy(folders[n].manifest.keys) = who BY <2>a DEF Whole
    <3> QED BY <3>1, <3>2, <2>v DEF Manifests
  <2>1. m \in Moves
    <3>1. "arrive" \in {"leave", "arrive"} /\ FALSE \in BOOLEAN OBVIOUS
    <3> QED BY <2>m, <2>t, <2>f, <3>1, Zenon DEF Moves
  <2>2. /\ m.half = "arrive" /\ m.who = who /\ m.park = n /\ m.login = login /\ m.items = items
        /\ m.keys = keys /\ m.asides = asides
    BY <2>m
  <2>4. m # None BY <2>1, NoneApart
  <2>s. PICK u : u = Nobody(saved) OBVIOUS
  <2>u. /\ u \in Records /\ u.parked = saved.parked /\ u.aside = saved.aside /\ u.discarded = saved.discarded
    BY <2>s, <1>i, NobodyOf DEF TypeOK
  <2>x. saved' = [u EXCEPT !.moving = m] BY <2>q, <2>s
  <2>5. /\ saved' \in Records /\ saved'.moving = m /\ saved'.parked = saved.parked
        /\ saved'.aside = saved.aside /\ saved'.discarded = saved.discarded
    BY <2>x, <2>1, <2>u DEF Records
  <2>6. run' \in Runs BY <2>r, <1>i DEF TypeOK, Runs, Rows
  <2>7. /\ run'.on = "forward" /\ run'.op = run.op /\ run'.who = run.who /\ run'.half = run.half
        /\ run'.session = run.session /\ run'.name = run.name /\ run'.row = "arrive"
        /\ run'.stopped = run.stopped /\ run'.to = run.name
    BY <2>r, <1>i DEF TypeOK, Runs
  <2>8. TypeOK' BY <1>0, <1>i, <2>5, <2>6, <2>p DEF TypeOK, Steps, Fallible
  <2>9. Moving' = m /\ Moving' # NoMove BY <2>5, <2>4 DEF Moving, NoMove
  <2>10. \A o \in Names : MoveHolds(saved', o) <=> o = n \/ o \in asides
    BY <2>2, <2>5, <2>9 DEF MoveHolds, Moving
  <2>11. \A o \in Names : ~MoveHolds(saved, o) BY <1>h DEF MoveHolds, Moving
  <2>12. Apart(saved')
    <3>1. IsPark(saved, who, n) BY <2>v, <2>a DEF IsPark
    <3>2. IsParked(saved, n) /\ ~Aside(saved, n) /\ ~Listed(saved, n)
          /\ \A a \in Accounts : IsPark(saved, a, n) => a = who
      BY <3>1, <2>t, <1>i DEF IsParked, Data, Once
    <3>3. \A o \in asides : ~IsParked(saved, o) /\ ~Aside(saved, o) /\ ~Listed(saved, o)
      BY <1>h, <2>v, NamedIs
    <3>4. \A o \in asides : \A a \in Accounts : ~IsPark(saved, a, o) BY <3>3 DEF IsParked
    <3>5. \A o \in Names : /\ Aside(saved', o) <=> Aside(saved, o)
                           /\ Listed(saved', o) <=> Listed(saved, o)
                           /\ \A a \in Accounts : IsPark(saved', a, o) <=> IsPark(saved, a, o)
      BY <2>5 DEF Aside, Listed, IsPark
    <3>6. n \notin asides BY <3>2, <3>3
    <3> QED BY <2>2, <2>5, <2>10, <3>2, <3>3, <3>4, <3>5, <3>6 DEF Apart
  <2>13. MovePark'
    <3>1. folders'[n] = folders[n] BY <1>0
    <3>2. /\ folders[n].manifest # None /\ folders[n].manifest.account = who
          /\ folders[n].manifest.login = login /\ folders[n].has[Jar] = login
          /\ folders[n].keys = {keys}
      BY <2>a, <2>v DEF Whole
    <3>3. saved'.parked[who] = [name |-> n, login |-> login] BY <2>t, <2>5
    <3>4. NamedBy(keys)' = NamedBy(keys) BY DEF NamedBy
    <3> QED BY <2>2, <2>9, <2>f, <2>v, <3>1, <3>2, <3>3, <3>4 DEF MovePark, NamedBy
  <2>14. Data' BY <1>0, <1>i, <2>5, <2>11, <2>12, <2>13, MovingData
  <2>16. Ops' BY <1>0, <1>5, <1>h, <1>i, <2>p, <2>7, <2>9 DEF Ops, Commands
  <2>17. Halves' BY <1>0, <1>5, <1>h, <1>i, <2>p, <2>2, <2>7, <2>9 DEF Halves, Ops, Stages
  <2>18. SwitchPark' BY <1>0, <2>7 DEF SwitchPark
  <2>19. Reserving' BY <2>p DEF Reserving
  <2>20. Building' BY <2>p DEF Building
  <2>21. RowInv'
    <3>1. OfArrive' BY <1>0, <2>p, <2>v, <2>2, <2>7, <2>9 DEF OfArrive, Built
    <3>2. pc' # "started" BY <2>p
    <3> QED BY <1>5, <2>7, <3>1, <3>2 DEF RowInv, Rows
  <2>22. Committing' BY <2>p DEF Committing
  <2> QED BY <2>8, <2>14, <2>16, <2>17, <2>18, <2>19, <2>20, <2>21, <2>22 DEF Inv, RunInv
<1> QED BY <1>1, <1>2

\* The steps of a move, and the saves that end it.
Mid == Doing \cup Closing

\* A step of a move keeps what its command is, and which half of which move it is in.
LEMMA MidKeeps ==
  ASSUME Ops, Halves, pc \notin {"idle", "sweep", "begin", "look", "purge"}, pc' \in Mid,
         run'.op = run.op, run'.who = run.who, run'.session = run.session, run'.half = run.half,
         run'.on = run.on, run'.stopped = run.stopped,
         Moving' = Moving \/ (Moving # NoMove /\ Moving' # NoMove /\ Moving'.half = Moving.half)
  PROVE  Ops' /\ Halves' /\ Reserving'
<1>5. None \notin Commands \cup Rows \cup Stages BY NoneApart
<1>1. pc' \notin Plain \cup {"settle", "reserve", "record"}
  BY DEF Mid, Doing, Fallible, Closing, Plain
<1>2. Ops' BY <1>1, <1>5 DEF Ops, Commands, Plain
<1>3. Halves' BY <1>1, <1>5 DEF Halves, Ops, Stages, Plain
<1>4. Reserving' BY <1>1 DEF Reserving
<1> QED BY <1>2, <1>3, <1>4

\* What a run keeps aside has a manifest of its own.
LEMMA AsideTyped ==
  ASSUME NEW a \in Accounts \cup {None}, NEW is \in SUBSET ItemSet, NEW k \in Keys
  PROVE  /\ AsideManifest(a, is, k) \in Manifests /\ AsideManifest(a, is, k) # None
         /\ AsideManifest(a, is, k).keys = k
<1>1. AsideManifest(a, is, k) \in Manifests BY DEF AsideManifest, Manifests
<1> QED BY <1>1, NoneApart DEF AsideManifest

\* One aside more recorded: its folder is one nothing names.
LEMMA RecordAsideInv ==
  ASSUME Inv, pc = "record", RecordAside, Still
  PROVE  Inv'
<1>i. TypeOK /\ Ops /\ Halves /\ SwitchPark /\ Reserving /\ Data BY DEF Inv, RunInv
<1>5. None \notin Commands \cup Rows \cup Stages BY NoneApart
<1>0. UNCHANGED <<root, folders, pending, appOpen, issued, opens, ended, ran>>
      /\ run.half \in {"keysAside", "giveUp"}
  BY DEF RecordAside, Recorded, Still, app
<1>h. /\ run.name \in Names /\ ~Named(saved, run.name) /\ Moving # NoMove
      /\ run.half = "keysAside" => /\ Moving.half = "arrive" /\ root.has[Jar] = Moving.login
                                   /\ root.keys # None /\ run.on \in {"settle", "after"}
      /\ run.half = "giveUp" => run.on = "giveUp"
  BY <1>0, <1>5, <1>i, NoneApart DEF Reserving, Halves, Stages, Ops
<1>1. CASE End /\ UNCHANGED saved
  BY <1>0, <1>1, Ends
<1>2. CASE ~(End /\ UNCHANGED saved)
  <2>v. PICK n, o, asides : n = run.name /\ o = Moving /\ asides = Moving.asides \cup {run.name}
    OBVIOUS
  <2>m. PICK m : m = [o EXCEPT !.asides = asides] OBVIOUS
  <2>t. /\ o \in Moves /\ o.park \in Names /\ o.asides \in SUBSET Names /\ n \in Names
        /\ o.who \in Accounts /\ o.items \in SUBSET ItemSet
    BY <1>h, <1>i, <2>v, MoveTyped
  <2>1. m \in Moves BY <2>m, <2>t, <2>v DEF Moves
  <2>2. /\ m.half = o.half /\ m.who = o.who /\ m.park = o.park /\ m.login = o.login /\ m.items = o.items
        /\ m.keys = o.keys /\ m.asides = asides
    BY <2>m, <2>t DEF Moves
  <2>4. m # None BY <2>1, NoneApart
  <2>x. saved' = [saved EXCEPT !.moving = m]
    <3>1. saved' = [saved EXCEPT !.moving.asides = @ \cup {run.name}]
      BY <1>2 DEF RecordAside, Recorded
    <3> QED BY <3>1, <2>m, <2>v DEF Moving
  <2>5. /\ saved' \in Records /\ saved'.moving = m /\ saved'.parked = saved.parked
        /\ saved'.aside = saved.aside /\ saved'.discarded = saved.discarded
    BY <2>x, <2>1, <1>i DEF TypeOK, Records
  <2>9. Moving' = m /\ Moving' # NoMove /\ Moving'.half = Moving.half
    BY <2>5, <2>4, <2>2, <2>v DEF Moving, NoMove
  <2>10. \A q \in Names : MoveHolds(saved', q) <=> MoveHolds(saved, q) \/ q = n
    BY <2>2, <2>5, <2>9, <2>v, <1>h DEF MoveHolds, Moving
  <2>12. Apart(saved')
    <3>1. ~IsParked(saved, n) /\ ~Aside(saved, n) /\ ~Listed(saved, n) /\ ~MoveHolds(saved, n)
      BY <1>h, <2>v, NamedIs
    <3>2. \A a \in Accounts : ~IsPark(saved, a, n) BY <3>1 DEF IsParked
    <3>3. \A q \in Names : /\ Aside(saved', q) <=> Aside(saved, q)
                           /\ Listed(saved', q) <=> Listed(saved, q)
                           /\ \A a \in Accounts : IsPark(saved', a, q) <=> IsPark(saved, a, q)
      BY <2>5 DEF Aside, Listed, IsPark
    <3>4. o.park # n BY <1>h, <2>v, <3>1 DEF MoveHolds, Moving
    <3>5. Apart(saved) BY <1>i DEF Data
    <3> QED BY <1>h, <2>2, <2>5, <2>10, <2>v, <3>1, <3>2, <3>3, <3>4, <3>5 DEF Apart, Moving
  <2>13. MovePark'
    <3>1. MovePark BY <1>i DEF Data
    <3> QED BY <1>0, <1>h, <2>2, <2>5, <2>9, <2>v, <3>1 DEF MovePark, NamedBy, Moving
  <2>14. Data' BY <1>0, <1>i, <2>5, <2>10, <2>12, <2>13, MovingData
  <2>a. CASE run.half = "keysAside"
    <3>0. Starts("keep", run.on, "keysAside", Moving.items, Moving.park)
      BY <1>2, <2>a DEF RecordAside, Recorded
    <3>p. pc' = "keep" BY <3>0 DEF Starts
    <3>r. run' = [run EXCEPT !.on = run.on, !.row = "keysAside", !.items = o.items, !.to = o.park]
      BY <3>0, <2>v DEF Starts
    <3>6. run' \in Runs BY <3>r, <2>t, <1>i DEF TypeOK, Runs, Rows
    <3>7. /\ run'.on = run.on /\ run'.op = run.op /\ run'.who = run.who /\ run'.half = run.half
          /\ run'.session = run.session /\ run'.name = run.name /\ run'.row = "keysAside"
          /\ run'.stopped = run.stopped /\ run'.to = o.park
      BY <3>r, <1>i DEF TypeOK, Runs
    <3>8. TypeOK' BY <1>0, <1>i, <2>5, <3>6, <3>p DEF TypeOK, Steps, Fallible
    <3>9. Ops' /\ Halves' /\ Reserving'
      BY <1>i, <3>p, <3>7, <2>9, <1>h, MidKeeps DEF Mid, Doing, Fallible
    <3>18. SwitchPark' BY <2>a, <3>7 DEF SwitchPark
    <3>20. Building' BY <3>p DEF Building
    <3>21. RowInv'
      <4>1. OfKeysAside' BY <1>0, <1>h, <2>a, <3>p, <2>v, <2>2, <3>7, <2>9 DEF OfKeysAside
      <4>2. pc' # "started" BY <3>p
      <4> QED BY <1>5, <3>7, <4>1, <4>2 DEF RowInv, Rows
    <3>22. Committing' BY <3>p DEF Committing
    <3> QED BY <3>8, <2>14, <3>9, <3>18, <3>20, <3>21, <3>22 DEF Inv, RunInv
  <2>b. CASE run.half = "giveUp"
    <3>k. PICK kept : kept = AsideManifest(o.who, run.list, None) OBVIOUS
    <3>t. kept \in Manifests /\ kept # None
      <4>1. run.list \in SUBSET ItemSet BY <1>i, Constant DEF TypeOK, Runs
      <4>2. None \in Keys BY DEF Keys
      <4> QED BY <3>k, <4>1, <4>2, <2>t, AsideTyped
    <3>0. /\ pc' = "make"
          /\ run' = [run EXCEPT !.on = "giveUp", !.row = "giveUp", !.to = n, !.items = run.list, !.kept = kept]
      BY <1>2, <2>b, <2>v, <3>k DEF RecordAside, Recorded
    <3>p. pc' = "make" BY <3>0
    <3>r. run' = [run EXCEPT !.on = "giveUp", !.row = "giveUp", !.to = n, !.items = run.list, !.kept = kept]
      BY <3>0
    <3>l. run.list \in SUBSET ItemSet BY <1>i, Constant DEF TypeOK, Runs
    <3>6. run' \in Runs BY <3>r, <3>t, <3>l, <2>t, <1>i DEF TypeOK, Runs, Rows
    <3>7. /\ run'.on = "giveUp" /\ run'.op = run.op /\ run'.who = run.who /\ run'.half = run.half
          /\ run'.session = run.session /\ run'.name = run.name /\ run'.row = "giveUp"
          /\ run'.stopped = run.stopped /\ run'.to = n /\ run'.kept = kept
      BY <3>r, <1>i DEF TypeOK, Runs
    <3>8. TypeOK' BY <1>0, <1>i, <2>5, <3>6, <3>p DEF TypeOK, Steps, Fallible
    <3>9. Ops' /\ Halves' /\ Reserving'
      BY <1>i, <2>b, <3>p, <3>7, <2>9, <1>h, MidKeeps DEF Mid, Doing, Fallible
    <3>18. SwitchPark' BY <2>b, <3>7 DEF SwitchPark
    <3>20. Building' BY <3>p, <3>7, <3>t, <2>t, <2>v DEF Building
    <3>21. RowInv'
      <4>1. OfGiveUp' BY <1>0, <1>h, <2>b, <3>p, <2>v, <2>2, <3>7, <2>9 DEF OfGiveUp
      <4>2. pc' # "started" BY <3>p
      <4> QED BY <1>5, <3>7, <4>1, <4>2 DEF RowInv, Rows
    <3>22. Committing' BY <3>p DEF Committing
    <3> QED BY <3>8, <2>14, <3>9, <3>18, <3>20, <3>21, <3>22 DEF Inv, RunInv
  <2> QED BY <1>0, <2>a, <2>b
<1> QED BY <1>1, <1>2

\* A start goes on with a name alone.
LEMMA RecordStartInv ==
  ASSUME Inv, pc = "record", RecordStart, Still
  PROVE  Inv'
<1>i. TypeOK /\ Ops /\ Halves /\ SwitchPark /\ Reserving BY DEF Inv, RunInv
<1>5. None \notin Commands \cup Rows \cup Stages BY NoneApart
<1>0. /\ UNCHANGED <<root, folders, saved, pending, appOpen, issued, opens, ended, ran>>
      /\ run.half = "start" /\ pc' = "keep"
  BY DEF RecordStart, Still, app, disk, Starts
<1>h. /\ run.name \in Names /\ run.name \in pending /\ ~Named(saved, run.name)
      /\ Moving = NoMove /\ run.on = "forward" /\ root.keys # None
  BY <1>0, <1>5, <1>i, NoneApart DEF Reserving, Halves, Stages
<1>r. run' = [run EXCEPT !.on = "forward", !.row = "start", !.items = {}, !.to = None]
  BY DEF RecordStart, Starts
<1>6. run' \in Runs BY <1>r, <1>i DEF TypeOK, Runs, Rows
<1>7. /\ run'.on = "forward" /\ run'.op = run.op /\ run'.who = run.who /\ run'.half = run.half
      /\ run'.session = run.session /\ run'.name = run.name /\ run'.row = "start"
      /\ run'.stopped = run.stopped
  BY <1>r, <1>i DEF TypeOK, Runs
<1>m. Moving' = Moving BY <1>0 DEF Moving
<1>e. ended' \subseteq Sessions /\ ran' \in BOOLEAN BY <1>0 DEF Inv, TypeOK
<1>8. TypeOK' /\ Data' BY <1>0, <1>e, <1>6, Stands DEF Steps, Fallible
<1>9. Ops' /\ Halves' /\ Reserving'
  BY <1>i, <1>0, <1>7, <1>m, <1>h, MidKeeps DEF Mid, Doing, Fallible
<1>18. SwitchPark' BY <1>0, <1>7 DEF SwitchPark
<1>20. Building' BY <1>0 DEF Building
<1>21. RowInv'
  <2>1. ~Named(saved, run.name)' BY <1>0, <1>h, <1>7 DEF Named, MoveHolds
  <2>2. OfStart' BY <1>0, <1>h, <1>7, <1>m, <2>1 DEF OfStart
  <2>3. pc' # "started" BY <1>0
  <2> QED BY <1>5, <1>7, <2>2, <2>3 DEF RowInv, Rows
<1>22. Committing' BY <1>0 DEF Committing
<1> QED BY <1>8, <1>9, <1>18, <1>20, <1>21, <1>22 DEF Inv, RunInv

\* What a run records before its first step, whichever it is.
LEMMA RecordInv ==
  ASSUME Inv, Record
  PROVE  Inv'
<1>1. pc = "record" /\ Still BY DEF Record
<1>2. CASE RecordRefused
  <2>1. End /\ UNCHANGED <<root, folders, saved, pending, appOpen, issued, ended, ran>>
    BY <1>1, <1>2 DEF RecordRefused, Refused, Still, app, disk
  <2> QED BY <2>1, Ends
<1> QED BY <1>1, <1>2, RecordLeaveInv, RecordArriveInv, RecordAsideInv, RecordStartInv DEF Record

-----------------------------------------------------------------------------
(* A folder of a run made. *)

\* What a step of a move keeps of the run, given what it makes of the disk and of its row.
LEMMA WorkKeeps ==
  ASSUME Inv, pc \in Doing, pc' \in Mid, UNCHANGED saved,
         run'.op = run.op, run'.who = run.who, run'.session = run.session, run'.half = run.half,
         run'.on = run.on, run'.stopped = run.stopped,
         \A a \in Accounts : run.half = "leave" /\ CanArrive(a) => CanArrive(a)',
         TypeOK', Data', Building', RowInv', Committing'
  PROVE  Inv'
<1>i. TypeOK /\ Ops /\ Halves /\ SwitchPark BY DEF Inv, RunInv
<1>m. Moving' = Moving BY DEF Moving
<1>1. pc \notin {"idle", "sweep", "begin", "look", "purge"} BY DEF Doing, Fallible
<1>2. Ops' /\ Halves' /\ Reserving' BY <1>i, <1>m, <1>1, MidKeeps
<1>3. SwitchPark'
  <2>1. run.op = "switch" => run.who \in Accounts BY <1>i DEF Ops
  <2> QED BY <1>i, <1>m, <2>1 DEF SwitchPark
<1> QED BY <1>2, <1>3 DEF Inv, RunInv

\* A park is put back as before, where its folder is as before.
LEMMA ArrivesStill ==
  ASSUME UNCHANGED saved, NEW a \in Accounts,
         saved.parked[a] # None => folders'[saved.parked[a].name] = folders[saved.parked[a].name]
  PROVE  CanArrive(a) => CanArrive(a)'
BY CanArriveStays, CanArriveIs

\* The step after each.
LEMMA AfterIs ==
  /\ pc = "keep" => After = "make"
  /\ pc = "make" => After = "manifest"
  /\ pc = "manifest" => After = "keys"
  /\ pc = "keys" => After = IF run.row = "giveUp" THEN "out"
                            ELSE IF root.keys = None THEN "setAside" ELSE "clear"
  /\ pc = "clear" => After = IF run.row = "arrive" THEN "setAside"
                             ELSE IF run.row = "start" THEN "midway" ELSE "out"
  /\ pc = "setAside" => After = "out"
  /\ pc = "out" => After = IF run.row \in {"arrive", "settingAside"} THEN "forgetLeft"
                           ELSE IF run.row = "giveUp" THEN "hold" ELSE "verify"
  /\ pc = "held" => After = "forgetLeft"
  /\ pc = "forgetLeft" => After = IF run.row = "arrive" THEN "in" ELSE "midway"
  /\ pc = "in" => After = "put"
  /\ pc = "put" => After = IF run.row = "arrive" THEN "arrived" ELSE "midway"
  /\ pc = "verify" => After = IF run.row = "backAside" THEN "finishAside" ELSE "midway"
  /\ pc = "left" => After = "hold"
  /\ pc \in {"arrived", "finishAside", "hold"} => After = "midway"
  /\ pc = "midway" => After = IF run.row \in {"leave", "leaveOn"} THEN "commitLeave"
                              ELSE IF run.row = "arrive" THEN "commitArrive"
                              ELSE IF run.row = "giveUp" THEN "givenUp"
                              ELSE IF run.row = "start" THEN "started" ELSE "undone"
<1>1. pc = "keep" => After = "make" BY DEF After
<1>2. pc = "make" => After = "manifest" BY DEF After
<1>3. pc = "manifest" => After = "keys" BY DEF After
<1>4. pc = "keys" => After = IF run.row = "giveUp" THEN "out"
                            ELSE IF root.keys = None THEN "setAside" ELSE "clear" BY DEF After
<1>5. pc = "clear" => After = IF run.row = "arrive" THEN "setAside"
                             ELSE IF run.row = "start" THEN "midway" ELSE "out" BY DEF After
<1>6. pc = "setAside" => After = "out" BY DEF After
<1>7. pc = "out" => After = IF run.row \in {"arrive", "settingAside"} THEN "forgetLeft"
                           ELSE IF run.row = "giveUp" THEN "hold" ELSE "verify" BY DEF After
<1>8. pc = "held" => After = "forgetLeft" BY DEF After
<1>9. pc = "forgetLeft" => After = IF run.row = "arrive" THEN "in" ELSE "midway" BY DEF After
<1>10. pc = "in" => After = "put" BY DEF After
<1>11. pc = "put" => After = IF run.row = "arrive" THEN "arrived" ELSE "midway" BY DEF After
<1>12. pc = "verify" => After = IF run.row = "backAside" THEN "finishAside" ELSE "midway" BY DEF After
<1>13. pc = "left" => After = "hold" BY DEF After
<1>14. pc \in {"arrived", "finishAside", "hold"} => After = "midway" BY DEF After
<1>15. pc = "midway" => After = IF run.row \in {"leave", "leaveOn"} THEN "commitLeave"
                              ELSE IF run.row = "arrive" THEN "commitArrive"
                              ELSE IF run.row = "giveUp" THEN "givenUp"
                              ELSE IF run.row = "start" THEN "started" ELSE "undone" BY DEF After
<1> QED BY <1>1, <1>2, <1>3, <1>4, <1>5, <1>6, <1>7, <1>8, <1>9, <1>10, <1>11, <1>12, <1>13, <1>14, <1>15

\* Whose steps a step may be.
LEMMA RowAt ==
  ASSUME Inv, pc \in Doing
  PROVE  /\ run.row \in Rows
         /\ run.row = "leave" => OfLeave
         /\ run.row = "arrive" => OfArrive
         /\ run.row = "keysBack" => OfKeysBack
         /\ run.row = "leaveOn" => OfLeaveOn
         /\ run.row \in {"back", "backAside", "settingAside"} => OfBack
         /\ run.row = "keysAside" => OfKeysAside
         /\ run.row = "giveUp" => OfGiveUp
         /\ run.row = "start" => OfStart
BY DEF Inv, RunInv, RowInv, TypeOK, Runs

\* A folder written that is no park of an account's, or is the one the move is of.
LEMMA FolderData ==
  ASSUME TypeOK, Data, UNCHANGED <<saved, pending>>, NEW n \in Names,
         \A o \in Names : o # n => folders'[o] = folders[o],
         folders'[n].has[Jar] \in Jars, root'.has[Jar] \in Jars,
         MoveHolds(saved, n) \/ n \in pending,
         \A a \in Accounts : IsPark(saved, a, n) => MoveHolds(saved, n),
         MovePark'
  PROVE  Data'
<1>1. JarsTyped' BY DEF Data, JarsTyped
<1>2. EveryFolderNamed'
  <2>1. \A o \in Names : Named(saved, o)' <=> Named(saved, o) BY DEF Named, MoveHolds
  <2>2. \A o \in Names : o # n /\ HoldsAnything(o)' => HoldsAnything(o) BY DEF HoldsAnything, InFolder
  <2> QED BY <2>1, <2>2, NamedIs DEF Data, EveryFolderNamed
<1>3. Once(saved)' /\ Apart(saved)'
  BY DEF Data, Once, Apart, IsPark, IsParked, Aside, Listed, MoveHolds
<1>5. ParksWhole'
  <2>1. \A a \in Accounts : saved.parked[a] # None => saved.parked[a].name \in Names
    BY DEF TypeOK, Records
  <2>2. ASSUME NEW a \in Accounts, saved.parked[a] # None, ~MoveHolds(saved, saved.parked[a].name)
        PROVE  CanArrive(a)'
    <3>1. CanArrive(a) BY <2>2 DEF Data, ParksWhole
    <3>2. saved.parked[a].name # n BY <2>2 DEF IsPark
    <3> QED BY <2>1, <2>2, <3>1, <3>2, ArrivesStill
  <2> QED BY <2>2 DEF ParksWhole, MoveHolds
<1> QED BY <1>1, <1>2, <1>3, <1>5 DEF Data

\* One folder written, typed.
LEMMA FolderTyped ==
  ASSUME TypeOK, NEW n \in Names, NEW f \in Folders, f.made, folders' = [folders EXCEPT ![n] = f]
  PROVE  /\ folders' \in [Names -> Folders] /\ folders'[n] = f
         /\ \A o \in Names : o # n => folders'[o] = folders[o]
         /\ \A o \in Names : folders'[o].made \/ folders'[o] = NoFolder
<1>1. folders \in [Names -> Folders] /\ \A o \in Names : folders[o].made \/ folders[o] = NoFolder
  BY DEF TypeOK
<1>2. folders' \in [Names -> Folders] BY <1>1
<1>3. folders'[n] = f /\ \A o \in Names : o # n => folders'[o] = folders[o] BY <1>1
<1> QED BY <1>1, <1>2, <1>3

\* The park of a move stays what it was, where its folder does.
LEMMA MoveParkStays ==
  ASSUME MovePark, UNCHANGED saved, Moving # NoMove => folders'[Moving.park] = folders[Moving.park]
  PROVE  MovePark'
BY DEF MovePark, Moving, NamedBy

\* Where a run builds: a folder of the move's, or one written down alone; never a park.
LEMMA BuildsWhere ==
  ASSUME Inv, pc \in {"make", "manifest", "keys"}
  PROVE  /\ run.name \in Names /\ run.kept # None
         /\ run.row \in {"leave", "arrive", "keysAside", "giveUp", "start"}
         /\ MoveHolds(saved, run.name) \/ run.name \in pending
         /\ \A a \in Accounts : ~IsPark(saved, a, run.name)
         /\ Moving # NoMove /\ run.row = "leave" => run.name = Moving.park
         /\ Moving # NoMove /\ run.row # "leave" => run.name # Moving.park
<1>1. pc \in Doing BY DEF Doing, Fallible
<1>2. run.name \in Names /\ run.kept # None BY DEF Inv, RunInv, Building
<1>3. run.row \in {"leave", "arrive", "keysAside", "giveUp", "start"}
  BY <1>1, RowAt DEF Rows, OfKeysBack, OfLeaveOn, OfBack
<1>4. Apart(saved) BY DEF Inv, Data
<1>5. CASE run.row = "leave"
  <2>1. Moving # NoMove /\ Moving.half = "leave" /\ run.name = Moving.park
    BY <1>1, <1>5, RowAt DEF OfLeave
  <2>2. MoveHolds(saved, run.name) BY <2>1 DEF MoveHolds, Moving
  <2> QED BY <1>2, <1>4, <1>5, <2>1, <2>2 DEF Apart, Moving
<1>6. CASE run.row \in {"arrive", "keysAside", "giveUp"}
  <2>1. Moving # NoMove /\ run.name \in Moving.asides
    BY <1>1, <1>6, RowAt DEF OfArrive, OfKeysAside, OfGiveUp, Built
  <2>2. MoveHolds(saved, run.name) BY <2>1 DEF MoveHolds, Moving
  <2> QED BY <1>2, <1>4, <1>6, <2>1, <2>2 DEF Apart, Moving
<1>7. CASE run.row = "start"
  <2>1. Moving = NoMove /\ run.name \in pending /\ ~Named(saved, run.name)
    BY <1>1, <1>7, RowAt DEF OfStart
  <2> QED BY <1>2, <1>7, <2>1, NamedIs DEF IsParked
<1> QED BY <1>2, <1>3, <1>5, <1>6, <1>7

\* A folder's first writes: made, its manifest, its keys, and none of a login yet.
LEMMA BuildKeeps ==
  ASSUME Inv, pc \in {"make", "manifest", "keys"}, Advance,
         UNCHANGED <<appOpen, issued, ended, ran>>,
         NEW f \in Folders, f.made, \A i \in ItemSet : f.has[i] = None, InFolders(run.name, f),
         run.row = "leave" =>
           /\ f.manifest # None => /\ f.manifest.account = Moving.who
                                   /\ f.manifest.login = Moving.login
                                   /\ f.manifest.keys = Moving.keys
           /\ f.keys = {} \/ (f.keys = {Moving.keys} /\ f.manifest # None)
           /\ pc = "keys" => f.keys = {Moving.keys},
         Building'
  PROVE  Inv'
<1>i. TypeOK /\ Data /\ MovePark BY DEF Inv, Data
<1>5. None \notin Commands \cup Rows \cup Stages BY NoneApart
<1>b. /\ run.name \in Names
      /\ run.row \in {"leave", "arrive", "keysAside", "giveUp", "start"}
      /\ MoveHolds(saved, run.name) \/ run.name \in pending
      /\ \A a \in Accounts : ~IsPark(saved, a, run.name)
      /\ Moving # NoMove /\ run.row = "leave" => run.name = Moving.park
      /\ Moving # NoMove /\ run.row # "leave" => run.name # Moving.park
  BY BuildsWhere
<1>d. pc \in Doing BY DEF Doing, Fallible
<1>0. /\ folders' = [folders EXCEPT ![run.name] = f] /\ UNCHANGED <<root, saved, pending>>
      /\ run' = run /\ pc' = After
  BY DEF InFolders, Advance, Goes
<1>m. Moving' = Moving BY <1>0 DEF Moving
<1>f. /\ folders' \in [Names -> Folders] /\ folders'[run.name] = f
      /\ \A o \in Names : o # run.name => folders'[o] = folders[o]
      /\ \A o \in Names : folders'[o].made \/ folders'[o] = NoFolder
  BY <1>0, <1>b, <1>i, FolderTyped
<1>r. /\ run.row = "leave" => OfLeave
      /\ run.row = "arrive" => OfArrive
      /\ run.row = "keysAside" => OfKeysAside
      /\ run.row = "giveUp" => OfGiveUp
      /\ run.row = "start" => OfStart
  BY <1>d, RowAt
<1>k. run.row = "leave" => root.keys # None
  <2>1. run.row = "leave" => Moving # NoMove /\ root.keys = Moving.keys BY <1>r DEF OfLeave
  <2>2. Moving # NoMove => NamedBy(Moving.keys) = Moving.who /\ Moving.who \in Accounts
    BY <1>i, MoveTyped DEF MovePark
  <2> QED BY <2>1, <2>2, NoneApart DEF NamedBy
<1>p. /\ pc' \in {"manifest", "keys", "clear", "setAside", "out"}
      /\ pc' \in {"clear", "setAside", "out"} => pc = "keys"
      /\ pc' = "setAside" => run.row = "arrive"
      /\ pc' = "out" => run.row = "giveUp"
      /\ pc' = "clear" => run.row # "giveUp"
  BY <1>0, <1>b, <1>k, <1>r, AfterIs DEF OfKeysAside, OfStart
<1>1. TypeOK' BY <1>0, <1>f, <1>i, <1>p DEF TypeOK, Steps, Fallible
<1>2. MovePark'
  <2>1. CASE Moving # NoMove /\ run.row = "leave"
    <3>1. folders'[Moving.park] = f /\ Moving.half = "leave" BY <1>b, <1>f, <1>r, <2>1 DEF OfLeave
    <3> QED BY <1>i, <1>m, <2>1, <3>1, Constant DEF MovePark, NamedBy
  <2>2. CASE Moving = NoMove \/ run.row # "leave"
    <3>1. Moving # NoMove => Moving.park \in Names BY <1>i, MoveTyped
    <3> QED BY <1>0, <1>b, <1>f, <1>i, <2>2, <3>1, MoveParkStays
  <2> QED BY <2>1, <2>2
<1>3. Data'
  <2>1. root'.has[Jar] \in Jars BY <1>0, <1>i DEF Data, JarsTyped
  <2>2. folders'[run.name].has[Jar] \in Jars BY <1>f, Constant DEF Jars
  <2> QED BY <1>0, <1>b, <1>f, <1>i, <1>2, <2>1, <2>2, FolderData
<1>4. \A a \in Accounts : CanArrive(a) => CanArrive(a)'
  <2>1. \A a \in Accounts : saved.parked[a] # None =>
          saved.parked[a].name \in Names /\ saved.parked[a].name # run.name
    BY <1>b, <1>i DEF TypeOK, Records, IsPark
  <2> QED BY <1>0, <1>f, <2>1, ArrivesStill
<1>8. RowInv'
  <2>1. run.row = "leave" => OfLeave'
    BY <1>0, <1>b, <1>f, <1>m, <1>p, <1>r DEF OfLeave
  <2>2. run.row = "arrive" => OfArrive'
    BY <1>0, <1>b, <1>f, <1>m, <1>p, <1>r DEF OfArrive, Built
  <2>3. run.row = "keysAside" => OfKeysAside'
    BY <1>0, <1>b, <1>f, <1>m, <1>p, <1>r DEF OfKeysAside
  <2>4. run.row = "giveUp" => OfGiveUp'
    BY <1>0, <1>b, <1>f, <1>m, <1>p, <1>r DEF OfGiveUp
  <2>5. run.row = "start" => OfStart'
    <3>1. Named(saved, run.name)' <=> Named(saved, run.name) BY <1>0 DEF Named, MoveHolds
    <3> QED BY <1>0, <1>b, <1>f, <1>m, <1>p, <1>r, <3>1 DEF OfStart
  <2> QED BY <1>0, <1>5, <1>b, <2>1, <2>2, <2>3, <2>4, <2>5 DEF RowInv, Rows
<1>6. Committing' BY <1>p DEF Committing
<1>7. pc' \in Mid BY <1>p DEF Mid, Doing, Fallible
<1> QED BY <1>0, <1>1, <1>3, <1>4, <1>8, <1>6, <1>7, <1>d, WorkKeeps

\* A folder made, and nothing in it.
LEMMA EmptyTyped ==
  /\ NoFolder \in Folders /\ [NoFolder EXCEPT !.made = TRUE] \in Folders
  /\ [NoFolder EXCEPT !.made = TRUE].made
  /\ [NoFolder EXCEPT !.made = TRUE].manifest = None /\ [NoFolder EXCEPT !.made = TRUE].keys = {}
  /\ \A i \in ItemSet : [NoFolder EXCEPT !.made = TRUE].has[i] = None
<1>1. NoFolder \in Folders BY Constant DEF NoFolder, Folders
<1> QED BY <1>1 DEF NoFolder, Folders, Nothing

\* The three writes.
LEMMA BuildInv ==
  ASSUME Inv, Make \/ WriteManifest \/ WriteKeys, UNCHANGED <<appOpen, issued, ended, ran>>
  PROVE  Inv'
<1>i. TypeOK /\ Data /\ Building BY DEF Inv, RunInv
<1>p. pc \in {"make", "manifest", "keys"} BY DEF Make, WriteManifest, WriteKeys
<1>b. run.name \in Names /\ run.kept # None BY <1>p, BuildsWhere
<1>k. run.kept \in Manifests /\ run.kept.keys \in Keys BY <1>b, <1>i DEF TypeOK, Runs, Manifests
<1>l. run.row = "leave" =>
        /\ run.kept.account = Moving.who /\ run.kept.login = Moving.login
        /\ run.kept.keys = Moving.keys
  <2>1. pc \in Doing BY <1>p DEF Doing, Fallible
  <2> QED BY <1>p, <2>1, RowAt DEF OfLeave
<1>n. PICK e : e = [NoFolder EXCEPT !.made = TRUE] OBVIOUS
<1>e. /\ e \in Folders /\ e.made /\ e.manifest = None /\ e.keys = {} /\ \A i \in ItemSet : e.has[i] = None
  BY <1>n, EmptyTyped
<1>1. CASE Make
  <2>1. CASE folders[run.name].made
    <3>1. Failed /\ UNCHANGED <<root, folders, saved, pending>> BY <1>1, <2>1 DEF Make, Unmoved, disk
    <3>2. pc \in Fallible BY <1>p DEF Fallible
    <3> QED BY <3>1, <3>2, FailedKeeps
  <2>2. CASE ~folders[run.name].made
    <3>1. pc = "make" /\ Advance /\ InFolders(run.name, e) BY <1>1, <1>n, <2>2 DEF Make
    <3>2. folders'[run.name] = e BY <3>1, <1>b, <1>i DEF InFolders, TypeOK
    <3>3. pc' = "manifest" /\ run' = run BY <3>1, AfterIs DEF Advance, Goes
    <3>4. Building' BY <1>b, <1>n, <3>2, <3>3 DEF Building
    <3> QED BY <1>e, <1>p, <3>1, <3>4, BuildKeeps
  <2> QED BY <2>1, <2>2
<1>2. CASE WriteManifest
  <2>1. pc = "manifest" /\ Advance /\ InFolders(run.name, [folders[run.name] EXCEPT !.manifest = run.kept])
    BY <1>2 DEF WriteManifest
  <2>2. folders[run.name] = e BY <2>1, <1>n, <1>i DEF Building
  <2>f. PICK f : f = [e EXCEPT !.manifest = run.kept] OBVIOUS
  <2>3. /\ f \in Folders /\ f.made /\ f.manifest = run.kept /\ f.keys = {}
        /\ \A i \in ItemSet : f.has[i] = None
    BY <2>f, <1>e, <1>k DEF Folders
  <2>4. InFolders(run.name, f) BY <2>1, <2>2, <2>f
  <2>5. folders'[run.name] = f BY <2>4, <1>b, <1>i DEF InFolders, TypeOK
  <2>6. pc' = "keys" /\ run' = run BY <2>1, AfterIs DEF Advance, Goes
  <2>7. Building'
    <3>1. f = [NoFolder EXCEPT !.made = TRUE, !.manifest = run.kept] BY <2>f, <1>n DEF NoFolder
    <3> QED BY <1>b, <2>5, <2>6, <3>1 DEF Building
  <2> QED BY <1>l, <1>p, <2>1, <2>3, <2>4, <2>7, BuildKeeps
<1>3. CASE WriteKeys
  <2>1. pc = "keys" /\ Advance /\ InFolders(run.name, [folders[run.name] EXCEPT !.keys = {run.kept.keys}])
    BY <1>3 DEF WriteKeys
  <2>g. PICK g : g = folders[run.name] OBVIOUS
  <2>2. /\ g \in Folders /\ g.made /\ g.manifest = run.kept /\ \A i \in ItemSet : g.has[i] = None
    <3>1. g = [NoFolder EXCEPT !.made = TRUE, !.manifest = run.kept] BY <2>1, <2>g, <1>i DEF Building
    <3>2. g \in Folders BY <2>g, <1>b, <1>i DEF TypeOK
    <3> QED BY <3>1, <3>2 DEF NoFolder, Nothing
  <2>f. PICK f : f = [g EXCEPT !.keys = {run.kept.keys}] OBVIOUS
  <2>3. /\ f \in Folders /\ f.made /\ f.manifest = run.kept /\ f.keys = {run.kept.keys}
        /\ \A i \in ItemSet : f.has[i] = None
    BY <2>f, <2>2, <1>k DEF Folders
  <2>4. InFolders(run.name, f) BY <2>1, <2>f, <2>g
  <2>6. pc' \notin {"make", "manifest", "keys"} BY <2>1, AfterIs DEF Advance, Goes
  <2>7. Building' BY <2>6 DEF Building
  <2> QED BY <1>b, <1>l, <1>p, <2>1, <2>3, <2>4, <2>7, BuildKeeps
<1> QED BY <1>1, <1>2, <1>3

-----------------------------------------------------------------------------
(* The steps of a move. *)

\* A step that writes at most the settings: what the folders hold and the jar stay.
LEMMA QuietKeeps ==
  ASSUME Inv, pc \in Doing, pc' \in Mid, UNCHANGED <<folders, saved, pending, appOpen, issued>>,
         ended' \subseteq Sessions, ran' \in BOOLEAN,
         root' \in [has : Holding, keys : Keys], root'.has = root.has, run' \in Runs,
         run'.op = run.op, run'.who = run.who, run'.session = run.session, run'.half = run.half,
         run'.on = run.on, run'.stopped = run.stopped, run'.name = run.name,
         pc' \notin {"manifest", "keys"}, pc' = "make" => run.name \in Names /\ run'.kept # None,
         RowInv', Committing'
  PROVE  Inv'
<1>i. TypeOK /\ Data BY DEF Inv
<1>1. TypeOK' BY <1>i DEF TypeOK, Mid, Doing, Closing, Steps
<1>2. Data'
  <2>1. root'.has[Jar] \in Jars BY <1>i DEF Data, JarsTyped
  <2> QED BY <1>i, <2>1, RootData
<1>3. \A a : CanArrive(a) => CanArrive(a)' BY DEF CanArrive, HeldItems, InFolder
<1>4. Building' BY DEF Building
<1> QED BY <1>1, <1>2, <1>3, <1>4, WorkKeeps

\* What the settings hold is kept aside: an arrive's list of what was left there first.
LEMMA KeepInv ==
  ASSUME Inv, KeepSettings, UNCHANGED <<appOpen, issued, ended, ran>>
  PROVE  Inv'
<1>i. TypeOK BY DEF Inv
<1>5. None \notin Commands \cup Rows \cup Stages BY NoneApart
<1>0. pc = "keep" /\ pc' = "make" /\ UNCHANGED <<root, folders, saved, pending>>
  BY AfterIs DEF KeepSettings, Unmoved, disk
<1>d. pc \in Doing BY <1>0 DEF Doing, Fallible
<1>r. run.row \in {"arrive", "keysAside", "start"}
  BY <1>0, <1>d, RowAt DEF Rows, OfLeave, OfKeysBack, OfLeaveOn, OfBack, OfGiveUp
<1>w. /\ run.row = "arrive" => OfArrive
      /\ run.row = "keysAside" => OfKeysAside
      /\ run.row = "start" => OfStart
  BY <1>d, RowAt
<1>n. run.name \in Names
  <2>1. Moving # NoMove => Moving.asides \in SUBSET Names BY <1>i, MoveTyped
  <2> QED BY <1>0, <1>r, <1>w, <2>1 DEF OfArrive, OfKeysAside, OfStart, Built
<1>a. LeftBehind \in Accounts \cup {None}
  <2>1. CASE ListingLeft = {} BY <2>1 DEF LeftBehind
  <2>2. CASE ListingLeft # {}
    <3> PICK n : n = CHOOSE o \in ListingLeft : TRUE OBVIOUS
    <3>1. n \in ListingLeft BY <2>2
    <3>2. n \in Names /\ folders[n].manifest # None BY <3>1 DEF ListingLeft
    <3>3. folders[n].manifest \in Manifests BY <3>2, <1>i DEF TypeOK, Folders
    <3>4. LeftBehind = folders[n].manifest.account BY <2>2 DEF LeftBehind
    <3> QED BY <3>3, <3>4 DEF Manifests
  <2> QED BY <2>1, <2>2
<1>v. PICK a, is : /\ a = IF run.row = "arrive" THEN LeftBehind ELSE None
                   /\ is = IF run.row = "arrive" THEN Present ELSE {} OBVIOUS
<1>k. PICK kept : kept = AsideManifest(a, is, root.keys) OBVIOUS
<1>t. kept \in Manifests /\ kept # None
  <2>1. a \in Accounts \cup {None} /\ is \in SUBSET ItemSet BY <1>a, <1>v DEF Present
  <2>2. root.keys \in Keys BY <1>i DEF TypeOK
  <2> QED BY <1>k, <2>1, <2>2, AsideTyped
<1>x. run' = [run EXCEPT !.kept = kept] BY <1>k, <1>v DEF KeepSettings
<1>6. run' \in Runs BY <1>x, <1>t, <1>i DEF TypeOK, Runs
<1>7. /\ run'.op = run.op /\ run'.who = run.who /\ run'.session = run.session /\ run'.half = run.half
      /\ run'.on = run.on /\ run'.stopped = run.stopped /\ run'.name = run.name
      /\ run'.row = run.row /\ run'.to = run.to /\ run'.kept = kept
  BY <1>x, <1>i DEF TypeOK, Runs
<1>m. Moving' = Moving BY <1>0 DEF Moving
<1>8. RowInv'
  <2>1. run.row = "arrive" => OfArrive' BY <1>0, <1>7, <1>m, <1>w DEF OfArrive, Built
  <2>2. run.row = "keysAside" => OfKeysAside' BY <1>0, <1>7, <1>m, <1>w DEF OfKeysAside
  <2>3. run.row = "start" => OfStart'
    <3>1. Named(saved, run.name)' <=> Named(saved, run.name) BY <1>0, <1>7 DEF Named, MoveHolds
    <3> QED BY <1>0, <1>7, <1>m, <1>w, <3>1 DEF OfStart
  <2> QED BY <1>0, <1>5, <1>7, <1>r, <2>1, <2>2, <2>3 DEF RowInv, Rows
<1>9. Committing' BY <1>0 DEF Committing
<1>10. pc' \in Mid /\ ended' \subseteq Sessions /\ ran' \in BOOLEAN
  BY <1>0, <1>i DEF Mid, Doing, Fallible, TypeOK
<1>11. root' \in [has : Holding, keys : Keys] /\ root'.has = root.has BY <1>0, <1>i DEF TypeOK
<1> QED BY <1>0, <1>d, <1>n, <1>t, <1>6, <1>7, <1>8, <1>9, <1>10, <1>11, QuietKeeps

\* The settings written: their keys taken away, or put.
LEMMA KeysInv ==
  ASSUME Inv, ClearKeys \/ PutKeys, UNCHANGED <<appOpen, issued, ended, ran>>
  PROVE  Inv'
<1>i. TypeOK BY DEF Inv
<1>5. None \notin Commands \cup Rows \cup Stages BY NoneApart
<1>0. /\ pc \in {"clear", "put"} /\ pc' = After /\ run' = run
      /\ UNCHANGED <<folders, saved, pending>>
  BY DEF ClearKeys, PutKeys, Advance, Goes, disk
<1>d. pc \in Doing BY <1>0 DEF Doing, Fallible
<1>r. /\ pc = "clear" => run.row \in {"leave", "arrive", "leaveOn", "keysAside", "start"}
      /\ pc = "put" => run.row \in {"arrive", "keysBack"}
  BY <1>0, <1>d, RowAt DEF Rows, OfLeave, OfKeysBack, OfLeaveOn, OfBack, OfGiveUp, OfKeysAside, OfStart
<1>w. /\ run.row = "leave" => OfLeave
      /\ run.row = "arrive" => OfArrive
      /\ run.row = "keysBack" => OfKeysBack
      /\ run.row = "leaveOn" => OfLeaveOn
      /\ run.row = "keysAside" => OfKeysAside
      /\ run.row = "start" => OfStart
  BY <1>d, RowAt
<1>k. PICK k : k = IF pc = "clear" THEN None ELSE Moving.keys OBVIOUS
<1>1. root' = [root EXCEPT !.keys = k] BY <1>k DEF ClearKeys, PutKeys
<1>2. k \in Keys
  <2>1. None \in Keys BY DEF Keys
  <2>2. pc = "put" => Moving # NoMove BY <1>r, <1>w DEF OfArrive, OfKeysBack
  <2> QED BY <1>0, <1>k, <1>i, <2>1, <2>2, MoveTyped
<1>3. root' \in [has : Holding, keys : Keys] /\ root'.has = root.has BY <1>1, <1>2, <1>i DEF TypeOK
<1>p. /\ pc = "clear" /\ run.row = "arrive" => pc' = "setAside"
      /\ pc = "clear" /\ run.row = "start" => pc' = "midway"
      /\ pc = "clear" /\ run.row \in {"leave", "leaveOn", "keysAside"} => pc' = "out"
      /\ pc = "put" /\ run.row = "arrive" => pc' = "arrived"
      /\ pc = "put" /\ run.row = "keysBack" => pc' = "midway"
  BY <1>0, AfterIs
<1>q. pc' \in {"setAside", "midway", "out", "arrived"} BY <1>0, <1>p, <1>r
<1>m. Moving' = Moving BY <1>0 DEF Moving
<1>8. RowInv'
  <2>1. run.row = "leave" => OfLeave' BY <1>0, <1>3, <1>m, <1>p, <1>r, <1>w DEF OfLeave
  <2>2. run.row = "arrive" => OfArrive' BY <1>0, <1>3, <1>m, <1>p, <1>r, <1>w DEF OfArrive, Built
  <2>3. run.row = "keysBack" => OfKeysBack' BY <1>0, <1>3, <1>m, <1>p, <1>r, <1>w DEF OfKeysBack
  <2>4. run.row = "leaveOn" => OfLeaveOn' BY <1>0, <1>3, <1>m, <1>p, <1>r, <1>w DEF OfLeaveOn
  <2>5. run.row = "keysAside" => OfKeysAside' BY <1>0, <1>3, <1>m, <1>p, <1>r, <1>w DEF OfKeysAside
  <2>6. run.row = "start" => OfStart'
    <3>1. Named(saved, run.name)' <=> Named(saved, run.name) BY <1>0 DEF Named, MoveHolds
    <3> QED BY <1>0, <1>m, <1>p, <1>r, <1>w, <3>1 DEF OfStart
  <2> QED BY <1>0, <1>5, <1>q, <1>r, <2>1, <2>2, <2>3, <2>4, <2>5, <2>6 DEF RowInv, Rows
<1>9. Committing' BY <1>q DEF Committing
<1>10. pc' \in Mid /\ ended' \subseteq Sessions /\ ran' \in BOOLEAN /\ run' \in Runs
  BY <1>0, <1>q, <1>i DEF Mid, Doing, Fallible, TypeOK
<1> QED BY <1>0, <1>d, <1>3, <1>q, <1>8, <1>9, <1>10, QuietKeeps

\* The steps of an arrive that only look: at the settings, at what it has put there.
LEMMA LooksInv ==
  ASSUME Inv, HeldKeys \/ VerifyArrived, UNCHANGED <<appOpen, issued, ended, ran>>
  PROVE  Inv'
<1>i. TypeOK BY DEF Inv
<1>5. None \notin Commands \cup Rows \cup Stages BY NoneApart
<1>0. pc \in {"held", "arrived"} /\ UNCHANGED <<root, folders, saved, pending>> /\ (Advance \/ Failed)
  BY DEF HeldKeys, VerifyArrived, Unmoved, disk
<1>d. pc \in Doing /\ pc \in Fallible BY <1>0 DEF Doing, Fallible
<1>1. CASE Failed BY <1>0, <1>1, <1>d, FailedKeeps
<1>2. CASE Advance
  <2>r. run.row = "arrive"
    BY <1>0, <1>d, RowAt DEF Rows, OfLeave, OfKeysBack, OfLeaveOn, OfBack, OfGiveUp, OfKeysAside, OfStart
  <2>w. OfArrive BY <2>r, <1>d, RowAt
  <2>0. pc' \in {"forgetLeft", "midway"} /\ run' = run BY <1>0, <1>2, AfterIs DEF Advance, Goes
  <2>m. Moving' = Moving BY <1>0 DEF Moving
  <2>8. RowInv'
    <3>1. OfArrive' BY <1>0, <2>0, <2>m, <2>w DEF OfArrive, Built
    <3> QED BY <1>5, <2>0, <2>r, <3>1 DEF RowInv, Rows
  <2>9. Committing' BY <2>0 DEF Committing
  <2>10. /\ pc' \in Mid /\ ended' \subseteq Sessions /\ ran' \in BOOLEAN /\ run' \in Runs
         /\ root' \in [has : Holding, keys : Keys] /\ root'.has = root.has
    BY <1>0, <2>0, <1>i DEF Mid, Doing, Fallible, TypeOK
  <2> QED BY <1>0, <1>d, <2>0, <2>8, <2>9, <2>10, QuietKeeps
<1> QED BY <1>0, <1>1, <1>2

\* What is in the app's folder is to be set aside.
LEMMA SetAsideInv ==
  ASSUME Inv, SetAside, UNCHANGED <<appOpen, issued, ended, ran>>
  PROVE  Inv'
<1>i. TypeOK BY DEF Inv
<1>5. None \notin Commands \cup Rows \cup Stages BY NoneApart
<1>0. pc = "setAside" /\ pc' = "out" /\ UNCHANGED <<root, folders, saved, pending>>
  BY AfterIs DEF SetAside, Unmoved, disk
<1>d. pc \in Doing BY <1>0 DEF Doing, Fallible
<1>r. run.row = "arrive"
  BY <1>0, <1>d, RowAt DEF Rows, OfLeave, OfKeysBack, OfLeaveOn, OfBack, OfGiveUp, OfKeysAside, OfStart
<1>w. OfArrive BY <1>r, <1>d, RowAt
<1> PICK is : is = Present OBVIOUS
<1>x. run' = [run EXCEPT !.items = is] BY DEF SetAside
<1>6. run' \in Runs BY <1>x, <1>i DEF TypeOK, Runs, Present
<1>7. /\ run'.op = run.op /\ run'.who = run.who /\ run'.session = run.session /\ run'.half = run.half
      /\ run'.on = run.on /\ run'.stopped = run.stopped /\ run'.name = run.name
      /\ run'.row = run.row /\ run'.to = run.to
  BY <1>x, <1>i DEF TypeOK, Runs
<1>m. Moving' = Moving BY <1>0 DEF Moving
<1>8. RowInv'
  <2>1. OfArrive' BY <1>0, <1>7, <1>m, <1>w DEF OfArrive, Built
  <2> QED BY <1>0, <1>5, <1>7, <1>r, <2>1 DEF RowInv, Rows
<1>9. Committing' BY <1>0 DEF Committing
<1>10. /\ pc' \in Mid /\ ended' \subseteq Sessions /\ ran' \in BOOLEAN
       /\ root' \in [has : Holding, keys : Keys] /\ root'.has = root.has
  BY <1>0, <1>i DEF Mid, Doing, Fallible, TypeOK
<1> QED BY <1>0, <1>d, <1>6, <1>7, <1>8, <1>9, <1>10, QuietKeeps

\* A folder that holds an item, or keys, is there.
LEMMA IsMade ==
  ASSUME TypeOK, NEW n \in Names
  PROVE  /\ folders[n].keys # {} => folders[n].made
         /\ \A i \in ItemSet : folders[n].has[i] # None => folders[n].made
         /\ folders[n].manifest # None => folders[n].made
BY DEF TypeOK, NoFolder, Nothing

\* An arrive killed as it set aside what was there: the rest follows its jar.
LEMMA FinishAsideInv ==
  ASSUME Inv, FinishAside, UNCHANGED <<appOpen, issued, ended, ran>>
  PROVE  Inv'
<1>i. TypeOK BY DEF Inv
<1>5. None \notin Commands \cup Rows \cup Stages BY NoneApart
<1>0. pc = "finishAside" /\ UNCHANGED <<root, folders, saved, pending>>
  BY DEF FinishAside, Unmoved, disk
<1>d. pc \in Doing BY <1>0 DEF Doing, Fallible
<1>r. run.row = "backAside"
  BY <1>0, <1>d, RowAt DEF Rows, OfLeave, OfArrive, Built, OfKeysBack, OfLeaveOn, OfBack, OfGiveUp, OfKeysAside, OfStart
<1>w. OfBack BY <1>r, <1>d, RowAt
<1>m. Moving' = Moving /\ Moving # NoMove BY <1>0, <1>w DEF Moving, OfBack
<1>t. Moving.park \in Names /\ Moving.asides \in SUBSET Names BY <1>m, <1>i, MoveTyped
<1>h. Whole(Moving.park, Moving.who, Moving.login)' BY <1>0, <1>m, <1>w, WholeStays DEF OfBack
<1>10. /\ ended' \subseteq Sessions /\ ran' \in BOOLEAN
       /\ root' \in [has : Holding, keys : Keys] /\ root'.has = root.has
  BY <1>0, <1>i DEF TypeOK
<1> PICK begun : begun = {n \in Moving.asides : InFolder(n, Jar)} OBVIOUS
<1>1. CASE begun = {}
  <2>0. pc' = "midway" /\ run' = run BY <1>0, <1>1, AfterIs DEF FinishAside, Advance, Goes
  <2>8. RowInv'
    <3>1. OfBack' BY <1>0, <1>h, <1>m, <1>r, <2>0, <1>w DEF OfBack
    <3> QED BY <1>0, <1>5, <1>r, <2>0, <3>1 DEF RowInv, Rows
  <2>9. Committing' BY <2>0 DEF Committing
  <2>10. pc' \in Mid /\ run' \in Runs BY <2>0, <1>i DEF Mid, Doing, Fallible, TypeOK
  <2> QED BY <1>0, <1>d, <2>0, <1>10, <2>8, <2>9, <2>10, QuietKeeps
<1>2. CASE begun # {}
  <2>v. PICK n, is : n = (CHOOSE o \in begun : TRUE) /\ is = Present OBVIOUS
  <2>n. n \in begun BY <1>2, <2>v
  <2>f. n \in Moving.asides /\ n \in Names /\ folders[n].made
    BY <2>n, <1>i, <1>t, IsMade, Constant DEF InFolder
  <2>0. Starts("out", run.on, "settingAside", is, n) BY <1>2, <2>v DEF FinishAside
  <2>p. pc' = "out" BY <2>0 DEF Starts
  <2>x. run' = [run EXCEPT !.on = run.on, !.row = "settingAside", !.items = is, !.to = n]
    BY <2>0 DEF Starts
  <2>i. is \in SUBSET ItemSet BY <2>v DEF Present
  <2>6. run' \in Runs BY <2>x, <2>f, <2>i, <1>i DEF TypeOK, Runs, Rows
  <2>7. /\ run'.op = run.op /\ run'.who = run.who /\ run'.session = run.session /\ run'.half = run.half
        /\ run'.on = run.on /\ run'.stopped = run.stopped /\ run'.name = run.name
        /\ run'.row = "settingAside" /\ run'.to = n
    BY <2>x, <1>i DEF TypeOK, Runs
  <2>8. RowInv'
    <3>1. OfBack' BY <1>0, <1>h, <1>m, <1>r, <2>p, <2>f, <2>7, <1>w DEF OfBack
    <3> QED BY <1>0, <1>5, <2>p, <2>7, <3>1 DEF RowInv, Rows
  <2>9. Committing' BY <2>p DEF Committing
  <2>10. pc' \in Mid BY <2>p DEF Mid, Doing, Fallible
  <2> QED BY <1>0, <1>d, <2>p, <2>6, <2>7, <1>10, <2>8, <2>9, <2>10, QuietKeeps
<1> QED BY <1>1, <1>2

\* The look after the last write: a move is recorded as done only with the app closed.
LEMMA MidwayInv ==
  ASSUME Inv, Midway
  PROVE  Inv'
<1>i. TypeOK BY DEF Inv
<1>5. None \notin Commands \cup Rows \cup Stages BY NoneApart
<1>0. pc = "midway" /\ UNCHANGED <<root, folders, saved, pending, appOpen, issued, ended, ran>>
  BY DEF Midway, disk, app
<1>d. pc \in Doing BY <1>0 DEF Doing
<1>1. CASE End BY <1>0, <1>1, Ends
<1>2. CASE Advance
  <2>0. pc' = After /\ run' = run BY <1>2 DEF Advance, Goes
  <2>m. Moving' = Moving BY <1>0 DEF Moving
  <2>r. run.row \in Rows BY <1>d, RowAt
  <2>p. /\ run.row \in {"leave", "leaveOn"} => pc' = "commitLeave"
        /\ run.row = "arrive" => pc' = "commitArrive"
        /\ run.row = "giveUp" => pc' = "givenUp"
        /\ run.row = "start" => pc' = "started"
        /\ run.row \in {"keysBack", "back", "backAside", "settingAside", "keysAside"} => pc' = "undone"
    BY <1>0, <2>0, AfterIs
  <2>q. pc' \in Closing BY <2>p, <2>r DEF Rows, Closing
  <2>o. Moving # NoMove => Moving.park \in Names BY <1>i, MoveTyped
  <2>h. \A a, l : Whole(Moving.park, a, l) => Whole(Moving.park, a, l)'
    BY <1>0, <2>m, WholeStays
  <2>8. RowInv'
    <3>1. run.row = "start" => OfStart'
      <4>1. Named(saved, run.name)' <=> Named(saved, run.name) BY <1>0, <2>0 DEF Named, MoveHolds
      <4> QED BY <1>0, <1>d, <2>0, <2>m, <2>p, <4>1, RowAt DEF OfStart
    <3>2. pc' \notin Doing BY <2>q DEF Closing, Doing, Fallible
    <3> QED BY <2>0, <3>1, <3>2 DEF RowInv
  <2>9. Committing'
    <3>1. CASE run.row \in {"leave", "leaveOn"}
      BY <1>0, <1>d, <3>1, <2>0, <2>h, <2>m, <2>p, RowAt DEF OfLeave, OfLeaveOn, Committing
    <3>2. CASE run.row = "arrive"
      BY <1>0, <1>d, <3>2, <2>0, <2>m, <2>p, RowAt DEF OfArrive, Committing
    <3>3. CASE run.row = "giveUp"
      BY <1>0, <1>d, <3>3, <2>0, <2>h, <2>m, <2>p, RowAt DEF OfGiveUp, Committing
    <3>4. CASE run.row = "start"
      BY <1>0, <3>4, <2>0, <2>p DEF Committing
    <3>5. CASE run.row = "keysBack"
      BY <1>0, <1>d, <3>5, <2>0, <2>m, <2>p, RowAt DEF OfKeysBack, Committing
    <3>6. CASE run.row \in {"back", "backAside", "settingAside"}
      BY <1>0, <1>d, <3>6, <2>0, <2>h, <2>m, <2>p, RowAt DEF OfBack, Committing
    <3>7. CASE run.row = "keysAside"
      BY <1>0, <1>d, <3>7, <2>0, <2>h, <2>m, <2>p, RowAt DEF OfKeysAside, Committing
    <3> QED BY <2>r, <3>1, <3>2, <3>3, <3>4, <3>5, <3>6, <3>7 DEF Rows
  <2>10. /\ pc' \in Mid /\ run' \in Runs /\ ended' \subseteq Sessions /\ ran' \in BOOLEAN
         /\ root' \in [has : Holding, keys : Keys] /\ root'.has = root.has
    BY <1>0, <2>0, <2>q, <1>i DEF Mid, TypeOK
  <2> QED BY <1>0, <1>d, <2>0, <2>8, <2>9, <2>10, <2>q, QuietKeeps DEF Closing
<1> QED BY <1>1, <1>2 DEF Midway

\* A step that fails writes nothing.
LEMMA StepFailsInv ==
  ASSUME Inv, StepFails
  PROVE  Inv'
<1>1. pc \in Fallible /\ Failed /\ UNCHANGED <<root, folders, saved, pending, appOpen, issued, ended, ran>>
  BY DEF StepFails, Unmoved, disk, app
<1> QED BY <1>1, FailedKeeps

\* A run that dies.
LEMMA CrashInv ==
  ASSUME Inv, Crash
  PROVE  Inv'
<1>1. End /\ UNCHANGED <<root, folders, saved, pending, appOpen, issued, ended, ran>>
  BY DEF Crash, disk, app
<1> QED BY <1>1, Ends

-----------------------------------------------------------------------------
(* Items moved out, and in. *)

\* Where a run moves things out to: the park of the move, or an aside of it.
LEMMA OutWhere ==
  ASSUME Inv, pc = "out"
  PROVE  /\ run.row \in Rows \ {"keysBack", "start"} /\ Moving # NoMove
         /\ run.to \in Names /\ MoveHolds(saved, run.to) /\ folders[run.to].made
         /\ Moving.half = "leave" => \A a \in Accounts : ~IsPark(saved, a, run.to)
         /\ run.row \in {"arrive", "settingAside", "giveUp"} => run.to # Moving.park
         /\ run.to = Moving.park => /\ folders[Moving.park].keys # {}
                                    /\ Jar \in run.items => root.has[Jar] \in {None, Moving.login}
<1>d. pc \in Doing BY DEF Doing, Fallible
<1>i. TypeOK /\ Apart(saved) /\ MovePark BY DEF Inv, Data
<1>r. run.row \in Rows \ {"keysBack", "start"} BY <1>d, RowAt DEF Rows, OfKeysBack, OfStart
<1>w. /\ run.row = "leave" => OfLeave
      /\ run.row = "arrive" => OfArrive
      /\ run.row = "leaveOn" => OfLeaveOn
      /\ run.row \in {"back", "backAside", "settingAside"} => OfBack
      /\ run.row = "keysAside" => OfKeysAside
      /\ run.row = "giveUp" => OfGiveUp
  BY <1>d, RowAt
<1>m. Moving # NoMove
  BY <1>r, <1>w DEF Rows, OfLeave, OfArrive, OfLeaveOn, OfBack, OfKeysAside, OfGiveUp
<1>t. Moving.park \in Names /\ Moving.asides \in SUBSET Names /\ Moving.park \notin Moving.asides
      /\ Moving.half \in {"leave", "arrive"}
  BY <1>i, <1>m, MoveTyped DEF Apart, Moving, Moves
<1>1. CASE run.row \in {"arrive", "settingAside", "giveUp"}
  <2>1. run.to \in Moving.asides /\ folders[run.to].made
    BY <1>1, <1>w DEF OfArrive, OfBack, OfGiveUp, Built
  <2>2. MoveHolds(saved, run.to) BY <1>m, <2>1 DEF MoveHolds, Moving
  <2> QED BY <1>1, <1>i, <1>m, <1>r, <1>t, <2>1, <2>2 DEF Apart, Moving
<1>2. CASE run.row \in {"leave", "leaveOn", "back", "backAside", "keysAside"}
  <2>1. /\ run.to = Moving.park
        /\ Jar \in run.items => root.has[Jar] \in {None, Moving.login}
        /\ Moving.half = "leave" => folders[Moving.park].keys = {Moving.keys}
    BY <1>2, <1>w DEF OfLeave, OfLeaveOn, OfBack, OfKeysAside
  <2>2. folders[Moving.park].keys # {} BY <1>i, <1>m, <1>t, <2>1 DEF MovePark
  <2>3. MoveHolds(saved, run.to) BY <1>m, <2>1 DEF MoveHolds, Moving
  <2>4. folders[run.to].made BY <1>i, <1>t, <2>1, <2>2, IsMade
  <2> QED BY <1>2, <1>i, <1>m, <1>r, <1>t, <2>1, <2>2, <2>3, <2>4 DEF Apart, Moving
<1> QED BY <1>r, <1>1, <1>2 DEF Rows

\* Its row, a rename later or with nothing left to move.
LEMMA OutRows ==
  ASSUME Inv, pc = "out", UNCHANGED <<saved, pending>>,
         run'.op = run.op, run'.half = run.half, run'.on = run.on, run'.name = run.name,
         run'.row = run.row, run'.to = run.to, run'.items \subseteq run.items,
         pc' = "out" \/ pc' = After,
         root'.has[Jar] \in {None, root.has[Jar]},
         \A n \in Names : folders'[n].keys = folders[n].keys /\ folders'[n].made = folders[n].made,
         \A n \in Names : n # run.to => folders'[n] = folders[n]
  PROVE  RowInv' /\ pc' \in {"out", "forgetLeft", "hold", "verify"}
<1>d. pc \in Doing BY DEF Doing, Fallible
<1>i. TypeOK BY DEF Inv
<1>5. None \notin Commands \cup Rows \cup Stages BY NoneApart
<1>o. /\ run.row \in Rows \ {"keysBack", "start"} /\ Moving # NoMove /\ run.to \in Names
      /\ run.row \in {"arrive", "settingAside", "giveUp"} => run.to # Moving.park
  BY OutWhere
<1>w. /\ run.row = "leave" => OfLeave
      /\ run.row = "arrive" => OfArrive
      /\ run.row = "leaveOn" => OfLeaveOn
      /\ run.row \in {"back", "backAside", "settingAside"} => OfBack
      /\ run.row = "keysAside" => OfKeysAside
      /\ run.row = "giveUp" => OfGiveUp
  BY <1>d, RowAt
<1>m. Moving' = Moving BY DEF Moving
<1>t. Moving.park \in Names BY <1>i, <1>o, MoveTyped
<1>p. pc' = "out" \/ pc' = IF run.row \in {"arrive", "settingAside"} THEN "forgetLeft"
                           ELSE IF run.row = "giveUp" THEN "hold" ELSE "verify"
  BY AfterIs
<1>1. run.row = "leave" => OfLeave' BY <1>o, <1>m, <1>p, <1>t, <1>w DEF OfLeave
<1>2. run.row = "arrive" => OfArrive' BY <1>o, <1>m, <1>p, <1>t, <1>w DEF OfArrive, Built
<1>3. run.row = "leaveOn" => OfLeaveOn' BY <1>o, <1>m, <1>p, <1>t, <1>w DEF OfLeaveOn
<1>4. run.row \in {"back", "backAside", "settingAside"} => OfBack'
  <2>1. run.row = "settingAside" =>
          \A a, l : Whole(Moving.park, a, l) => Whole(Moving.park, a, l)'
    <3>1. run.row = "settingAside" => folders'[Moving.park] = folders[Moving.park] BY <1>o, <1>t
    <3> QED BY <3>1, <1>m, WholeStays
  <2> QED BY <1>o, <1>m, <1>p, <1>t, <1>w, <2>1 DEF OfBack
<1>6. run.row = "keysAside" => OfKeysAside' BY <1>o, <1>m, <1>p, <1>t, <1>w DEF OfKeysAside
<1>7. run.row = "giveUp" => OfGiveUp' BY <1>o, <1>m, <1>p, <1>t, <1>w DEF OfGiveUp
<1> QED BY <1>5, <1>o, <1>p, <1>1, <1>2, <1>3, <1>4, <1>6, <1>7 DEF RowInv, Rows

\* What is to be moved out, an item at a time, the jar first.
LEMMA MoveOutInv ==
  ASSUME Inv, MoveOut, UNCHANGED <<appOpen, issued, ended, ran>>
  PROVE  Inv'
<1>i. TypeOK /\ Data /\ MovePark /\ Halves BY DEF Inv, Data, RunInv
<1>0. pc = "out" /\ UNCHANGED <<saved, pending>> BY DEF MoveOut, Unmoved, disk
<1>d. pc \in Doing BY <1>0 DEF Doing, Fallible
<1>o. /\ Moving # NoMove
      /\ run.to \in Names /\ MoveHolds(saved, run.to) /\ folders[run.to].made
      /\ Moving.half = "leave" => \A a \in Accounts : ~IsPark(saved, a, run.to)
      /\ run.to = Moving.park => /\ folders[Moving.park].keys # {}
                                 /\ Jar \in run.items => root.has[Jar] \in {None, Moving.login}
  BY <1>0, OutWhere
<1>m. Moving' = Moving BY <1>0 DEF Moving
<1>e. ended' \subseteq Sessions /\ ran' \in BOOLEAN BY <1>i DEF TypeOK
<1> PICK n, i : n = run.to /\ i = First(run.items) OBVIOUS
<1> PICK is : is = run.items \ {i} OBVIOUS
<1>r. root \in [has : Holding, keys : Keys] /\ run.items \in SUBSET ItemSet
  BY <1>i DEF TypeOK, Runs
<1>1. CASE run.items = {}
  <2>1. /\ pc' = After /\ run' = run /\ UNCHANGED <<root, folders>>
    BY <1>0, <1>1 DEF MoveOut, Advance, Goes, Unmoved, disk
  <2>2. RowInv' /\ pc' \in {"out", "forgetLeft", "hold", "verify"} BY <1>0, <2>1, OutRows
  <2>3. Committing' BY <2>2 DEF Committing
  <2>4. pc' \in Mid BY <2>2 DEF Mid, Doing, Fallible
  <2>5. run' \in Runs /\ root' \in [has : Holding, keys : Keys] /\ root'.has = root.has
    BY <2>1, <1>i DEF TypeOK
  <2> QED BY <1>0, <1>d, <1>e, <2>1, <2>2, <2>3, <2>4, <2>5, QuietKeeps
<1>2. CASE run.items # {}
  <2>i. i \in run.items /\ i \in ItemSet BY <1>2, <1>r, FirstIs
  <2>0. pc' = pc /\ run' = [run EXCEPT !.items = is]
    <3>1. OneMoved BY <1>2 DEF MoveOut
    <3> QED BY <1>0, <3>1 DEF OneMoved
  <2>p. pc' = "out" BY <1>0, <2>0
  <2>6. run' \in Runs BY <2>0, <1>r, <1>i DEF TypeOK, Runs
  <2>7. /\ run'.op = run.op /\ run'.who = run.who /\ run'.session = run.session /\ run'.half = run.half
        /\ run'.on = run.on /\ run'.stopped = run.stopped /\ run'.name = run.name
        /\ run'.row = run.row /\ run'.to = run.to /\ run'.items \subseteq run.items
    BY <2>0, <1>i DEF TypeOK, Runs
  <2>8. Committing' BY <2>p DEF Committing
  <2>9. pc' \in Mid BY <2>p DEF Mid, Doing, Fallible
  <2>a. CASE UNCHANGED <<root, folders>>
    <3>2. RowInv' BY <1>0, <2>a, <2>p, <2>7, OutRows
    <3>5. root' \in [has : Holding, keys : Keys] /\ root'.has = root.has BY <2>a, <1>r
    <3> QED BY <1>0, <1>d, <1>e, <2>a, <2>p, <2>6, <2>7, <2>8, <2>9, <3>2, <3>5, QuietKeeps
  <2>b. CASE ~UNCHANGED <<root, folders>>
    <3>0. /\ folders' = [folders EXCEPT ![n].has[i] = root.has[i]]
          /\ root' = [root EXCEPT !.has[i] = None]
      BY <1>2, <2>b DEF MoveOut, Unmoved, disk
    <3>g. PICK g, v : g = folders[n] /\ v = root.has[i] OBVIOUS
    <3>f. PICK f : f = [g EXCEPT !.has[i] = v] OBVIOUS
    <3>1. g \in Folders /\ g.made /\ v \in Sessions \cup Accounts \cup {NoSession, Fresh, None}
      BY <1>o, <1>r, <2>i, <3>g, <1>i DEF TypeOK, Holding
    <3>2. /\ f \in Folders /\ f.made /\ f.manifest = g.manifest /\ f.keys = g.keys
          /\ f.has = [g.has EXCEPT ![i] = v]
      BY <3>1, <3>f, <2>i DEF Folders, Holding
    <3>b. f.made = g.made BY <3>1, <3>f DEF Folders
    <3>3. folders' = [folders EXCEPT ![n] = f] BY <3>0, <3>f, <3>g
    <3>4. /\ folders' \in [Names -> Folders] /\ folders'[n] = f
          /\ \A o \in Names : o # n => folders'[o] = folders[o]
          /\ \A o \in Names : folders'[o].made \/ folders'[o] = NoFolder
      BY <1>o, <1>i, <3>2, <3>3, FolderTyped
    <3>5. /\ root' \in [has : Holding, keys : Keys] /\ root'.keys = root.keys
          /\ root'.has = [root.has EXCEPT ![i] = None]
      BY <3>0, <1>r DEF Holding
    <3>h. g.has \in Holding /\ root.has \in Holding BY <1>r, <3>1 DEF Folders
    <3>6. root'.has[Jar] \in {None, root.has[Jar]} BY <3>5, <3>h, Constant DEF Holding
    <3>7. f.has[Jar] = IF i = Jar THEN root.has[Jar] ELSE g.has[Jar]
      BY <3>2, <3>g, <3>h, Constant DEF Holding
    <3>8. TypeOK' BY <1>0, <1>i, <2>p, <2>6, <3>4, <3>5 DEF TypeOK, Steps, Fallible
    <3>9. MovePark'
      <4>1. CASE n = Moving.park
        <5>1. i = Jar => root.has[Jar] \in {None, Moving.login} BY <1>o, <2>i, <4>1
        <5>2. folders'[Moving.park] = f /\ folders[Moving.park] = g BY <3>4, <3>g, <4>1
        <5>3. g.has[Jar] \in {None, Moving.login} /\ g.keys # {} BY <1>i, <1>o, <4>1, <5>2 DEF MovePark
        <5>4. f.has[Jar] \in {None, Moving.login} BY <3>7, <5>1, <5>3
        <5> QED BY <1>0, <1>i, <1>m, <1>o, <3>2, <5>2, <5>3, <5>4 DEF MovePark, NamedBy
      <4>2. CASE n # Moving.park
        <5>1. Moving.park \in Names BY <1>i, <1>o, MoveTyped
        <5> QED BY <1>0, <1>i, <3>4, <4>2, <5>1, MoveParkStays
      <4> QED BY <4>1, <4>2
    <3>10. Data'
      <4>1. root.has[Jar] \in Jars /\ g.has[Jar] \in Jars BY <1>i, <1>o, <3>g DEF Data, JarsTyped
      <4>2. root'.has[Jar] \in Jars /\ folders'[n].has[Jar] \in Jars
        BY <3>4, <3>6, <3>7, <4>1 DEF Jars
      <4> QED BY <1>0, <1>i, <1>o, <3>4, <3>9, <4>2, FolderData
    <3>11. \A a \in Accounts : run.half = "leave" /\ CanArrive(a) => CanArrive(a)'
      <4>1. ASSUME run.half = "leave", NEW a \in Accounts, CanArrive(a) PROVE CanArrive(a)'
        <5>1. Moving.half = "leave" BY <4>1, <1>i, <1>o DEF Halves
        <5>2. ~IsPark(saved, a, n) BY <1>o, <5>1
        <5>3. saved.parked[a] # None => saved.parked[a].name \in Names /\ saved.parked[a].name # n
          BY <5>2, <1>i DEF IsPark, TypeOK, Records
        <5> QED BY <1>0, <3>4, <4>1, <5>3, ArrivesStill
      <4> QED BY <4>1
    <3>12. RowInv'
      <4>1. \A o \in Names : folders'[o].keys = folders[o].keys /\ folders'[o].made = folders[o].made
        BY <3>2, <3>4, <3>b, <3>g
      <4> QED BY <1>0, <2>p, <2>7, <3>4, <3>6, <4>1, OutRows
    <3>13. Building' BY <2>p DEF Building
    <3> QED BY <1>0, <1>d, <2>7, <2>8, <2>9, <3>8, <3>10, <3>11, <3>12, <3>13, WorkKeeps
  <2> QED BY <2>a, <2>b
<1> QED BY <1>1, <1>2

\* What is put back, an item at a time, the jar last and never over anything.
LEMMA MoveInInv ==
  ASSUME Inv, MoveIn, UNCHANGED <<appOpen, issued, ended, ran>>
  PROVE  Inv'
<1>i. TypeOK /\ Data /\ MovePark /\ Halves BY DEF Inv, Data, RunInv
<1>5. None \notin Commands \cup Rows \cup Stages BY NoneApart
<1>0. pc = "in" /\ UNCHANGED <<saved, pending>>
  BY DEF MoveIn, Unmoved, disk
<1>d. pc \in Doing /\ pc \in Fallible BY <1>0 DEF Doing, Fallible
<1>r. run.row = "arrive"
  BY <1>0, <1>d, RowAt DEF Rows, OfLeave, OfKeysBack, OfLeaveOn, OfBack, OfGiveUp, OfKeysAside, OfStart
<1>w. OfArrive BY <1>r, <1>d, RowAt
<1>m. Moving' = Moving /\ Moving # NoMove /\ Moving.half = "arrive" /\ run.half = "arrive"
  BY <1>0, <1>w DEF Moving, OfArrive
<1>t. Moving.park \in Names /\ Moving.login \in Sessions BY <1>i, <1>m, MoveTyped
<1>e. ended' \subseteq Sessions /\ ran' \in BOOLEAN BY <1>i DEF TypeOK
<1> PICK n, i : n = Moving.park /\ i = Final(run.items) OBVIOUS
<1> PICK is : is = run.items \ {i} OBVIOUS
<1>q. root \in [has : Holding, keys : Keys] /\ run.items \in SUBSET ItemSet
  BY <1>i DEF TypeOK, Runs
<1>1. CASE run.items = {}
  <2>1. /\ pc' = "put" /\ run' = run /\ UNCHANGED <<root, folders>>
    BY <1>0, <1>1, AfterIs DEF MoveIn, Advance, Goes, Unmoved, disk
  <2>2. RowInv'
    <3>1. OfArrive' BY <1>0, <1>m, <1>w, <2>1 DEF OfArrive, Built
    <3> QED BY <1>5, <1>r, <2>1, <3>1 DEF RowInv, Rows
  <2>3. Committing' BY <2>1 DEF Committing
  <2>4. pc' \in Mid BY <2>1 DEF Mid, Doing, Fallible
  <2>5. run' \in Runs /\ root' \in [has : Holding, keys : Keys] /\ root'.has = root.has
    BY <2>1, <1>i DEF TypeOK
  <2> QED BY <1>0, <1>d, <1>e, <2>1, <2>2, <2>3, <2>4, <2>5, QuietKeeps
<1>2. CASE Failed /\ UNCHANGED <<root, folders>>
  BY <1>0, <1>2, <1>d, FailedKeeps
<1>3. CASE run.items # {} /\ ~(Failed /\ UNCHANGED <<root, folders>>)
  <2>i. i \in run.items /\ i \in ItemSet BY <1>3, <1>q, FirstIs
  <2>0. /\ OneMoved
        /\ root' = [root EXCEPT !.has[i] = folders[n].has[i]]
        /\ folders' = [folders EXCEPT ![n].has[i] = None]
    BY <1>3 DEF MoveIn, Unmoved, disk
  <2>x. pc' = "in" /\ run' = [run EXCEPT !.items = is] BY <1>0, <2>0 DEF OneMoved
  <2>p. pc' = "in" BY <2>x
  <2>6. run' \in Runs BY <2>x, <1>q, <1>i DEF TypeOK, Runs
  <2>7. /\ run'.op = run.op /\ run'.who = run.who /\ run'.session = run.session /\ run'.half = run.half
        /\ run'.on = run.on /\ run'.stopped = run.stopped /\ run'.name = run.name
        /\ run'.row = run.row /\ run'.to = run.to /\ run'.items \subseteq run.items
    BY <2>x, <1>i DEF TypeOK, Runs
  <2>8. Committing' BY <2>p DEF Committing
  <2>9. pc' \in Mid BY <2>p DEF Mid, Doing, Fallible
  <2>g. PICK g, v : g = folders[n] /\ v = folders[n].has[i] OBVIOUS
  <2>f. PICK f : f = [g EXCEPT !.has[i] = None] OBVIOUS
  <2>k. g.keys # {} /\ g.has[Jar] \in {None, Moving.login} BY <1>i, <1>m, <2>g DEF MovePark
  <2>1. g \in Folders /\ g.made /\ v \in Sessions \cup Accounts \cup {NoSession, Fresh, None}
        /\ g.has \in Holding
    <3>1. g \in Folders BY <1>t, <1>i, <2>g DEF TypeOK
    <3>2. g.made BY <1>t, <1>i, <2>g, <2>k, IsMade
    <3> QED BY <2>i, <2>g, <3>1, <3>2 DEF Folders, Holding
  <2>2. /\ f \in Folders /\ f.made /\ f.manifest = g.manifest /\ f.keys = g.keys
        /\ f.has = [g.has EXCEPT ![i] = None]
    BY <2>1, <2>f, <2>i DEF Folders, Holding
  <2>3. folders' = [folders EXCEPT ![n] = f] BY <2>0, <2>f, <2>g
  <2>4. /\ folders' \in [Names -> Folders] /\ folders'[n] = f
        /\ \A o \in Names : o # n => folders'[o] = folders[o]
        /\ \A o \in Names : folders'[o].made \/ folders'[o] = NoFolder
    BY <1>t, <1>i, <2>2, <2>3, FolderTyped
  <2>5. /\ root' \in [has : Holding, keys : Keys] /\ root'.has = [root.has EXCEPT ![i] = v]
    BY <2>0, <2>1, <2>g, <2>i, <1>q DEF Holding
  <2>h. root.has \in Holding BY <1>q
  <2>y. root'.has[Jar] = IF i = Jar THEN g.has[Jar] ELSE root.has[Jar]
    BY <2>5, <2>g, <2>h, Constant DEF Holding
  <2>z. f.has[Jar] \in {None, Moving.login} BY <2>1, <2>2, <2>k, Constant DEF Holding
  <2>10. TypeOK' BY <1>0, <1>i, <2>p, <2>6, <2>4, <2>5 DEF TypeOK, Steps, Fallible
  <2>11. MovePark'
    <3>1. folders'[Moving.park] = f /\ folders[Moving.park] = g BY <2>4, <2>g
    <3> QED BY <1>0, <1>i, <1>m, <2>2, <2>k, <2>z, <3>1 DEF MovePark, NamedBy
  <2>12. Data'
    <3>1. root.has[Jar] \in Jars /\ g.has[Jar] \in Jars /\ Moving.login \in Jars
      BY <1>i, <1>t, <2>g DEF Data, JarsTyped, Jars
    <3>2. root'.has[Jar] \in Jars /\ folders'[n].has[Jar] \in Jars
      BY <2>4, <2>y, <2>z, <3>1 DEF Jars
    <3>3. MoveHolds(saved, n) BY <1>m DEF MoveHolds, Moving
    <3> QED BY <1>0, <1>i, <1>t, <2>4, <2>11, <3>2, <3>3, FolderData
  <2>13. RowInv'
    <3>1. OfArrive' BY <1>0, <1>m, <1>w, <2>p, <2>7 DEF OfArrive, Built
    <3> QED BY <1>5, <1>r, <2>p, <2>7, <3>1 DEF RowInv, Rows
  <2>14. Building' BY <2>p DEF Building
  <2> QED BY <1>0, <1>d, <1>m, <2>7, <2>8, <2>9, <2>10, <2>12, <2>13, <2>14, WorkKeeps
<1> QED BY <1>0, <1>1, <1>2, <1>3 DEF MoveIn, Unmoved, disk

\* A folder as it was but for what its manifest says was left behind.
Alike(n) ==
  LET f == folders[n]
      g == folders'[n]
  IN /\ g.made = f.made /\ g.keys = f.keys /\ g.has = f.has
     /\ g.manifest = None <=> f.manifest = None
     /\ f.manifest # None => /\ g.manifest.account = f.manifest.account
                             /\ g.manifest.login = f.manifest.login
                             /\ g.manifest.items = f.manifest.items
                             /\ g.manifest.keys = f.manifest.keys

\* Those a give-up listed something for lose the list, and nothing else.
LEMMA ForgetsOf ==
  ASSUME TypeOK, ForgetsLeft \/ UNCHANGED folders
  PROVE  /\ folders' \in [Names -> Folders]
         /\ \A n \in Names : folders'[n].made \/ folders'[n] = NoFolder
         /\ \A n \in Names : Alike(n)
<1>i. folders \in [Names -> Folders] /\ \A n \in Names : folders[n].made \/ folders[n] = NoFolder
  BY DEF TypeOK
<1>1. CASE UNCHANGED folders BY <1>1, <1>i DEF Alike
<1>2. CASE ForgetsLeft
  <2>1. ASSUME NEW n \in Names
        PROVE  /\ folders'[n] \in Folders /\ Alike(n)
               /\ folders'[n].made \/ folders'[n] = NoFolder
    <3>g. PICK g : g = folders[n] OBVIOUS
    <3>1. g \in Folders /\ (g.made \/ g = NoFolder) BY <1>i, <3>g
    <3>2. CASE n \notin ListingLeft
      <4>1. folders'[n] = folders[n] BY <1>2, <3>2 DEF ForgetsLeft
      <4> QED BY <1>i, <4>1 DEF Alike
    <3>3. CASE n \in ListingLeft
      <4>1. g.manifest # None BY <3>3, <3>g DEF ListingLeft
      <4>2. g.manifest \in Manifests BY <3>1, <4>1 DEF Folders
      <4>m. PICK m : m = [g.manifest EXCEPT !.left = {}] OBVIOUS
      <4>3. /\ m \in Manifests /\ m.account = g.manifest.account /\ m.login = g.manifest.login
            /\ m.items = g.manifest.items /\ m.keys = g.manifest.keys
        BY <4>2, <4>m DEF Manifests
      <4>4. m # None BY <4>3, NoneApart
      <4>5. folders'[n] = [folders[n] EXCEPT !.manifest.left = {}] BY <1>2, <3>3 DEF ForgetsLeft
      <4>6. folders'[n] = [g EXCEPT !.manifest = m] BY <4>5, <4>m, <3>g
      <4>7. /\ folders'[n] \in Folders /\ folders'[n].made = g.made /\ folders'[n].manifest = m
            /\ folders'[n].keys = g.keys /\ folders'[n].has = g.has
        BY <3>1, <4>3, <4>6 DEF Folders
      <4>8. g.made BY <3>1, <4>1 DEF NoFolder
      <4> QED BY <3>g, <4>1, <4>3, <4>4, <4>7, <4>8 DEF Alike
    <3> QED BY <3>2, <3>3
  <2>2. folders' = [n \in Names |-> folders'[n]] BY <1>2 DEF ForgetsLeft
  <2> QED BY <2>1, <2>2
<1> QED BY <1>1, <1>2

\* Nothing reads what was left but who puts it back.
LEMMA AlikeIs ==
  ASSUME NEW n, Alike(n)
  PROVE  /\ \A a, l : Whole(n, a, l)' <=> Whole(n, a, l)
         /\ HoldsAnything(n)' <=> HoldsAnything(n)
<1>1. HoldsAnything(n)' <=> HoldsAnything(n) BY DEF Alike, HoldsAnything, InFolder
<1>2. \A a, l : Whole(n, a, l)' <=> Whole(n, a, l)
  <2>1. \A s : HeldItems(n, s)' = HeldItems(n, s) BY DEF Alike, HeldItems, InFolder
  <2>2. \A k : NamedBy(k)' = NamedBy(k) BY DEF NamedBy
  <2>m. PICK f, g : f = folders[n] /\ g = folders'[n] OBVIOUS
  <2>3. ASSUME NEW a, NEW l PROVE Whole(n, a, l)' <=> Whole(n, a, l)
    <3>1. CASE f.manifest = None BY <2>m, <3>1 DEF Alike, Whole
    <3>2. CASE f.manifest # None BY <2>m, <2>1, <3>2 DEF Alike, Whole, NamedBy, HeldItems, InFolder
    <3> QED BY <3>1, <3>2
  <2> QED BY <2>3
<1> QED BY <1>1, <1>2

\* So the disk stays what it was.
LEMMA AlikeData ==
  ASSUME TypeOK, Data, UNCHANGED <<saved, pending>>, root'.has[Jar] \in Jars, \A n \in Names : Alike(n)
  PROVE  Data' /\ \A a \in Accounts : CanArrive(a) => CanArrive(a)'
<1>1. JarsTyped' BY DEF Data, JarsTyped, Alike
<1>2. EveryFolderNamed'
  <2>1. \A o \in Names : Named(saved, o)' <=> Named(saved, o) BY DEF Named, MoveHolds
  <2> QED BY <2>1, AlikeIs DEF Data, EveryFolderNamed
<1>3. Once(saved)' /\ Apart(saved)'
  BY DEF Data, Once, Apart, IsPark, IsParked, Aside, Listed, MoveHolds
<1>4. MovePark'
  <2>1. Moving # NoMove => Moving.park \in Names BY MoveTyped
  <2>2. Moving' = Moving BY DEF Moving
  <2> QED BY <2>1, <2>2 DEF Data, MovePark, Alike, NamedBy
<1>5. \A a \in Accounts : CanArrive(a) => CanArrive(a)'
  <2>1. ASSUME NEW a \in Accounts, CanArrive(a) PROVE CanArrive(a)'
    <3> PICK n, l : n = saved.parked[a].name /\ l = saved.parked[a].login OBVIOUS
    <3>1. saved.parked[a] # None /\ Whole(n, a, l) BY <2>1, CanArriveIs
    <3>2. n \in Names BY <3>1 DEF TypeOK, Records
    <3>3. Whole(n, a, l)' BY <3>1, <3>2, AlikeIs
    <3>4. CanArrive(a)' <=> saved'.parked[a] # None /\ Whole(n, a, l)' BY DEF CanArrive, Whole
    <3> QED BY <3>1, <3>3, <3>4
  <2> QED BY <2>1
<1>6. ParksWhole' BY <1>5 DEF Data, ParksWhole, MoveHolds
<1> QED BY <1>1, <1>2, <1>3, <1>4, <1>5, <1>6 DEF Data

-----------------------------------------------------------------------------
(* The last steps of a move, before its save. *)

\* What a give-up left behind is forgotten, once it is set aside.
LEMMA ForgetLeftInv ==
  ASSUME Inv, ForgetLeft, UNCHANGED <<appOpen, issued, ended, ran>>
  PROVE  Inv'
<1>i. TypeOK /\ Data BY DEF Inv
<1>5. None \notin Commands \cup Rows \cup Stages BY NoneApart
<1>0. pc = "forgetLeft" /\ ForgetsLeft /\ UNCHANGED <<root, saved, pending>> /\ pc' = After
  BY DEF ForgetLeft
<1>d. pc \in Doing BY <1>0 DEF Doing, Fallible
<1>r. run.row \in {"arrive", "settingAside"}
  BY <1>0, <1>d, RowAt DEF Rows, OfLeave, OfKeysBack, OfLeaveOn, OfBack, OfGiveUp, OfKeysAside, OfStart
<1>w. /\ run.row = "arrive" => OfArrive
      /\ run.row = "settingAside" => OfBack
  BY <1>r, <1>d, RowAt
<1>m. Moving' = Moving /\ Moving # NoMove BY <1>0, <1>r, <1>w DEF Moving, OfArrive, OfBack
<1>t. Moving.park \in Names /\ Moving.items \in SUBSET ItemSet BY <1>i, <1>m, MoveTyped
<1>p. pc' = IF run.row = "arrive" THEN "in" ELSE "midway" BY <1>0, AfterIs
<1> PICK is : is = IF run.row = "arrive" THEN Moving.items ELSE {} OBVIOUS
<1>x. run' = [run EXCEPT !.items = is] BY DEF ForgetLeft
<1>6. run' \in Runs
  <2>1. is \in SUBSET ItemSet BY <1>t
  <2> QED BY <1>x, <2>1, <1>i DEF TypeOK, Runs
<1>7. /\ run'.op = run.op /\ run'.who = run.who /\ run'.session = run.session /\ run'.half = run.half
      /\ run'.on = run.on /\ run'.stopped = run.stopped /\ run'.name = run.name
      /\ run'.row = run.row /\ run'.to = run.to
  BY <1>x, <1>i DEF TypeOK, Runs
<1>f. /\ folders' \in [Names -> Folders]
      /\ \A n \in Names : folders'[n].made \/ folders'[n] = NoFolder
      /\ \A n \in Names : Alike(n)
  BY <1>0, <1>i, ForgetsOf
<1>2. TypeOK' BY <1>0, <1>6, <1>f, <1>i, <1>p DEF TypeOK, Steps, Fallible
<1>3. Data' /\ \A a \in Accounts : CanArrive(a) => CanArrive(a)'
  <2>1. root'.has[Jar] \in Jars BY <1>0, <1>i DEF Data, JarsTyped
  <2> QED BY <1>0, <1>f, <1>i, <2>1, AlikeData
<1>8. RowInv'
  <2>1. run.row = "arrive" => OfArrive' BY <1>0, <1>7, <1>m, <1>p, <1>w DEF OfArrive, Built
  <2>2. run.row = "settingAside" => OfBack'
    <3>1. \A a, l : Whole(Moving.park, a, l) => Whole(Moving.park, a, l)'
      BY <1>f, <1>m, <1>t, AlikeIs
    <3>2. Moving.asides \in SUBSET Names BY <1>i, <1>m, MoveTyped
    <3> QED BY <1>0, <1>7, <1>f, <1>m, <1>p, <1>w, <3>1, <3>2 DEF OfBack, Alike
  <2> QED BY <1>0, <1>5, <1>7, <1>p, <1>r, <2>1, <2>2 DEF RowInv, Rows
<1>9. Committing' BY <1>p DEF Committing
<1>10. Building' BY <1>p DEF Building
<1>11. pc' \in Mid BY <1>p DEF Mid, Doing, Fallible
<1> QED BY <1>0, <1>d, <1>2, <1>3, <1>7, <1>8, <1>9, <1>10, <1>11, WorkKeeps

\* The park's manifest comes to list what the park holds: then it can be put back.
LEMMA HoldsOf ==
  ASSUME TypeOK, Data, Moving # NoMove, folders[Moving.park].has[Jar] = Moving.login,
         folders[Moving.park].manifest # None, HoldsWhatIsThere(Moving.park, Moving.items),
         UNCHANGED <<root, saved, pending>>
  PROVE  /\ folders' \in [Names -> Folders]
         /\ \A n \in Names : folders'[n].made \/ folders'[n] = NoFolder
         /\ \A n \in Names : n # Moving.park => folders'[n] = folders[n]
         /\ folders'[Moving.park].has = folders[Moving.park].has
         /\ folders'[Moving.park].keys = {Moving.keys}
         /\ Whole(Moving.park, Moving.who, Moving.login)'
         /\ Data'
<1>i. MovePark BY DEF Data
<1>t. /\ Moving.park \in Names /\ Moving.login \in Sessions /\ Moving.items \in SUBSET ItemSet
      /\ Moving.who \in Accounts
  BY MoveTyped
<1>m. Moving' = Moving BY DEF Moving
<1>v. PICK n, is : n = Moving.park /\ is = HeldItems(Moving.park, Moving.items) OBVIOUS
<1>g. PICK g : g = folders[Moving.park] OBVIOUS
<1>l. Moving.login # None BY <1>t, SessionsApart
<1>1. /\ g \in Folders /\ g.made /\ g.manifest \in Manifests
  <2>1. g \in Folders BY <1>t, <1>g DEF TypeOK
  <2>2. g.made BY <1>t, <1>g, IsMade
  <2> QED BY <1>g, <2>1, <2>2 DEF Folders
<1>2. /\ g.keys = {Moving.keys} /\ NamedBy(Moving.keys) = Moving.who /\ g.has[Jar] = Moving.login
      /\ g.manifest.account = Moving.who /\ g.manifest.login = Moving.login
      /\ g.manifest.keys = Moving.keys
  <2>1. g.has[Jar] # None BY <1>g, <1>l
  <2>2. g.keys # {} BY <1>g, <1>i, <2>1, Constant DEF MovePark
  <2> QED BY <1>g, <1>i, <2>2 DEF MovePark
<1>k. PICK k : k = [g.manifest EXCEPT !.items = is] OBVIOUS
<1>3. /\ k \in Manifests /\ k.account = Moving.who /\ k.login = Moving.login /\ k.keys = Moving.keys
      /\ k.items = is
  <2>1. is \in SUBSET ItemSet BY <1>t, <1>v DEF HeldItems
  <2> QED BY <1>1, <1>2, <1>k, <2>1 DEF Manifests
<1>4. k # None BY <1>3, NoneApart
<1>f. PICK f : f = [g EXCEPT !.manifest = k] OBVIOUS
<1>5. f \in Folders /\ f.made /\ f.manifest = k /\ f.keys = g.keys /\ f.has = g.has
  BY <1>1, <1>3, <1>f DEF Folders
<1>6. folders' = [folders EXCEPT ![n] = f]
  <2>1. folders' = [folders EXCEPT ![n].manifest.items = is] BY <1>v DEF HoldsWhatIsThere
  <2> QED BY <2>1, <1>f, <1>k, <1>g, <1>v
<1>7. /\ folders' \in [Names -> Folders] /\ folders'[n] = f
      /\ \A o \in Names : o # n => folders'[o] = folders[o]
      /\ \A o \in Names : folders'[o].made \/ folders'[o] = NoFolder
  BY <1>5, <1>6, <1>t, <1>v, FolderTyped
<1>8. folders'[Moving.park] = f BY <1>7, <1>v
<1>9. Whole(Moving.park, Moving.who, Moving.login)'
  <2>1. HeldItems(Moving.park, is)' = is
    <3>1. \A i : InFolder(Moving.park, i)' <=> InFolder(Moving.park, i)
      BY <1>5, <1>8, <1>g, <1>m DEF InFolder
    <3> QED BY <1>m, <1>v, <3>1 DEF HeldItems
  <2>2. NamedBy(Moving.keys)' = NamedBy(Moving.keys) BY <1>m DEF NamedBy
  <2> QED BY <1>2, <1>3, <1>4, <1>5, <1>8, <1>m, <2>1, <2>2 DEF Whole, NamedBy, HeldItems, InFolder
<1>10. MovePark' BY <1>2, <1>3, <1>4, <1>5, <1>8, <1>g, <1>i, <1>m DEF MovePark, NamedBy
<1>11. Data'
  <2>1. folders'[n].has[Jar] \in Jars /\ root'.has[Jar] \in Jars
    BY <1>2, <1>5, <1>7, <1>t DEF Data, JarsTyped, Jars
  <2>2. MoveHolds(saved, n) BY <1>v DEF MoveHolds, Moving
  <2> QED BY <1>7, <1>10, <1>t, <1>v, <2>1, <2>2, FolderData
<1> QED BY <1>2, <1>5, <1>7, <1>8, <1>9, <1>11, <1>g, <1>v

\* A park of nobody's is no park that can be put back, whatever becomes of it.
LEMMA OthersArrive ==
  ASSUME TypeOK, Apart(saved), UNCHANGED saved, Moving # NoMove, Moving.half = "leave",
         \A n \in Names : n # Moving.park => folders'[n] = folders[n]
  PROVE  \A a \in Accounts : CanArrive(a) => CanArrive(a)'
<1>1. ASSUME NEW a \in Accounts PROVE saved.parked[a] # None => saved.parked[a].name \in Names
                                                          /\ saved.parked[a].name # Moving.park
  <2>1. MoveHolds(saved, Moving.park) /\ Moving.park \in Names BY MoveTyped DEF MoveHolds, Moving
  <2>2. ~IsPark(saved, a, Moving.park) BY <2>1 DEF Apart, Moving
  <2> QED BY <2>2 DEF IsPark, TypeOK, Records
<1> QED BY <1>1, ArrivesStill

\* The park verified: what it holds is what its manifest lists.
LEMMA VerifyInv ==
  ASSUME Inv, Verify, UNCHANGED <<appOpen, issued, ended, ran>>
  PROVE  Inv'
<1>i. TypeOK /\ Data /\ Apart(saved) /\ Halves BY DEF Inv, Data, RunInv
<1>5. None \notin Commands \cup Rows \cup Stages BY NoneApart
<1>0. pc = "verify" BY DEF Verify
<1>d. pc \in Doing /\ pc \in Fallible BY <1>0 DEF Doing, Fallible
<1>1. CASE Failed /\ UNCHANGED <<root, folders, saved, pending>>
  BY <1>1, <1>d, FailedKeeps
<1>2. CASE ~(Failed /\ UNCHANGED <<root, folders, saved, pending>>)
  <2>0. /\ Advance /\ HoldsWhatIsThere(Moving.park, Moving.items) /\ UNCHANGED <<root, saved, pending>>
        /\ folders[Moving.park].has[Jar] = Moving.login /\ folders[Moving.park].manifest # None
    BY <1>2 DEF Verify, Unmoved, disk
  <2>r. run.row \in {"leave", "leaveOn", "back", "backAside", "keysAside"}
    BY <1>0, <1>d, RowAt DEF Rows, OfArrive, Built, OfKeysBack, OfBack, OfGiveUp, OfStart
  <2>w. /\ run.row = "leave" => OfLeave
        /\ run.row = "leaveOn" => OfLeaveOn
        /\ run.row \in {"back", "backAside"} => OfBack
        /\ run.row = "keysAside" => OfKeysAside
    BY <1>d, RowAt
  <2>m. Moving' = Moving /\ Moving # NoMove
    BY <2>0, <2>r, <2>w DEF Moving, OfLeave, OfLeaveOn, OfBack, OfKeysAside
  <2>p. /\ pc' = IF run.row = "backAside" THEN "finishAside" ELSE "midway"
        /\ run' = run
    BY <1>0, <2>0, AfterIs DEF Advance, Goes
  <2>h. /\ folders' \in [Names -> Folders]
        /\ \A n \in Names : folders'[n].made \/ folders'[n] = NoFolder
        /\ \A n \in Names : n # Moving.park => folders'[n] = folders[n]
        /\ folders'[Moving.park].keys = {Moving.keys}
        /\ Whole(Moving.park, Moving.who, Moving.login)'
        /\ Data'
    BY <1>i, <2>0, <2>m, HoldsOf
  <2>1. TypeOK' BY <1>i, <2>0, <2>h, <2>p DEF TypeOK, Steps, Fallible
  <2>2. \A a \in Accounts : run.half = "leave" /\ CanArrive(a) => CanArrive(a)'
    <3>1. run.half = "leave" => Moving.half = "leave" BY <1>i, <2>m DEF Halves
    <3> QED BY <1>i, <2>0, <2>h, <2>m, <3>1, OthersArrive
  <2>8. RowInv'
    <3>1. run.row = "leave" => OfLeave' BY <1>0, <2>h, <2>m, <2>p, <2>w DEF OfLeave
    <3>2. run.row = "leaveOn" => OfLeaveOn' BY <1>0, <2>h, <2>m, <2>p, <2>w DEF OfLeaveOn
    <3>3. run.row \in {"back", "backAside"} => OfBack' BY <1>0, <2>h, <2>m, <2>p, <2>w DEF OfBack
    <3>4. run.row = "keysAside" => OfKeysAside' BY <1>0, <2>h, <2>m, <2>p, <2>w DEF OfKeysAside
    <3> QED BY <1>5, <2>p, <2>r, <3>1, <3>2, <3>3, <3>4 DEF RowInv, Rows
  <2>9. Committing' BY <2>p DEF Committing
  <2>10. Building' BY <2>p DEF Building
  <2>11. pc' \in Mid BY <2>p DEF Mid, Doing, Fallible
  <2> QED BY <1>d, <2>0, <2>p, <2>h, <2>1, <2>2, <2>8, <2>9, <2>10, <2>11, WorkKeeps
<1> QED BY <1>1, <1>2

\* A move given up: the park is made one that can be put back, where its jar is the record's.
LEMMA HoldInv ==
  ASSUME Inv, Hold
  PROVE  Inv'
<1>i. TypeOK /\ Data /\ Halves BY DEF Inv, RunInv
<1>5. None \notin Commands \cup Rows \cup Stages BY NoneApart
<1>0. pc = "hold" /\ UNCHANGED <<root, saved, pending, appOpen, issued, ended, ran>>
  BY DEF Hold, app
<1>d. pc \in Doing /\ pc \in Fallible BY <1>0 DEF Doing, Fallible
<1>r. run.row = "giveUp"
  BY <1>0, <1>d, RowAt DEF Rows, OfLeave, OfArrive, Built, OfLeaveOn, OfKeysBack, OfBack, OfKeysAside, OfStart
<1>w. OfGiveUp BY <1>d, <1>r, RowAt
<1>m. Moving' = Moving /\ Moving # NoMove /\ run.on = "giveUp" BY <1>0, <1>w DEF Moving, OfGiveUp
<1>h. run.half # "leave" BY <1>i, <1>m DEF Halves
<1>1. CASE folders[Moving.park].has[Jar] # Moving.login
  <2>0. pc' = "midway" /\ run' = run /\ UNCHANGED folders
    BY <1>0, <1>1, AfterIs DEF Hold, Advance, Goes
  <2>8. RowInv'
    <3>1. OfGiveUp' BY <1>0, <1>1, <1>m, <2>0 DEF OfGiveUp
    <3> QED BY <1>5, <1>r, <2>0, <3>1 DEF RowInv, Rows
  <2>9. Committing' BY <2>0 DEF Committing
  <2>10. /\ pc' \in Mid /\ run' \in Runs /\ ended' \subseteq Sessions /\ ran' \in BOOLEAN
         /\ root' \in [has : Holding, keys : Keys] /\ root'.has = root.has
    BY <1>0, <2>0, <1>i DEF Mid, Doing, TypeOK
  <2> QED BY <1>0, <1>d, <2>0, <2>8, <2>9, <2>10, QuietKeeps
<1>2. CASE folders[Moving.park].has[Jar] = Moving.login /\ folders[Moving.park].manifest # None
  <2>0. Advance /\ HoldsWhatIsThere(Moving.park, Moving.items) BY <1>2 DEF Hold
  <2>p. pc' = "midway" /\ run' = run BY <1>0, <2>0, AfterIs DEF Advance, Goes
  <2>h. /\ folders' \in [Names -> Folders]
        /\ \A n \in Names : folders'[n].made \/ folders'[n] = NoFolder
        /\ Whole(Moving.park, Moving.who, Moving.login)'
        /\ Data'
    BY <1>0, <1>2, <1>i, <1>m, <2>0, HoldsOf
  <2>1. TypeOK' BY <1>0, <1>i, <2>h, <2>p DEF TypeOK, Steps
  <2>8. RowInv'
    <3>1. OfGiveUp' BY <1>0, <1>m, <2>h, <2>p DEF OfGiveUp
    <3> QED BY <1>5, <1>r, <2>p, <3>1 DEF RowInv, Rows
  <2>9. Committing' BY <2>p DEF Committing
  <2>10. Building' BY <2>p DEF Building
  <2>11. pc' \in Mid BY <2>p DEF Mid, Doing
  <2> QED BY <1>0, <1>d, <1>h, <2>p, <2>h, <2>1, <2>8, <2>9, <2>10, <2>11, WorkKeeps
<1>3. CASE folders[Moving.park].has[Jar] = Moving.login /\ folders[Moving.park].manifest = None
  <2>1. Failed /\ UNCHANGED folders BY <1>3 DEF Hold
  <2> QED BY <1>0, <1>d, <2>1, FailedKeeps
<1> QED BY <1>1, <1>2, <1>3

\* What a give-up leaves behind is listed in the park's manifest.
LEMMA ListLeftInv ==
  ASSUME Inv, ListLeft
  PROVE  Inv'
<1>i. TypeOK /\ Data /\ MovePark /\ Halves BY DEF Inv, Data, RunInv
<1>5. None \notin Commands \cup Rows \cup Stages BY NoneApart
<1>0. pc = "left" /\ UNCHANGED <<root, saved, pending, appOpen, issued, ended, ran>>
  BY DEF ListLeft, app, InFolders, Unmoved, disk
<1>d. pc \in Doing /\ pc \in Fallible BY <1>0 DEF Doing, Fallible
<1>r. run.row = "giveUp"
  BY <1>0, <1>d, RowAt DEF Rows, OfLeave, OfArrive, Built, OfLeaveOn, OfKeysBack, OfBack, OfKeysAside, OfStart
<1>w. OfGiveUp BY <1>d, <1>r, RowAt
<1>m. Moving' = Moving /\ Moving # NoMove /\ run.on = "giveUp" BY <1>0, <1>w DEF Moving, OfGiveUp
<1>t. Moving.park \in Names /\ run.list \in SUBSET Rest BY <1>i, <1>m, MoveTyped DEF TypeOK, Runs
<1>h. run.half # "leave" BY <1>i, <1>m DEF Halves
<1>v. PICK n, is : n = Moving.park /\ is = run.list OBVIOUS
<1>1. CASE folders[Moving.park].manifest = None
  <2>1. Failed /\ UNCHANGED folders BY <1>1 DEF ListLeft, Unmoved, disk
  <2> QED BY <1>0, <1>d, <2>1, FailedKeeps
<1>2. CASE folders[Moving.park].manifest # None
  <2>0. Advance /\ folders' = [folders EXCEPT ![n] = [folders[n] EXCEPT !.manifest.left = is]]
    BY <1>2, <1>v DEF ListLeft, InFolders
  <2>p. pc' = "hold" /\ run' = run BY <1>0, <2>0, AfterIs DEF Advance, Goes
  <2>g. PICK g : g = folders[n] OBVIOUS
  <2>1. g \in Folders /\ g.made /\ g.manifest \in Manifests
    <3>1. g \in Folders /\ g.manifest # None BY <1>2, <1>t, <1>v, <2>g, <1>i DEF TypeOK
    <3>2. g.made BY <1>t, <1>v, <1>i, <2>g, <3>1, IsMade
    <3> QED BY <3>1, <3>2 DEF Folders
  <2>k. PICK k : k = [g.manifest EXCEPT !.left = is] OBVIOUS
  <2>2. /\ k \in Manifests /\ k.account = g.manifest.account /\ k.login = g.manifest.login
        /\ k.items = g.manifest.items /\ k.keys = g.manifest.keys
    BY <2>1, <2>k, <1>t, <1>v DEF Manifests
  <2>3. k # None BY <2>2, NoneApart
  <2>f. PICK f : f = [g EXCEPT !.manifest = k] OBVIOUS
  <2>4. f \in Folders /\ f.made /\ f.manifest = k /\ f.keys = g.keys /\ f.has = g.has
    BY <2>1, <2>2, <2>f DEF Folders
  <2>5. folders' = [folders EXCEPT ![n] = f] BY <2>0, <2>f, <2>g, <2>k
  <2>6. /\ folders' \in [Names -> Folders] /\ folders'[n] = f
        /\ \A o \in Names : o # n => folders'[o] = folders[o]
        /\ \A o \in Names : folders'[o].made \/ folders'[o] = NoFolder
    BY <1>i, <1>t, <1>v, <2>4, <2>5, FolderTyped
  <2>7. \A o \in Names : Alike(o)
    <3>1. \A o \in Names : o # n => Alike(o) BY <2>6, Zenon DEF Alike
    <3>2. g.manifest # None BY <2>1, NoneApart
    <3>3. f.manifest = k /\ f.made = g.made /\ f.keys = g.keys /\ f.has = g.has BY <2>1, <2>4
    <3>4. folders'[n] = f /\ folders[n] = g BY <2>6, <2>g
    <3>5. Alike(n) BY <2>2, <2>3, <3>2, <3>3, <3>4, Zenon DEF Alike
    <3> QED BY <3>1, <3>5
  <2>8. root'.has[Jar] \in Jars BY <1>0, <1>i DEF Data, JarsTyped
  <2>9. Data' BY <1>0, <1>i, <2>7, <2>8, AlikeData
  <2>10. TypeOK' BY <1>0, <1>i, <2>6, <2>p DEF TypeOK, Steps, Fallible
  <2>11. RowInv'
    <3>1. OfGiveUp' BY <1>0, <1>m, <2>p DEF OfGiveUp
    <3> QED BY <1>5, <1>r, <2>p, <3>1 DEF RowInv, Rows
  <2>12. Committing' BY <2>p DEF Committing
  <2>13. Building' BY <2>p DEF Building
  <2>14. pc' \in Mid BY <2>p DEF Mid, Doing, Fallible
  <2> QED BY <1>0, <1>d, <1>h, <2>p, <2>9, <2>10, <2>11, <2>12, <2>13, <2>14, WorkKeeps
<1> QED BY <1>1, <1>2

\* Every step of a move.
LEMMA WorkStepInv ==
  ASSUME Inv, WorkStep
  PROVE  Inv'
<1>1. UNCHANGED <<appOpen, issued, ended, ran>> BY DEF WorkStep, app
<1> QED BY <1>1, BuildInv, KeysInv, MoveOutInv, MoveInInv, LooksInv, KeepInv, SetAsideInv, ForgetLeftInv,
           FinishAsideInv, VerifyInv DEF WorkStep

-----------------------------------------------------------------------------
(* A move committed. *)

\* A folder that a record files: an account's park, set aside, or listed to be deleted.
Files(s, n) == IsParked(s, n) \/ Aside(s, n) \/ Listed(s, n)

\* What is filed is said by three fields of the record.
LEMMA FilesIs ==
  ASSUME NEW s, NEW t, t.parked = s.parked, t.aside = s.aside, t.discarded = s.discarded
  PROVE  /\ \A n : /\ IsParked(t, n) <=> IsParked(s, n)
                   /\ Aside(t, n) <=> Aside(s, n)
                   /\ Listed(t, n) <=> Listed(s, n)
                   /\ Files(t, n) <=> Files(s, n)
                   /\ \A a : IsPark(t, a, n) <=> IsPark(s, a, n)
         /\ Once(s) => Once(t)
<1>1. \A n : /\ IsParked(t, n) <=> IsParked(s, n)
             /\ Aside(t, n) <=> Aside(s, n)
             /\ Listed(t, n) <=> Listed(s, n)
             /\ Files(t, n) <=> Files(s, n)
             /\ \A a : IsPark(t, a, n) <=> IsPark(s, a, n)
  BY DEF IsParked, IsPark, Aside, Listed, Files
<1>2. Once(s) => Once(t) BY <1>1 DEF Once
<1> QED BY <1>1, <1>2

\* Whose the login in use is changes nothing of what is filed.
LEMMA IdentifiedOf ==
  ASSUME NEW s \in Records, NEW a \in Accounts \cup {None}, NEW login \in Sessions \cup {None},
         NEW t, t = Identified(s, a, login)
  PROVE  /\ t \in Records /\ t.parked = s.parked /\ t.aside = s.aside /\ t.discarded = s.discarded
         /\ t.moving = s.moving /\ t.enrolled = s.enrolled
<1>1. t \in Records BY RecordsKept, NoneApart DEF Identified, Records
<1> QED BY <1>1 DEF Identified, Records

\* A record settled: its move gone, and what the move set aside indexed.
LEMMA SettledOf ==
  ASSUME TypeOK, NEW s \in Records, NEW m \in Moves, NEW x \in Accounts \cup {None},
         NEW t, t = Settled(s, m) \/ t = [Settled(s, m) EXCEPT !.awaiting = x]
  PROVE  /\ t \in Records /\ t.moving = NoMove
         /\ t.parked = s.parked /\ t.discarded = s.discarded
         /\ t.aside = IndexAsides(s, m).aside
<1> PICK q : q = IndexAsides(s, m) OBVIOUS
<1>1. q \in Records /\ q.parked = s.parked /\ q.discarded = s.discarded BY IndexAsidesOf
<1> PICK p : p = [q EXCEPT !.moving = NoMove] OBVIOUS
<1>2. /\ p \in Records /\ p.moving = NoMove /\ p.parked = q.parked /\ p.discarded = q.discarded
      /\ p.aside = q.aside
  BY <1>1 DEF Records
<1>3. Settled(s, m) = p BY DEF Settled
<1>4. [p EXCEPT !.awaiting = x] \in Records BY <1>2 DEF Records
<1>5. /\ [p EXCEPT !.awaiting = x].moving = NoMove /\ [p EXCEPT !.awaiting = x].parked = q.parked
      /\ [p EXCEPT !.awaiting = x].discarded = q.discarded /\ [p EXCEPT !.awaiting = x].aside = q.aside
  BY <1>2 DEF Records
<1> QED BY <1>1, <1>2, <1>3, <1>4, <1>5

\* A move's commit keeps what is said of the disk: all it held is filed, and a park it files is whole.
LEMMA CommitData ==
  ASSUME TypeOK, Data, Moving # NoMove,
         NEW s \in Records, Once(s), s.moving = Moving,
         \A n \in Moving.asides : ~Files(s, n),
         \A n \in Names : Files(saved, n) => Files(s, n),
         HoldsAnything(Moving.park) => Files(s, Moving.park),
         \A a \in Accounts, n \in Names : IsPark(s, a, n) =>
           \/ IsPark(saved, a, n) /\ n # Moving.park /\ s.parked[a] = saved.parked[a]
           \/ Whole(n, a, s.parked[a].login),
         saved' \in Records, saved'.moving = NoMove,
         saved'.parked = s.parked, saved'.discarded = s.discarded,
         saved'.aside = IndexAsides(s, Moving).aside,
         UNCHANGED <<root, pending>>,
         \A n \in Names : Alike(n)
  PROVE  Data'
<1>m. /\ Moving \in Moves /\ Moving.park \in Names /\ Moving.asides \in SUBSET Names
      /\ s.moving # NoMove
  BY MoveTyped
<1> PICK q : q = IndexAsides(s, Moving) OBVIOUS
<1>q. /\ q \in Records /\ q.parked = s.parked /\ q.discarded = s.discarded /\ q.moving = s.moving
      /\ \A o \in Names : Aside(q, o) <=> Aside(s, o) \/ (o \in Moving.asides /\ folders[o].made)
      /\ (\A x, r \in s.aside : x.name = r.name => x = r)
           => \A x, r \in q.aside : x.name = r.name => x = r
  BY <1>m, IndexAsidesOf
<1>v. \A n \in Names : /\ IsParked(saved', n) <=> IsParked(s, n)
                       /\ Aside(saved', n) <=> Aside(s, n) \/ (n \in Moving.asides /\ folders[n].made)
                       /\ Listed(saved', n) <=> Listed(s, n)
                       /\ \A a : IsPark(saved', a, n) <=> IsPark(s, a, n)
  <2>1. \A n \in Names : /\ IsParked(saved', n) <=> IsParked(q, n)
                         /\ Aside(saved', n) <=> Aside(q, n)
                         /\ Listed(saved', n) <=> Listed(q, n)
                         /\ \A a : IsPark(saved', a, n) <=> IsPark(q, a, n)
    BY <1>q, FilesIs
  <2>2. \A n \in Names : /\ IsParked(q, n) <=> IsParked(s, n)
                         /\ Listed(q, n) <=> Listed(s, n)
                         /\ \A a : IsPark(q, a, n) <=> IsPark(s, a, n)
    BY <1>q DEF IsParked, IsPark, Listed
  <2> QED BY <1>q, <2>1, <2>2
<1>1. JarsTyped' BY DEF Data, JarsTyped, Alike
<1>2. Once(saved')
  <2>1. \A x, r \in saved'.aside : x.name = r.name => x = r BY <1>q DEF Once
  <2>2. \A a, b \in Accounts, n \in Names : IsPark(saved', a, n) /\ IsPark(saved', b, n) => a = b
    BY <1>v DEF Once
  <2> QED BY <2>1, <2>2, <1>v DEF Once, Files
<1>3. Apart(saved') BY DEF Apart
<1>4. EveryFolderNamed'
  <2>1. ASSUME NEW n \in Names, HoldsAnything(n)' PROVE Named(saved', n) \/ n \in pending'
    <3>1. HoldsAnything(n) BY <2>1, AlikeIs
    <3>2. folders[n].made BY <3>1, IsMade DEF HoldsAnything, InFolder
    <3>3. Named(saved, n) \/ n \in pending BY <3>1 DEF Data, EveryFolderNamed
    <3>4. CASE Files(saved, n) BY <3>4, <1>v, NamedIs DEF Files
    <3>5. CASE MoveHolds(saved, n)
      <4>1. n = Moving.park \/ n \in Moving.asides BY <3>5 DEF MoveHolds, Moving
      <4> QED BY <4>1, <3>1, <3>2, <1>v, NamedIs DEF Files
    <3> QED BY <3>3, <3>4, <3>5, NamedIs DEF Files
  <2>2. \A n : Named(saved', n) <=> Named(saved, n)' BY DEF Named, MoveHolds
  <2> QED BY <2>1, <2>2 DEF EveryFolderNamed
<1>5. MovePark' BY DEF MovePark, Moving
<1>6. ParksWhole'
  <2>1. ASSUME NEW a \in Accounts, saved'.parked[a] # None PROVE CanArrive(a)'
    <3> PICK n, l : n = saved'.parked[a].name /\ l = saved'.parked[a].login OBVIOUS
    <3>1. n \in Names BY <2>1 DEF Records
    <3>2. IsPark(s, a, n) /\ l = s.parked[a].login BY <2>1 DEF IsPark
    <3>3. Whole(n, a, l)
      <4>1. CASE IsPark(saved, a, n) /\ n # Moving.park /\ s.parked[a] = saved.parked[a]
        <5>1. ~MoveHolds(saved, n)
          BY <3>1, <4>1 DEF Data, Apart, Moving
        <5>2. saved.parked[a] # None /\ saved.parked[a].name = n /\ saved.parked[a].login = l
          BY <3>2, <4>1 DEF IsPark
        <5>3. CanArrive(a) BY <5>1, <5>2 DEF Data, ParksWhole
        <5> QED BY <5>2, <5>3, CanArriveIs
      <4> QED BY <3>1, <3>2, <4>1
    <3>4. Whole(n, a, l)' BY <3>1, <3>3, AlikeIs
    <3>5. CanArrive(a)' <=> saved'.parked[a] # None /\ Whole(n, a, l)' BY DEF CanArrive, Whole
    <3> QED BY <2>1, <3>4, <3>5
  <2> QED BY <2>1 DEF ParksWhole
<1>7. Once(saved)' /\ Apart(saved)' BY <1>2, <1>3 DEF Once, Apart, IsPark, IsParked, Aside, Listed, MoveHolds
<1> QED BY <1>1, <1>4, <1>5, <1>6, <1>7 DEF Data

\* One folder filed, in place of what it was; all else is filed as before.
Filing(s, n, t) ==
  /\ t \in Records /\ Once(t) /\ t.moving = s.moving
  /\ \A o \in Names : Files(t, o) <=> Files(s, o) \/ o = n
  /\ \A a \in Accounts, o \in Names : IsPark(t, a, o) /\ o # n => t.parked[a] = s.parked[a]

\* A park recorded files the folder, and the one it replaces stays filed.
LEMMA ParkFiles ==
  ASSUME NEW s \in Records, Once(s), NEW n \in Names, ~Files(s, n), NEW a \in Accounts,
         NEW login \in Sessions, NEW t, t = Park(s, a, n, login)
  PROVE  /\ Filing(s, n, t)
         /\ \A b \in Accounts : IsPark(t, b, n) => b = a /\ t.parked[b].login = login
         /\ \A b \in Accounts : b # a => t.parked[b] = s.parked[b]
<1>1. /\ t \in Records
      /\ \A b \in Accounts : b # a => t.parked[b] = s.parked[b]
      /\ t.parked[a] = [name |-> n, login |-> login]
      /\ t.discarded = s.discarded /\ t.moving = s.moving
      /\ \A o \in Names : Aside(t, o) <=> Aside(s, o) \/ (IsPark(s, a, o) /\ o # n)
      /\ (\A q, r \in s.aside : q.name = r.name => q = r)
           => \A q, r \in t.aside : q.name = r.name => q = r
  BY ParkOf
<1>p. PICK p : p = [name |-> n, login |-> login] OBVIOUS
<1>2. p # None /\ p.name = n /\ p.login = login /\ t.parked[a] = p
  BY <1>1, <1>p, NoneApart
<1>3. \A b \in Accounts, o \in Names : IsPark(t, b, o) <=> (b # a /\ IsPark(s, b, o)) \/ (b = a /\ o = n)
  BY <1>1, <1>2 DEF IsPark
<1>4. \A o \in Names : Listed(t, o) <=> Listed(s, o) BY <1>1 DEF Listed
<1>5. \A b \in Accounts : ~IsPark(s, b, n) BY DEF Files, IsParked
<1>6. \A o \in Names : IsParked(t, o) <=> (\E b \in Accounts : b # a /\ IsPark(s, b, o)) \/ o = n
  BY <1>3 DEF IsParked
<1>7. Once(t)
  <2>1. \A x, r \in t.aside : x.name = r.name => x = r BY <1>1 DEF Once
  <2>2. \A b, c \in Accounts, o \in Names : IsPark(t, b, o) /\ IsPark(t, c, o) => b = c
    BY <1>3, <1>5 DEF Once
  <2>3. \A o \in Names : ~(IsParked(t, o) /\ Aside(t, o))
    BY <1>1, <1>6 DEF Once, IsParked, Files
  <2>4. \A o \in Names : ~(IsParked(t, o) /\ Listed(t, o))
    BY <1>4, <1>6 DEF Once, IsParked, Files
  <2>5. \A o \in Names : ~(Aside(t, o) /\ Listed(t, o))
    BY <1>1, <1>4 DEF Once, IsParked
  <2> QED BY <2>1, <2>2, <2>3, <2>4, <2>5 DEF Once
<1>8. \A o \in Names : Files(t, o) <=> Files(s, o) \/ o = n
  BY <1>1, <1>4, <1>6, <1>5 DEF Files, IsParked
<1>9. \A b \in Accounts, o \in Names : IsPark(t, b, o) /\ o # n => t.parked[b] = s.parked[b]
  BY <1>1, <1>3
<1>10. \A b \in Accounts : IsPark(t, b, n) => b = a /\ t.parked[b].login = login
  BY <1>2, <1>3, <1>5
<1>11. Filing(s, n, t) BY <1>1, <1>7, <1>8, <1>9 DEF Filing
<1> QED BY <1>1, <1>10, <1>11

\* An aside added files the folder.
LEMMA AddAsideFiles ==
  ASSUME NEW s \in Records, Once(s), NEW n \in Names, ~Files(s, n), NEW a \in Accounts \cup {None},
         NEW login \in Sessions \cup {None}, NEW t, t = AddAside(s, n, a, login)
  PROVE  Filing(s, n, t) /\ ~IsParked(t, n)
<1>1. /\ t.parked = s.parked /\ t.discarded = s.discarded /\ t.moving = s.moving
      /\ \A o \in Names : Aside(t, o) <=> Aside(s, o) \/ o = n
      /\ (\A q, r \in s.aside : q.name = r.name => q = r)
           => \A q, r \in t.aside : q.name = r.name => q = r
  BY AddAsideOf
<1>2. t \in Records BY RecordsKept
<1>3. \A o \in Names : /\ IsParked(t, o) <=> IsParked(s, o)
                       /\ Listed(t, o) <=> Listed(s, o)
                       /\ \A b \in Accounts : IsPark(t, b, o) <=> IsPark(s, b, o)
  BY <1>1 DEF IsParked, IsPark, Listed
<1>4. Once(t) BY <1>1, <1>3 DEF Once, Files
<1>5. \A o \in Names : Files(t, o) <=> Files(s, o) \/ o = n BY <1>1, <1>3 DEF Files
<1> QED BY <1>1, <1>2, <1>3, <1>4, <1>5 DEF Filing, Files

\* A folder kept aside is filed, and is no account's park.
LEMMA KeepAsideFiles ==
  ASSUME NEW s \in Records, Once(s), NEW n \in Names, ~Listed(s, n), NEW a \in Accounts \cup {None},
         NEW login \in Sessions \cup {None}, NEW t, t = KeepAside(s, n, a, login)
  PROVE  Filing(s, n, t) /\ ~IsParked(t, n)
<1>1. /\ \A b \in Accounts, o \in Names : IsPark(t, b, o) <=> IsPark(s, b, o) /\ o # n
      /\ \A b \in Accounts : t.parked[b] = IF IsPark(s, b, n) THEN None ELSE s.parked[b]
      /\ t.discarded = s.discarded /\ t.moving = s.moving
      /\ \A o \in Names : Aside(t, o) <=> Aside(s, o) \/ o = n
      /\ (\A q, r \in s.aside : q.name = r.name => q = r)
           => \A q, r \in t.aside : q.name = r.name => q = r
  BY KeepAsideOf
<1>2. t \in Records BY RecordsKept
<1>3. \A o \in Names : /\ IsParked(t, o) <=> IsParked(s, o) /\ o # n
                       /\ Listed(t, o) <=> Listed(s, o)
  BY <1>1 DEF IsParked, Listed
<1>4. Once(t) BY <1>1, <1>3 DEF Once
<1>5. \A o \in Names : Files(t, o) <=> Files(s, o) \/ o = n BY <1>1, <1>3 DEF Files
<1>6. \A b \in Accounts, o \in Names : IsPark(t, b, o) /\ o # n => t.parked[b] = s.parked[b]
  <2> TAKE b \in Accounts, o \in Names
  <2> HAVE IsPark(t, b, o) /\ o # n
  <2>1. ~IsPark(s, b, n) BY <1>1 DEF IsPark
  <2> QED BY <2>1, <1>1
<1> QED BY <1>1, <1>2, <1>3, <1>4, <1>5, <1>6 DEF Filing

\* A folder discarded is filed, to be deleted.
LEMMA DiscardFiles ==
  ASSUME NEW s \in Records, Once(s), NEW n \in Names, ~Aside(s, n), NEW t, t = Discard(s, n)
  PROVE  Filing(s, n, t) /\ ~IsParked(t, n)
<1>1. /\ \A b \in Accounts, o \in Names : IsPark(t, b, o) <=> IsPark(s, b, o) /\ o # n
      /\ \A b \in Accounts : t.parked[b] = IF IsPark(s, b, n) THEN None ELSE s.parked[b]
      /\ t.aside = s.aside /\ t.moving = s.moving
      /\ \A o \in Names : Listed(t, o) <=> Listed(s, o) \/ o = n
  BY DiscardOf
<1>2. t \in Records BY RecordsKept, NoneApart
<1>3. \A o \in Names : /\ IsParked(t, o) <=> IsParked(s, o) /\ o # n
                       /\ Aside(t, o) <=> Aside(s, o)
  BY <1>1 DEF IsParked, Aside
<1>4. Once(t) BY <1>1, <1>3 DEF Once
<1>5. \A o \in Names : Files(t, o) <=> Files(s, o) \/ o = n BY <1>1, <1>3 DEF Files
<1>6. \A b \in Accounts, o \in Names : IsPark(t, b, o) /\ o # n => t.parked[b] = s.parked[b]
  <2> TAKE b \in Accounts, o \in Names
  <2> HAVE IsPark(t, b, o) /\ o # n
  <2>1. ~IsPark(s, b, n) BY <1>1 DEF IsPark
  <2> QED BY <2>1, <1>1
<1> QED BY <1>1, <1>2, <1>3, <1>4, <1>5, <1>6 DEF Filing

\* A move committed: its park filed, and whole if it is an account's.
LEMMA CommitFiles ==
  ASSUME TypeOK, Data, Moving # NoMove,
         NEW g, Filing(saved, Moving.park, g),
         \A a \in Accounts : IsPark(g, a, Moving.park) => Whole(Moving.park, a, g.parked[a].login),
         NEW s \in Records, s.parked = g.parked, s.aside = g.aside, s.discarded = g.discarded,
         s.moving = g.moving, NEW x \in Accounts \cup {None},
         saved' = Settled(s, Moving) \/ saved' = [Settled(s, Moving) EXCEPT !.awaiting = x],
         UNCHANGED <<root, pending>>, \A n \in Names : Alike(n)
  PROVE  saved' \in Records /\ Moving' = NoMove /\ Data'
<1>m. /\ Moving \in Moves /\ Moving.park \in Names /\ Moving.asides \in SUBSET Names
  BY MoveTyped
<1>1. /\ saved' \in Records /\ saved'.moving = NoMove
      /\ saved'.parked = s.parked /\ saved'.discarded = s.discarded
      /\ saved'.aside = IndexAsides(s, Moving).aside
  BY <1>m, SettledOf
<1>2. /\ \A n \in Names : Files(s, n) <=> Files(g, n)
      /\ \A n \in Names, a \in Accounts : IsPark(s, a, n) <=> IsPark(g, a, n)
      /\ Once(s)
  BY FilesIs DEF Filing
<1>3. s.moving = Moving BY DEF Filing, Moving
<1>4. \A n \in Moving.asides : ~Files(saved, n) /\ n # Moving.park
  <2> TAKE n \in Moving.asides
  <2>1. n \in Names /\ MoveHolds(saved, n) /\ n # Moving.park
    BY <1>m DEF MoveHolds, Moving, Data, Apart
  <2> QED BY <2>1 DEF Data, Apart, Files, IsParked, Moving
<1>5. \A n \in Moving.asides : ~Files(s, n) BY <1>2, <1>4, <1>m DEF Filing
<1>6. \A n \in Names : Files(saved, n) => Files(s, n) BY <1>2 DEF Filing
<1>7. Files(s, Moving.park) BY <1>2, <1>m DEF Filing
<1>8. \A a \in Accounts, n \in Names : IsPark(s, a, n) =>
        \/ IsPark(saved, a, n) /\ n # Moving.park /\ s.parked[a] = saved.parked[a]
        \/ Whole(n, a, s.parked[a].login)
  <2> TAKE a \in Accounts, n \in Names
  <2> HAVE IsPark(s, a, n)
  <2>1. CASE n = Moving.park BY <2>1, <1>2
  <2>2. CASE n # Moving.park
    <3>1. s.parked[a] = saved.parked[a] BY <2>2, <1>2 DEF Filing
    <3> QED BY <2>2, <3>1 DEF IsPark
  <2> QED BY <2>1, <2>2
<1>9. Data' BY <1>1, <1>2, <1>3, <1>5, <1>6, <1>7, <1>8, CommitData
<1> QED BY <1>1, <1>9 DEF Moving

-----------------------------------------------------------------------------
(* A leave committed. *)

\* A commit whose save failed: what it was to forget of a give-up may be gone, the move stays.
LEMMA CommitFails ==
  ASSUME Inv, UNCHANGED <<root, saved, pending, appOpen, issued, ended, ran>>, End,
         ForgetsLeft \/ UNCHANGED folders
  PROVE  Inv'
<1>1. /\ folders' \in [Names -> Folders]
      /\ \A n \in Names : folders'[n].made \/ folders'[n] = NoFolder
      /\ \A n \in Names : Alike(n)
  BY ForgetsOf DEF Inv
<1>2. NoRun \in Runs BY DEF NoRun, Runs
<1>3. pc' = "idle" /\ run' = NoRun BY DEF End
<1>4. TypeOK' BY <1>1, <1>2, <1>3 DEF Inv, TypeOK, Steps
<1>5. root'.has[Jar] \in Jars BY DEF Inv, Data, JarsTyped
<1>6. Data' BY <1>1, <1>5, AlikeData DEF Inv
<1> QED BY <1>3, <1>4, <1>6, EndKeeps DEF Inv

\* A commit whose save was written: what is left to show is of the run.
LEMMA CommitKeeps ==
  ASSUME Inv, saved' \in Records, Data', UNCHANGED <<root, pending, appOpen, issued, ended>>,
         ran' \in BOOLEAN, ForgetsLeft \/ UNCHANGED folders,
         pc' \in Steps, run' \in Runs, RunInv'
  PROVE  Inv'
<1>1. /\ folders' \in [Names -> Folders]
      /\ \A n \in Names : folders'[n].made \/ folders'[n] = NoFolder
  BY ForgetsOf DEF Inv
<1>2. TypeOK' BY <1>1 DEF Inv, TypeOK
<1> QED BY <1>2 DEF Inv

\* A leave committed: its folder is the account's park, or of one forgotten, set aside.
LEMMA CommitLeaveInv ==
  ASSUME Inv, CommitLeave
  PROVE  Inv'
<1>i. TypeOK /\ Ops /\ Halves /\ SwitchPark /\ Data BY DEF Inv, RunInv
<1>5. None \notin Commands \cup Rows \cup Stages BY NoneApart
<1>p. pc = "commitLeave" BY DEF CommitLeave
<1>c. /\ Moving # NoMove /\ Moving.half = "leave" /\ Whole(Moving.park, Moving.who, Moving.login)
      /\ run.on \in {"forward", "settle", "after"}
  BY <1>p DEF Inv, RunInv, Committing
<1>t. /\ Moving \in Moves /\ Moving.park \in Names /\ Moving.who \in Accounts
      /\ Moving.login \in Sessions
  BY <1>i, <1>c, MoveTyped
<1>s. saved \in Records BY <1>i DEF TypeOK
<1> DEFINE arrives == pc' = "record" /\ run' = [run EXCEPT !.half = "arrive", !.name = None, !.on = "forward"]
           kept == IF Moving.who \in saved.enrolled THEN Park(saved, Moving.who, Moving.park, Moving.login)
                   ELSE AddAside(saved, Moving.park, Moving.who, Moving.login)
           s == [Settled(Nobody(kept), Moving) EXCEPT !.awaiting = IF Moving.awaits THEN Moving.who ELSE @]
           then == IF run.on # "settle" /\ run.op = "switch" THEN arrives ELSE Continues
<1>0. Commits(s, TRUE, then) BY DEF CommitLeave
<1>u. UNCHANGED <<root, pending, appOpen, issued, ended>> BY <1>0 DEF Commits, app
<1>1. CASE UNCHANGED <<saved, ran>> /\ End /\ (ForgetsLeft \/ UNCHANGED folders)
  BY <1>1, <1>u, CommitFails
<1>2. CASE saved' = s /\ then /\ ran' = FALSE /\ ForgetsLeft
  <2>k. PICK g : g = kept OBVIOUS
  <2>n. ~Files(saved, Moving.park)
    BY <1>c, <1>t, <1>i DEF Data, Apart, MoveHolds, Moving, Files, IsParked
  <2>o. Once(saved) BY <1>i DEF Data
  <2>1. /\ Filing(saved, Moving.park, g)
        /\ \A a \in Accounts : IsPark(g, a, Moving.park) => a = Moving.who /\ g.parked[a].login = Moving.login
        /\ \A a \in Accounts : a # Moving.who => g.parked[a] = saved.parked[a]
    <3>1. CASE Moving.who \in saved.enrolled
      <4>1. g = Park(saved, Moving.who, Moving.park, Moving.login) BY <2>k, <3>1
      <4>a. PICK a, n, l : a = Moving.who /\ n = Moving.park /\ l = Moving.login OBVIOUS
      <4>b. a \in Accounts /\ n \in Names /\ l \in Sessions /\ g = Park(saved, a, n, l)
        BY <4>1, <4>a, <1>t
      <4>3. /\ Filing(saved, n, g)
            /\ \A b \in Accounts : IsPark(g, b, n) => b = a /\ g.parked[b].login = l
            /\ \A b \in Accounts : b # a => g.parked[b] = saved.parked[b]
        BY <4>a, <4>b, <2>n, <2>o, <1>s, ParkFiles
      <4> QED BY <4>a, <4>3
    <3>2. CASE Moving.who \notin saved.enrolled
      <4>1. g = AddAside(saved, Moving.park, Moving.who, Moving.login) BY <2>k, <3>2
      <4>2. Filing(saved, Moving.park, g) /\ ~IsParked(g, Moving.park)
        BY <4>1, <2>n, <2>o, <1>s, <1>t, AddAsideFiles
      <4>3. g.parked = saved.parked BY <4>1, <1>s, <1>t, AddAsideOf
      <4> QED BY <4>2, <4>3 DEF IsParked
    <3> QED BY <3>1, <3>2
  <2>2. g \in Records BY <2>1 DEF Filing
  <2>q. PICK q : q = Nobody(g) OBVIOUS
  <2>3. /\ q \in Records /\ q.parked = g.parked /\ q.aside = g.aside /\ q.discarded = g.discarded
        /\ q.moving = g.moving
    BY <2>2, <2>q, IdentifiedOf DEF Nobody
  <2>x. PICK x : x = IF Moving.awaits THEN Moving.who ELSE Settled(q, Moving).awaiting OBVIOUS
  <2>4. saved' = [Settled(q, Moving) EXCEPT !.awaiting = x] BY <1>2, <2>k, <2>q, <2>x
  <2>5. x \in Accounts \cup {None}
    <3>1. Settled(q, Moving) \in Records BY <2>3, <1>i, <1>t, SettledOf
    <3> QED BY <3>1, <2>x, <1>t DEF Records
  <2>6. \A a \in Accounts : IsPark(g, a, Moving.park) => Whole(Moving.park, a, g.parked[a].login)
    BY <2>1, <1>c
  <2>7. \A n \in Names : Alike(n) BY <1>2, <1>i, ForgetsOf
  <2>8. saved' \in Records /\ Moving' = NoMove /\ Data'
    BY <1>i, <1>c, <1>u, <2>1, <2>3, <2>4, <2>5, <2>6, <2>7, CommitFiles
  <2>9. CASE Continues
    <3>1. run.half # "done" BY <1>p, <1>i DEF Halves
    <3>2. RunInv' /\ pc' \in Steps /\ run' \in Runs
      BY <1>p, <1>i, <2>8, <2>9, <3>1, ContinuesKeeps
    <3> QED BY <1>2, <1>u, <2>8, <3>2, CommitKeeps
  <2>10. CASE run.on # "settle" /\ run.op = "switch" /\ arrives
    <3>1. run.half = "leave"
      BY <1>p, <1>c, <1>i, <2>10, <1>5 DEF Ops, Halves
    <3>2. run.who \in Accounts /\ CanArrive(run.who) /\ Moving.who # run.who
      BY <1>p, <1>c, <1>i, <2>10, <3>1 DEF Ops, SwitchPark
    <3>r. PICK r : r = [run EXCEPT !.half = "arrive", !.name = None, !.on = "forward"] OBVIOUS
    <3>3. /\ r \in Runs /\ r.half = "arrive" /\ r.name = None /\ r.on = "forward"
          /\ r.op = run.op /\ r.who = run.who /\ r.stopped = run.stopped /\ r.row = run.row
      BY <3>r, <1>i DEF TypeOK, Runs, Stages
    <3>4. run' = r /\ pc' = "record" BY <2>10, <3>r
    <3>5. \A a \in Accounts : a # Moving.who /\ CanArrive(a) => CanArrive(a)'
      <4>1. \A a \in Accounts : a # Moving.who => saved'.parked[a] = saved.parked[a]
        <5>1. saved'.parked = q.parked BY <2>3, <2>4, <2>5, <1>i, <1>t, SettledOf
        <5> QED BY <5>1, <2>1, <2>3
      <4>2. ASSUME NEW a \in Accounts, a # Moving.who, CanArrive(a) PROVE CanArrive(a)'
        <5> PICK n, l : n = saved.parked[a].name /\ l = saved.parked[a].login OBVIOUS
        <5>1. saved.parked[a] # None /\ Whole(n, a, l) BY <4>2, CanArriveIs
        <5>2. n \in Names BY <5>1, <1>s DEF Records
        <5>3. Whole(n, a, l)' BY <5>1, <5>2, <2>7, AlikeIs
        <5>4. CanArrive(a)' <=> saved'.parked[a] # None /\ Whole(n, a, l)'
          BY <4>1, <4>2 DEF CanArrive, Whole
        <5> QED BY <4>1, <4>2, <5>1, <5>3, <5>4
      <4> QED BY <4>2
    <3>6. Ops' BY <1>5, <1>i, <2>8, <2>10, <3>2, <3>3, <3>4 DEF Ops, Commands
    <3>7. Halves' BY <1>5, <2>8, <2>10, <3>3, <3>4 DEF Halves
    <3>8. SwitchPark' BY <3>3, <3>4 DEF SwitchPark
    <3>9. Reserving'
      <4>1. \A a \in Accounts : run'.who = a => CanArrive(a)' BY <3>2, <3>3, <3>4, <3>5
      <4> QED BY <3>2, <3>3, <3>4, <4>1, <1>5 DEF Reserving
    <3>10. Building' BY <3>4 DEF Building
    <3>11. RowInv' BY <3>4 DEF RowInv, Doing, Fallible
    <3>12. Committing' BY <3>4 DEF Committing
    <3>13. RunInv' BY <3>6, <3>7, <3>8, <3>9, <3>10, <3>11, <3>12 DEF RunInv
    <3>14. pc' \in Steps /\ run' \in Runs BY <3>3, <3>4 DEF Steps
    <3> QED BY <1>2, <1>u, <2>8, <3>13, <3>14, CommitKeeps
  <2> HIDE DEF arrives, s, kept
  <2> QED BY <1>2, <2>9, <2>10
<1> HIDE DEF s, then, arrives, kept
<1> QED BY <1>0, <1>1, <1>2 DEF Commits

-----------------------------------------------------------------------------
(* An arrive committed, and a move undone. *)

\* What follows a commit that ends a move: the folders it lists are deleted.
LEMMA PurgeNext ==
  ASSUME TypeOK, Ops, Halves, pc \in {"commitArrive", "undone", "givenUp"}, Moving' = NoMove,
         Goes("purge")
  PROVE  RunInv' /\ pc' \in Steps /\ run' \in Runs
<1>5. None \notin Commands \cup Rows \cup Stages BY NoneApart
<1>1. pc' = "purge" /\ run' = run BY DEF Goes
<1>2. Ops' BY <1>1, <1>5 DEF Ops, Commands
<1>3. Halves' BY <1>1, <1>5 DEF Ops, Halves, Stages
<1> QED BY <1>1, <1>2, <1>3, PlainKeeps DEF Plain, TypeOK, Steps

\* An arrive committed: the park it was of is of no account any more.
LEMMA CommitArriveInv ==
  ASSUME Inv, CommitArrive
  PROVE  Inv'
<1>i. TypeOK /\ Ops /\ Halves /\ Data BY DEF Inv, RunInv
<1>p. pc = "commitArrive" BY DEF CommitArrive
<1>c. Moving # NoMove /\ Moving.half = "arrive" BY <1>p DEF Inv, RunInv, Committing
<1>t. /\ Moving \in Moves /\ Moving.park \in Names /\ Moving.who \in Accounts /\ Moving.login \in Sessions
  BY <1>i, <1>c, MoveTyped
<1>s. saved \in Records BY <1>i DEF TypeOK
<1> DEFINE gone == IF KeysAre(Moving) = "named" THEN KeepAside(saved, Moving.park, Moving.who, None)
                   ELSE Discard(saved, Moving.park)
           who == IF Moving.who \in saved.enrolled THEN Moving.who ELSE None
           s == [Settled(Identified(gone, who, Moving.login), Moving) EXCEPT !.awaiting = None]
<1>0. Commits(s, FALSE, Goes("purge")) BY DEF CommitArrive
<1>u. UNCHANGED <<root, pending, appOpen, issued, ended>> BY <1>0 DEF Commits, app
<1>1. CASE UNCHANGED <<saved, ran>> /\ End /\ UNCHANGED folders
  BY <1>1, <1>u, CommitFails
<1>2. CASE saved' = s /\ Goes("purge") /\ ran' = FALSE /\ UNCHANGED folders
  <2>k. PICK g : g = gone OBVIOUS
  <2>n. ~Aside(saved, Moving.park) /\ ~Listed(saved, Moving.park)
    BY <1>c, <1>t, <1>i DEF Data, Apart, MoveHolds, Moving
  <2>o. Once(saved) BY <1>i DEF Data
  <2>1. Filing(saved, Moving.park, g) /\ ~IsParked(g, Moving.park)
    <3>a. PICK a, n : a = Moving.who /\ n = Moving.park OBVIOUS
    <3>1. CASE KeysAre(Moving) = "named"
      <4>1. g = KeepAside(saved, n, a, None) BY <2>k, <3>1, <3>a
      <4>2. a \in Accounts \cup {None} /\ n \in Names /\ ~Listed(saved, n) BY <3>a, <1>t, <2>n
      <4>3. Filing(saved, n, g) /\ ~IsParked(g, n) BY <4>1, <4>2, <2>o, <1>s, KeepAsideFiles
      <4> QED BY <4>3, <3>a
    <3>2. CASE KeysAre(Moving) # "named"
      <4>1. g = Discard(saved, n) BY <2>k, <3>2, <3>a
      <4>2. n \in Names /\ ~Aside(saved, n) BY <3>a, <1>t, <2>n
      <4>3. Filing(saved, n, g) /\ ~IsParked(g, n) BY <4>1, <4>2, <2>o, <1>s, DiscardFiles
      <4> QED BY <4>3, <3>a
    <3> QED BY <3>1, <3>2
  <2>2. g \in Records BY <2>1 DEF Filing
  <2>a. PICK a, l : a = who /\ l = Moving.login OBVIOUS
  <2>b. a \in Accounts \cup {None} /\ l \in Sessions \cup {None} BY <2>a, <1>t
  <2>q. PICK q : q = Identified(g, a, l) OBVIOUS
  <2>3. /\ q \in Records /\ q.parked = g.parked /\ q.aside = g.aside /\ q.discarded = g.discarded
        /\ q.moving = g.moving
    BY <2>2, <2>b, <2>q, IdentifiedOf
  <2>4. saved' = [Settled(q, Moving) EXCEPT !.awaiting = None] BY <1>2, <2>k, <2>q, <2>a
  <2>6. \A b \in Accounts : ~IsPark(g, b, Moving.park) BY <2>1 DEF IsParked
  <2>7. \A n \in Names : Alike(n) BY <1>2, <1>i, ForgetsOf
  <2>8. saved' \in Records /\ Moving' = NoMove /\ Data'
    BY <1>i, <1>c, <1>u, <2>1, <2>3, <2>4, <2>6, <2>7, CommitFiles
  <2>9. RunInv' /\ pc' \in Steps /\ run' \in Runs BY <1>p, <1>i, <1>2, <2>8, PurgeNext
  <2> HIDE DEF s, gone, who
  <2> QED BY <1>2, <1>u, <2>8, <2>9, CommitKeeps
<1> HIDE DEF s, gone, who
<1> QED BY <1>0, <1>1, <1>2 DEF Commits

\* A record that files the folder already.
LEMMA FiledStays ==
  ASSUME NEW s \in Records, Once(s), NEW n \in Names, Files(s, n)
  PROVE  Filing(s, n, s)
BY DEF Filing

\* A move undone: its park stays the account's, or is let go of.
LEMMA UndoneInv ==
  ASSUME Inv, Undone
  PROVE  Inv'
<1>i. TypeOK /\ Ops /\ Halves /\ Data BY DEF Inv, RunInv
<1>p. pc = "undone" BY DEF Undone
<1>c. /\ Moving # NoMove
      /\ Moving.half = "arrive" => Whole(Moving.park, Moving.who, Moving.login)
  BY <1>p DEF Inv, RunInv, Committing
<1>t. /\ Moving \in Moves /\ Moving.park \in Names /\ Moving.who \in Accounts /\ Moving.login \in Sessions
  BY <1>i, <1>c, MoveTyped
<1>s. saved \in Records BY <1>i DEF TypeOK
<1> DEFINE s == CASE Moving.half = "arrive" -> Nobody(saved)
             [] Moving.half = "leave" /\ KeysAre(Moving) = "named" /\ folders[Moving.park].made ->
                  KeepAside(saved, Moving.park, Moving.who, None)
             [] OTHER -> Discard(saved, Moving.park)
<1>u. UNCHANGED <<root, folders, pending, appOpen, issued, ended>> BY DEF Undone, app
<1>1. CASE UNCHANGED <<saved, ran>> /\ End
  BY <1>1, <1>u, CommitFails
<1>2. CASE saved' = Settled(s, Moving) /\ Goes("purge") /\ ran' = (ran /\ Moving.half # "arrive")
  <2>k. PICK q : q = s OBVIOUS
  <2>n. ~Aside(saved, Moving.park) /\ ~Listed(saved, Moving.park)
    BY <1>c, <1>t, <1>i DEF Data, Apart, MoveHolds, Moving
  <2>o. Once(saved) BY <1>i DEF Data
  <2>d. PICK a, n : a = Moving.who /\ n = Moving.park OBVIOUS
  <2>1. \E g : /\ Filing(saved, n, g)
               /\ \A b \in Accounts : IsPark(g, b, n) => Whole(n, b, g.parked[b].login)
               /\ q \in Records /\ q.parked = g.parked /\ q.aside = g.aside
               /\ q.discarded = g.discarded /\ q.moving = g.moving
    <3>1. CASE Moving.half = "arrive"
      <4>1. q = Identified(saved, None, None) BY <2>k, <3>1 DEF Nobody
      <4>2. /\ q \in Records /\ q.parked = saved.parked /\ q.aside = saved.aside
            /\ q.discarded = saved.discarded /\ q.moving = saved.moving
        BY <4>1, <1>s, IdentifiedOf
      <4>p. PICK p : p = [name |-> Moving.park, login |-> Moving.login] OBVIOUS
      <4>3. saved.parked[a] = p BY <3>1, <4>p, <1>c, <1>i, <2>d DEF Data, MovePark
      <4>4. p # None /\ p.name = n /\ p.login = Moving.login BY <4>p, <1>t, <2>d, NoneApart
      <4>5. IsPark(saved, a, n) /\ a \in Accounts /\ n \in Names BY <4>3, <4>4, <1>t, <2>d DEF IsPark
      <4>6. Files(saved, n) BY <4>5 DEF Files, IsParked
      <4>7. Filing(saved, n, saved) BY <4>5, <4>6, <1>s, <2>o, FiledStays
      <4>8. \A b \in Accounts : IsPark(saved, b, n) => b = a BY <4>5, <2>o DEF Once
      <4>9. \A b \in Accounts : IsPark(saved, b, n) => Whole(n, b, saved.parked[b].login)
        BY <4>8, <4>3, <4>4, <3>1, <1>c, <2>d
      <4> QED BY <4>2, <4>7, <4>9
    <3>2. CASE Moving.half = "leave" /\ KeysAre(Moving) = "named" /\ folders[Moving.park].made
      <4>1. q = KeepAside(saved, n, a, None) BY <2>k, <3>2, <2>d
      <4>2. a \in Accounts \cup {None} /\ n \in Names /\ ~Listed(saved, n) BY <2>d, <1>t, <2>n
      <4>3. Filing(saved, n, q) /\ ~IsParked(q, n) BY <4>1, <4>2, <2>o, <1>s, KeepAsideFiles
      <4> QED BY <4>3 DEF IsParked, Filing
    <3>3. CASE ~(Moving.half = "arrive") /\ ~(Moving.half = "leave" /\ KeysAre(Moving) = "named" /\ folders[Moving.park].made)
      <4>1. q = Discard(saved, n) BY <2>k, <3>3, <2>d
      <4>2. n \in Names /\ ~Aside(saved, n) BY <2>d, <1>t, <2>n
      <4>3. Filing(saved, n, q) /\ ~IsParked(q, n) BY <4>1, <4>2, <2>o, <1>s, DiscardFiles
      <4> QED BY <4>3 DEF IsParked, Filing
    <3> QED BY <3>1, <3>2, <3>3
  <2>4. saved' = Settled(q, Moving) BY <1>2, <2>k
  <2>7. \A o \in Names : Alike(o) BY <1>u, <1>i, ForgetsOf
  <2>8. saved' \in Records /\ Moving' = NoMove /\ Data'
    <3>1. PICK g : /\ Filing(saved, n, g)
                   /\ \A b \in Accounts : IsPark(g, b, n) => Whole(n, b, g.parked[b].login)
                   /\ q \in Records /\ q.parked = g.parked /\ q.aside = g.aside
                   /\ q.discarded = g.discarded /\ q.moving = g.moving
      BY <2>1
    <3> QED BY <1>i, <1>c, <1>u, <2>d, <2>4, <2>7, <3>1, CommitFiles
  <2>9. RunInv' /\ pc' \in Steps /\ run' \in Runs BY <1>p, <1>i, <1>2, <2>8, PurgeNext
  <2>10. ran' \in BOOLEAN
    <3>1. (ran /\ Moving.half # "arrive") \in BOOLEAN OBVIOUS
    <3> QED BY <1>2, <3>1, Zenon
  <2> HIDE DEF s
  <2> QED BY <1>u, <2>8, <2>9, <2>10, CommitKeeps
<1>3. \/ saved' = Settled(s, Moving) /\ Goes("purge") /\ ran' = (ran /\ Moving.half # "arrive")
      \/ UNCHANGED <<saved, ran>> /\ End
  BY Zenon DEF Undone
<1> HIDE DEF s
<1> QED BY <1>1, <1>2, <1>3, Zenon

-----------------------------------------------------------------------------
(* A start committed, and a move given up. *)

\* A record changed with no move in it: all that was named is, and no account is given a park.
LEMMA FiledData ==
  ASSUME TypeOK, Data, Moving = NoMove, saved' \in Records, saved'.moving = NoMove, Once(saved'),
         \A n \in Names : Named(saved, n) => Named(saved', n),
         \A a \in Accounts : saved'.parked[a] = saved.parked[a] \/ saved'.parked[a] = None,
         UNCHANGED <<root, pending>>, \A n \in Names : Alike(n)
  PROVE  Data'
<1>1. JarsTyped' BY DEF Data, JarsTyped, Alike
<1>2. EveryFolderNamed'
  <2>1. \A n : Named(saved', n) <=> Named(saved, n)' BY DEF Named, MoveHolds
  <2>2. \A n \in Names : HoldsAnything(n)' => HoldsAnything(n) BY AlikeIs
  <2> QED BY <2>1, <2>2 DEF Data, EveryFolderNamed
<1>3. Once(saved)' /\ Apart(saved)'
  BY DEF Once, Apart, IsPark, IsParked, Aside, Listed, MoveHolds
<1>4. MovePark' BY DEF MovePark, Moving
<1>5. ParksWhole'
  <2>1. ASSUME NEW a \in Accounts, saved'.parked[a] # None PROVE CanArrive(a)'
    <3> PICK n, l : n = saved.parked[a].name /\ l = saved.parked[a].login OBVIOUS
    <3>1. saved'.parked[a] = saved.parked[a] BY <2>1
    <3>2. n \in Names BY <2>1, <3>1 DEF Records
    <3>3. ~MoveHolds(saved, n) BY DEF MoveHolds, Moving
    <3>4. CanArrive(a) BY <2>1, <3>1, <3>3 DEF Data, ParksWhole
    <3>5. Whole(n, a, l)' BY <3>2, <3>4, AlikeIs, CanArriveIs
    <3>6. CanArrive(a)' <=> saved'.parked[a] # None /\ Whole(n, a, l)'
      BY <3>1 DEF CanArrive, Whole
    <3> QED BY <2>1, <3>5, <3>6
  <2> QED BY <2>1 DEF ParksWhole
<1> QED BY <1>1, <1>2, <1>3, <1>4, <1>5 DEF Data

\* A start's commit: what it set aside is named.
LEMMA StartedInv ==
  ASSUME Inv, Started
  PROVE  Inv'
<1>i. TypeOK /\ Data BY DEF Inv
<1>p. pc = "started" BY DEF Started
<1>c. Moving = NoMove /\ run.name \in Names /\ ~Named(saved, run.name)
  BY <1>p DEF Inv, RunInv, RowInv, Committing, OfStart
<1>s. saved \in Records BY <1>i DEF TypeOK
<1>q. PICK q : q = Nobody(saved) OBVIOUS
<1>n. PICK n : n = run.name OBVIOUS
<1>t. PICK t : t = AddAside(q, n, None, None) OBVIOUS
<1>0. Commits(t, FALSE, End) BY <1>q, <1>n, <1>t DEF Started
<1>u. UNCHANGED <<root, pending, appOpen, issued, ended>> BY <1>0 DEF Commits, app
<1>1. CASE UNCHANGED <<saved, ran>> /\ End /\ UNCHANGED folders
  BY <1>1, <1>u, CommitFails
<1>2. CASE saved' = t /\ End /\ ran' = FALSE /\ UNCHANGED folders
  <2>1. /\ q \in Records /\ q.parked = saved.parked /\ q.aside = saved.aside
        /\ q.discarded = saved.discarded /\ q.moving = saved.moving
    BY <1>q, <1>s, IdentifiedOf DEF Nobody
  <2>2. /\ Once(q) /\ n \in Names /\ ~Files(q, n)
        /\ \A o \in Names : Files(q, o) <=> Files(saved, o)
    BY <2>1, <1>i, <1>c, <1>n, FilesIs, NamedIs DEF Data, Files
  <2>3. Filing(q, n, t) BY <2>1, <2>2, <1>t, AddAsideFiles
  <2>4. t.parked = q.parked BY <2>1, <2>2, <1>t, AddAsideOf
  <2>5. saved' \in Records /\ saved'.moving = NoMove /\ Once(saved')
    BY <1>2, <1>c, <2>1, <2>3 DEF Filing, Moving
  <2>6. \A o \in Names : Named(saved, o) => Named(saved', o)
    <3> TAKE o \in Names
    <3>1. ~MoveHolds(saved, o) BY <1>c DEF MoveHolds, Moving
    <3>2. Files(saved, o) => Files(saved', o) BY <1>2, <2>2, <2>3 DEF Filing
    <3> QED BY <3>1, <3>2, NamedIs DEF Files
  <2>7. \A o \in Names : Alike(o) BY <1>2, <1>i, ForgetsOf
  <2>8. \A a \in Accounts : saved'.parked[a] = saved.parked[a] BY <1>2, <2>1, <2>4
  <2>9. Data' BY <1>i, <1>c, <1>u, <2>5, <2>6, <2>7, <2>8, FiledData
  <2>10. NoRun \in Runs BY DEF NoRun, Runs
  <2>11. RunInv' /\ pc' \in Steps /\ run' \in Runs BY <1>2, <2>10, EndKeeps DEF End, Steps
  <2> QED BY <1>2, <1>u, <2>5, <2>9, <2>11, CommitKeeps
<1> QED BY <1>0, <1>1, <1>2 DEF Commits

\* What is made of a park given up: it is filed, the account's only where it holds the session.
LEMMA GivenUpFiles ==
  ASSUME TypeOK, Data, Moving # NoMove,
         folders[Moving.park].has[Jar] = Moving.login => Whole(Moving.park, Moving.who, Moving.login),
         NEW g, g = GivenUpPark(Moving)
  PROVE  /\ Filing(saved, Moving.park, g)
         /\ \A a \in Accounts : IsPark(g, a, Moving.park) => Whole(Moving.park, a, g.parked[a].login)
<1>t. /\ Moving \in Moves /\ Moving.park \in Names /\ Moving.who \in Accounts /\ Moving.login \in Sessions
  BY MoveTyped
<1>s. saved \in Records BY DEF TypeOK
<1>o. Once(saved) BY DEF Data
<1>a. PICK a, n, l, jar : a = Moving.who /\ n = Moving.park /\ l = Moving.login
                          /\ jar = folders[Moving.park].has[Jar] OBVIOUS
<1>b. a \in Accounts /\ n \in Names /\ l \in Sessions BY <1>a, <1>t
<1>n. ~Aside(saved, n) /\ ~Listed(saved, n)
  BY <1>a, <1>b DEF Data, Apart, MoveHolds, Moving
<1>v. \A b \in Accounts : IsPark(saved, b, n) => Moving.half = "arrive" /\ b = a
  BY <1>a, <1>b DEF Data, Apart, MoveHolds, Moving
<1>1. ASSUME NEW x \in Accounts \cup {None}, NEW k \in Sessions \cup {None}, g = KeepAside(saved, n, x, k)
      PROVE  Filing(saved, n, g) /\ ~IsParked(g, n)
  BY <1>1, <1>b, <1>n, <1>o, <1>s, KeepAsideFiles
<1>2. ASSUME g = Discard(saved, n) PROVE Filing(saved, n, g) /\ ~IsParked(g, n)
  BY <1>2, <1>b, <1>n, <1>o, <1>s, DiscardFiles
<1>3. CASE jar = l /\ a \in saved.enrolled /\ saved.parked[a] = None
  <2>1. g = Park(saved, a, n, l) BY <1>3, <1>a DEF GivenUpPark
  <2>2. ~Files(saved, n)
    <3>1. ~IsPark(saved, a, n) BY <1>3 DEF IsPark
    <3> QED BY <3>1, <1>n, <1>v DEF Files, IsParked
  <2>3. Filing(saved, n, g) /\ \A b \in Accounts : IsPark(g, b, n) => b = a /\ g.parked[b].login = l
    BY <2>1, <2>2, <1>b, <1>o, <1>s, ParkFiles
  <2> QED BY <2>3, <1>3, <1>a
<1>4. CASE jar = l /\ a \in saved.enrolled /\ saved.parked[a] # None /\ saved.parked[a].name = n
  <2>1. g = saved BY <1>4, <1>a DEF GivenUpPark
  <2>2. IsPark(saved, a, n) BY <1>4 DEF IsPark
  <2>3. Files(saved, n) BY <2>2, <1>b DEF Files, IsParked
  <2>4. Filing(saved, n, g) BY <2>1, <2>3, <1>b, <1>o, <1>s, FiledStays
  <2>p. PICK p : p = [name |-> Moving.park, login |-> Moving.login] OBVIOUS
  <2>5. saved.parked[a] = p BY <2>2, <2>p, <1>a, <1>b, <1>v DEF Data, MovePark
  <2>6. p.login = l BY <2>p, <1>a
  <2> QED BY <2>1, <2>4, <2>5, <2>6, <1>4, <1>a, <1>v
<1>5. CASE jar = l /\ ~(a \in saved.enrolled /\ saved.parked[a] = None)
              /\ ~(a \in saved.enrolled /\ saved.parked[a].name = n)
  <2>1. g = KeepAside(saved, n, a, l) BY <1>5, <1>a DEF GivenUpPark
  <2> QED BY <2>1, <1>1, <1>a, <1>b DEF IsParked
<1>6. CASE jar # l /\ jar # None
  <2>1. g = KeepAside(saved, n, a, SessionIn(jar)) BY <1>6, <1>a DEF GivenUpPark
  <2>2. SessionIn(jar) \in Sessions \cup {None} BY DEF SessionIn
  <2> QED BY <2>1, <2>2, <1>1, <1>a, <1>b DEF IsParked
<1>7. CASE jar # l /\ jar = None
  <2>1. g = KeepAside(saved, n, a, None) \/ g = Discard(saved, n) BY <1>7, <1>a DEF GivenUpPark
  <2> QED BY <2>1, <1>1, <1>2, <1>a, <1>b DEF IsParked
<1> QED BY <1>3, <1>4, <1>5, <1>6, <1>7

\* A move given up.
LEMMA GivenUpInv ==
  ASSUME Inv, GivenUp
  PROVE  Inv'
<1>i. TypeOK /\ Ops /\ Halves /\ Data BY DEF Inv, RunInv
<1>p. pc = "givenUp" BY DEF GivenUp
<1>c. /\ Moving # NoMove
      /\ folders[Moving.park].has[Jar] = Moving.login => Whole(Moving.park, Moving.who, Moving.login)
  BY <1>p DEF Inv, RunInv, Committing
<1>g. PICK g : g = GivenUpPark(Moving) OBVIOUS
<1>q. PICK q : q = Nobody(g) OBVIOUS
<1>t. PICK t : t = [Settled(q, Moving) EXCEPT !.awaiting = None] OBVIOUS
<1>0. Commits(t, FALSE, Goes("purge")) BY <1>g, <1>q, <1>t DEF GivenUp
<1>u. UNCHANGED <<root, pending, appOpen, issued, ended>> BY <1>0 DEF Commits, app
<1>1. CASE UNCHANGED <<saved, ran>> /\ End /\ UNCHANGED folders
  BY <1>1, <1>u, CommitFails
<1>2. CASE saved' = t /\ Goes("purge") /\ ran' = FALSE /\ UNCHANGED folders
  <2>1. /\ Filing(saved, Moving.park, g)
        /\ \A a \in Accounts : IsPark(g, a, Moving.park) => Whole(Moving.park, a, g.parked[a].login)
    BY <1>i, <1>c, <1>g, GivenUpFiles
  <2>2. /\ q \in Records /\ q.parked = g.parked /\ q.aside = g.aside /\ q.discarded = g.discarded
        /\ q.moving = g.moving
    <3>1. g \in Records BY <2>1 DEF Filing
    <3> QED BY <3>1, <1>q, IdentifiedOf DEF Nobody
  <2>7. \A n \in Names : Alike(n) BY <1>2, <1>i, ForgetsOf
  <2>8. saved' \in Records /\ Moving' = NoMove /\ Data'
    <3>1. saved' = [Settled(q, Moving) EXCEPT !.awaiting = None] BY <1>2, <1>t
    <3> QED BY <1>i, <1>c, <1>u, <2>1, <2>2, <2>7, <3>1, CommitFiles
  <2>9. RunInv' /\ pc' \in Steps /\ run' \in Runs BY <1>p, <1>i, <1>2, <2>8, PurgeNext
  <2> QED BY <1>2, <1>u, <2>8, <2>9, CommitKeeps
<1> QED BY <1>0, <1>1, <1>2 DEF Commits

-----------------------------------------------------------------------------
(* Enroll and forget. *)

\* A record that enrols an account, the parks of some set aside.
Superseding(s, a, gone) ==
  [s EXCEPT
     !.enrolled = @ \cup {a},
     !.parked = [b \in Accounts |-> IF b \in gone THEN None ELSE s.parked[b]],
     !.aside = @ \cup {[name |-> s.parked[b].name, account |-> b,
                        login |-> s.parked[b].login] : b \in gone}]

\* Parks superseded: what was named is, each of them set aside.
LEMMA SupersededOf ==
  ASSUME NEW s \in Records, Once(s), s.moving = NoMove, NEW a \in Accounts, NEW gone \in SUBSET Accounts,
         \A b \in gone : s.parked[b] # None,
         NEW t, t = Superseding(s, a, gone)
  PROVE  /\ t \in Records /\ Once(t) /\ t.moving = NoMove
         /\ \A b \in Accounts : t.parked[b] = s.parked[b] \/ t.parked[b] = None
         /\ \A n \in Names : Named(s, n) => Named(t, n)
<1> DEFINE Row1(b) == [name |-> s.parked[b].name, account |-> b, login |-> s.parked[b].login]
<1>p. PICK parked : parked = [b \in Accounts |-> IF b \in gone THEN None ELSE s.parked[b]] OBVIOUS
<1>r. PICK rows : rows = {Row1(b) : b \in gone} OBVIOUS
<1>1. parked \in [Accounts -> [name : Names, login : Sessions] \cup {None}] BY <1>p DEF Records
<1>2. \A b \in gone : s.parked[b].name \in Names /\ s.parked[b].login \in Sessions BY DEF Records
<1>3. rows \subseteq [name : Names, account : Accounts \cup {None}, login : Sessions \cup {None}]
  <2>1. \A b \in gone : Row1(b) \in [name : Names, account : Accounts \cup {None}, login : Sessions \cup {None}]
    BY <1>2
  <2> QED BY <2>1, <1>r
<1>4. t = [s EXCEPT !.enrolled = @ \cup {a}, !.parked = parked, !.aside = @ \cup rows]
  BY <1>p, <1>r DEF Superseding
<1>5. /\ t \in Records /\ t.parked = parked /\ t.aside = s.aside \cup rows
      /\ t.discarded = s.discarded /\ t.moving = s.moving
  <2> PICK e, f : e = s.enrolled \cup {a} /\ f = s.aside \cup rows OBVIOUS
  <2>1. e \in SUBSET Accounts BY DEF Records
  <2>2. f \in SUBSET [name : Names, account : Accounts \cup {None}, login : Sessions \cup {None}]
    BY <1>3 DEF Records
  <2>3. t = [s EXCEPT !.enrolled = e, !.parked = parked, !.aside = f] BY <1>4
  <2> QED BY <1>1, <2>1, <2>2, <2>3 DEF Records
<1>6. \A r \in rows : \E b \in gone : r = Row1(b) /\ IsPark(s, b, r.name) BY <1>r DEF IsPark
<1>7. \A b \in gone : \E r \in rows : r.name = s.parked[b].name
  <2> TAKE b \in gone
  <2>1. Row1(b) \in rows /\ Row1(b).name = s.parked[b].name BY <1>r
  <2> QED BY <2>1
<1>8. \A q, r \in rows : q.name = r.name => q = r
  <2> TAKE q, r \in rows
  <2> HAVE q.name = r.name
  <2>1. PICK b \in gone : q = Row1(b) /\ IsPark(s, b, q.name) BY <1>6
  <2>2. PICK c \in gone : r = Row1(c) /\ IsPark(s, c, r.name) BY <1>6
  <2>3. q.name \in Names BY <1>2, <2>1
  <2>4. b = c BY <2>1, <2>2, <2>3 DEF Once
  <2> QED BY <2>1, <2>2, <2>4
<1> HIDE DEF Row1
<1>9. \A b \in Accounts, n \in Names : IsPark(t, b, n) <=> b \notin gone /\ IsPark(s, b, n)
  BY <1>5, <1>p DEF IsPark
<1>10. \A n \in Names : Aside(t, n) <=> Aside(s, n) \/ \E b \in gone : IsPark(s, b, n)
  <2>1. \A n \in Names : (\E r \in rows : r.name = n) <=> \E b \in gone : IsPark(s, b, n)
    BY <1>6, <1>7 DEF IsPark
  <2> QED BY <2>1, <1>5 DEF Aside
<1>11. \A n \in Names : Listed(t, n) <=> Listed(s, n) BY <1>5 DEF Listed
<1>12. \A n \in Names : MoveHolds(t, n) <=> MoveHolds(s, n) BY <1>5 DEF MoveHolds
<1>13. Once(t)
  <2>1. \A q \in s.aside, r \in rows : q.name # r.name
    <3> TAKE q \in s.aside, r \in rows
    <3>1. r.name \in Names /\ IsParked(s, r.name) BY <1>2, <1>3, <1>6 DEF IsParked
    <3> QED BY <3>1 DEF Once, Aside
  <2>2. \A q, r \in t.aside : q.name = r.name => q = r BY <1>5, <1>8, <2>1 DEF Once
  <2>3. \A b, c \in Accounts, n \in Names : IsPark(t, b, n) /\ IsPark(t, c, n) => b = c
    BY <1>9 DEF Once
  <2>4. \A n \in Names : ~(IsParked(t, n) /\ Aside(t, n))
    <3> TAKE n \in Names
    <3>1. ASSUME IsParked(t, n), Aside(t, n) PROVE FALSE
      <4>1. PICK b \in Accounts : b \notin gone /\ IsPark(s, b, n) BY <3>1, <1>9 DEF IsParked
      <4>2. ~Aside(s, n) BY <4>1 DEF Once, IsParked
      <4>3. PICK c \in gone : IsPark(s, c, n) BY <3>1, <4>2, <1>10
      <4> QED BY <4>1, <4>3 DEF Once
    <3> QED BY <3>1
  <2>5. \A n \in Names : ~(IsParked(t, n) /\ Listed(t, n)) BY <1>9, <1>11 DEF Once, IsParked
  <2>6. \A n \in Names : ~(Aside(t, n) /\ Listed(t, n)) BY <1>10, <1>11 DEF Once, IsParked
  <2> QED BY <2>2, <2>3, <2>4, <2>5, <2>6 DEF Once
<1>14. \A n \in Names : Named(s, n) => Named(t, n)
  <2>1. \A n \in Names : IsParked(s, n) => IsParked(t, n) \/ Aside(t, n) BY <1>9, <1>10 DEF IsParked
  <2> QED BY <2>1, <1>10, <1>11, <1>12, NamedIs
<1> QED BY <1>5, <1>p, <1>13, <1>14

\* The login the app holds, filed under the person's word.
LEMMA EnrollInv ==
  ASSUME Inv, Enroll
  PROVE  Inv'
<1>i. TypeOK /\ Data BY DEF Inv
<1>p. pc = "enrol" BY DEF Enroll
<1>c. Moving = NoMove /\ run.who \in Accounts /\ run.session \in Sessions
  BY <1>p DEF Inv, RunInv, Ops
<1>s. saved \in Records BY <1>i DEF TypeOK
<1>a. PICK a : a = run.who OBVIOUS
<1>g. PICK added : added = [saved EXCEPT !.enrolled = @ \cup {a}] OBVIOUS
<1>d. PICK gone : gone = {b \in Accounts : /\ added.parked[b] # None
                                           /\ \/ added.parked[b].name = run.also
                                              \/ b = a /\ added.parked[b].login # run.session} OBVIOUS
<1>e. PICK u : u = [added EXCEPT
        !.parked = [b \in Accounts |-> IF b \in gone THEN None ELSE added.parked[b]],
        !.aside = @ \cup {[name |-> added.parked[b].name, account |-> b,
                           login |-> added.parked[b].login] : b \in gone}] OBVIOUS
<1>t. PICK t : t = [Identified(u, a, run.session) EXCEPT !.awaiting = None] OBVIOUS
<1>0. Commits(t, TRUE, End)
  <2> DEFINE Sup(r) == {b \in Accounts : /\ r.parked[b] # None
                                         /\ \/ r.parked[b].name = run.also
                                            \/ b = run.who /\ r.parked[b].login # run.session}
             add == [saved EXCEPT !.enrolled = @ \cup {run.who}]
             Put(r, g) == [r EXCEPT
               !.parked = [b \in Accounts |-> IF b \in g THEN None ELSE r.parked[b]],
               !.aside = @ \cup {[name |-> r.parked[b].name, account |-> b,
                                  login |-> r.parked[b].login] : b \in g}]
             put == Put(add, Sup(add))
             all == [Identified(put, run.who, run.session) EXCEPT !.awaiting = None]
  <2>1. Commits(all, TRUE, End) BY DEF Enroll
  <2>2. add = added BY <1>a, <1>g
  <2>3. Sup(add) = gone BY <2>2, <1>a, <1>d
  <2>4. put = u
    <3>1. u = Put(added, gone) BY <1>e
    <3> HIDE DEF Put, Sup, add
    <3> QED BY <3>1, <2>2, <2>3
  <2>5. all = t
    <3> HIDE DEF put
    <3> QED BY <2>4, <1>a, <1>t
  <2> HIDE DEF all
  <2> QED BY <2>1, <2>5, Zenon
<1>u. UNCHANGED <<root, pending, appOpen, issued, ended>> BY <1>0 DEF Commits, app
<1>1. CASE UNCHANGED <<saved, ran>> /\ End /\ (ForgetsLeft \/ UNCHANGED folders)
  BY <1>1, <1>u, CommitFails
<1>2. CASE saved' = t /\ End /\ ran' = FALSE /\ ForgetsLeft
  <2>0. a \in Accounts BY <1>a, <1>c
  <2>v. /\ added \in Records /\ added.parked = saved.parked /\ added.aside = saved.aside
        /\ added.discarded = saved.discarded /\ added.moving = saved.moving
        /\ added.enrolled = saved.enrolled \cup {a}
    BY <1>g, <1>s, <2>0 DEF Records
  <2>1. gone \in SUBSET Accounts /\ \A b \in gone : added.parked[b] # None BY <1>d
  <2>w. Once(added) /\ added.moving = NoMove
    BY <2>v, <1>i, <1>c, FilesIs DEF Data, Moving
  <2>x. u = Superseding(added, a, gone)
    <3>p. PICK p, r : /\ p = [b \in Accounts |-> IF b \in gone THEN None ELSE added.parked[b]]
                      /\ r = added.aside \cup {[name |-> added.parked[b].name, account |-> b,
                                                login |-> added.parked[b].login] : b \in gone} OBVIOUS
    <3>1. u = [added EXCEPT !.parked = p, !.aside = r] BY <1>e, <3>p
    <3>2. added.enrolled \cup {a} = added.enrolled BY <2>v
    <3>3. [added EXCEPT !.enrolled = added.enrolled \cup {a}, !.parked = p, !.aside = r] = u
      BY <3>1, <3>2, <2>v DEF Records
    <3> QED BY <3>3, <3>p DEF Superseding
  <2>2. /\ u \in Records /\ Once(u) /\ u.moving = NoMove
        /\ \A b \in Accounts : u.parked[b] = added.parked[b] \/ u.parked[b] = None
        /\ \A n \in Names : Named(added, n) => Named(u, n)
    BY <2>0, <2>1, <2>v, <2>w, <2>x, SupersededOf
  <2>q. PICK q, l : q = Identified(u, a, l) /\ l = run.session OBVIOUS
  <2>3. /\ q \in Records /\ q.parked = u.parked /\ q.aside = u.aside /\ q.discarded = u.discarded
        /\ q.moving = u.moving
    BY <2>0, <2>2, <2>q, <1>c, IdentifiedOf
  <2>4. t = [q EXCEPT !.awaiting = None] BY <1>t, <2>q
  <2>5. /\ t \in Records /\ t.parked = u.parked /\ t.aside = u.aside /\ t.discarded = u.discarded
        /\ t.moving = u.moving
    BY <2>3, <2>4 DEF Records
  <2>6. Once(t) BY <2>2, <2>5, FilesIs
  <2>7. \A n \in Names : Named(saved, n) => Named(t, n)
    <3> TAKE n \in Names
    <3>1. Named(saved, n) <=> Named(added, n) BY <2>v DEF Named, MoveHolds
    <3>2. Named(t, n) <=> Named(u, n) BY <2>5 DEF Named, MoveHolds
    <3> QED BY <3>1, <3>2, <2>2
  <2>8. \A n \in Names : Alike(n) BY <1>2, <1>i, ForgetsOf
  <2>9. Data'
    <3>1. \A b \in Accounts : t.parked[b] = saved.parked[b] \/ t.parked[b] = None BY <2>2, <2>5, <2>v
    <3>2. t.moving = NoMove BY <2>2, <2>5
    <3>3. saved' = t BY <1>2
    <3> QED BY <1>i, <1>c, <1>u, <2>5, <2>6, <2>7, <2>8, <3>1, <3>2, <3>3, FiledData
  <2>10. NoRun \in Runs BY DEF NoRun, Runs
  <2>11. RunInv' /\ pc' \in Steps /\ run' \in Runs BY <1>2, <2>10, EndKeeps DEF End, Steps
  <2>12. ForgetsLeft /\ ran' \in BOOLEAN /\ saved' \in Records BY <1>2, <2>5
  <2> QED BY <1>u, <2>9, <2>11, <2>12, CommitKeeps
<1> QED BY <1>0, <1>1, <1>2 DEF Commits

\* Each commit.
LEMMA CommitInv ==
  ASSUME Inv, Commit
  PROVE  Inv'
BY CommitLeaveInv, CommitArriveInv, UndoneInv, StartedInv, GivenUpInv, EnrollInv DEF Commit

\* An account forgotten: what held its logins is listed to be deleted.
LEMMA ForgetInv ==
  ASSUME Inv, Forget
  PROVE  Inv'
<1>i. TypeOK /\ Ops /\ Halves /\ Data BY DEF Inv, RunInv
<1>5. None \notin Commands \cup Rows \cup Stages BY NoneApart
<1>p. pc = "forget" BY DEF Forget
<1>c. Moving = NoMove /\ run.who \in Accounts /\ run.op = "forget" BY <1>p, <1>i DEF Ops
<1>s. saved \in Records BY <1>i DEF TypeOK
<1>u. UNCHANGED <<root, folders, pending, appOpen, issued, ran>>
  BY DEF Forget, app, Refused, disk
<1>1. CASE Refused /\ UNCHANGED ended
  BY <1>1, <1>u, Ends DEF Refused, disk
<1>2. CASE /\ saved' = Removed(saved, run.who)
           /\ pc' = "purge" /\ run' = [run EXCEPT !.half = "done"]
           /\ ended' = ended \cup {s \in Sessions : /\ Owner[s] = run.who
                                   /\ \E n \in Names : folders[n].has[Jar] = s}
  <2>a. PICK a : a = run.who OBVIOUS
  <2>0. a \in Accounts /\ saved.moving = NoMove /\ Once(saved) /\ saved' = Removed(saved, a)
    BY <1>2, <1>c, <1>i, <2>a DEF Data, Moving
  <2>1. /\ saved' \in Records /\ Once(saved') /\ saved'.moving = NoMove
        /\ saved'.parked[a] = None /\ \A b \in Accounts : b # a => saved'.parked[b] = saved.parked[b]
        /\ \A n \in Names : Named(saved, n) => Named(saved', n)
    <3>t. PICK t : t = Removed(saved, a) OBVIOUS
    <3>1. /\ t \in Records /\ Once(t) /\ t.moving = NoMove
          /\ t.parked[a] = None /\ \A b \in Accounts : b # a => t.parked[b] = saved.parked[b]
          /\ \A n \in Names : Named(saved, n) => Named(t, n)
      <4>1. a \in Accounts /\ saved \in Records /\ saved.moving = NoMove /\ Once(saved) BY <2>0, <1>s
      <4>2. Removes(saved, a, t) BY <4>1, <3>t, RemovedOf
      <4> QED BY <4>2 DEF Removes
    <3> QED BY <3>1, <3>t, <2>0
  <2>2. \A n \in Names : Alike(n) BY <1>u, <1>i, ForgetsOf
  <2>3. Data' BY <2>1, <2>2, <1>i, <1>c, <1>u, FiledData
  <2>r. PICK r : r = [run EXCEPT !.half = "done"] OBVIOUS
  <2>4. /\ r \in Runs /\ r.half = "done" /\ r.op = run.op /\ r.who = run.who /\ r.on = run.on
        /\ r.stopped = run.stopped /\ r.row = run.row
    BY <2>r, <1>i DEF TypeOK, Runs, Stages
  <2>5. run' = r /\ pc' = "purge" BY <1>2, <2>r
  <2>6. Moving' = NoMove BY <2>1 DEF Moving
  <2>7. Ops' BY <1>c, <1>p, <1>i, <1>5, <2>4, <2>5, <2>6 DEF Ops, Commands
  <2>8. Halves' BY <1>c, <1>5, <2>4, <2>5, <2>6 DEF Halves
  <2>9. RunInv' BY <2>5, <2>7, <2>8, PlainKeeps DEF Plain
  <2>10. ended' \in SUBSET Sessions BY <1>2, <1>i DEF TypeOK
  <2>11. TypeOK' BY <1>i, <1>u, <2>1, <2>4, <2>5, <2>10 DEF TypeOK, Steps
  <2> QED BY <2>3, <2>9, <2>11 DEF Inv
<1> QED BY <1>1, <1>2 DEF Forget

-----------------------------------------------------------------------------
(* The folders listed, deleted. *)

\* Folders deleted that no move holds and no account has: all else is as it was or given back.
LEMMA EmptyData ==
  ASSUME TypeOK, Data, NEW ns \in SUBSET Names, folders' = Emptying(ns),
         \A n \in ns : ~MoveHolds(saved, n) /\ ~IsParked(saved, n),
         UNCHANGED root, saved' \in Records, Once(saved'), Apart(saved'), saved'.moving = saved.moving,
         \A n \in Names \ ns : HoldsAnything(n) => Named(saved', n) \/ n \in pending',
         \A a \in Accounts :
           \/ saved'.parked[a] = saved.parked[a]
           \/ /\ saved'.parked[a] # None
              /\ Moving # NoMove => ~IsPark(saved, a, Moving.park)
              /\ saved'.parked[a].name \notin ns
              /\ Whole(saved'.parked[a].name, a, saved'.parked[a].login)
  PROVE  /\ Data'
         /\ folders' \in [Names -> Folders]
         /\ \A n \in Names : folders'[n].made \/ folders'[n] = NoFolder
<1>0. /\ \A n \in Names \ ns : folders'[n] = folders[n]
      /\ \A n \in ns : folders'[n] = NoFolder
  BY DEF Emptying
<1>n. \A i \in ItemSet : NoFolder.has[i] = None BY DEF NoFolder, Nothing
<1>1. JarsTyped' BY <1>0, <1>n, Constant DEF Data, JarsTyped, Jars
<1>2. /\ folders' \in [Names -> Folders]
      /\ \A n \in Names : folders'[n].made \/ folders'[n] = NoFolder
  BY <1>0, EmptyTyped DEF TypeOK, Emptying
<1>3. EveryFolderNamed'
  <2>1. \A n : Named(saved', n) <=> Named(saved, n)' BY DEF Named, MoveHolds
  <2>2. \A n \in ns : ~HoldsAnything(n)'
    <3>1. NoFolder.keys = {} BY DEF NoFolder
    <3> QED BY <1>0, <1>n, <3>1 DEF HoldsAnything, InFolder
  <2>3. \A n \in Names \ ns : HoldsAnything(n)' <=> HoldsAnything(n)
    BY <1>0 DEF HoldsAnything, InFolder
  <2> QED BY <2>1, <2>2, <2>3 DEF EveryFolderNamed
<1>4. Once(saved)' /\ Apart(saved)'
  BY DEF Once, Apart, IsPark, IsParked, Aside, Listed, MoveHolds
<1>5. MovePark'
  <2>1. CASE Moving = NoMove BY <2>1 DEF MovePark, Moving
  <2>2. CASE Moving # NoMove
    <3>1. Moving' = Moving BY DEF Moving
    <3>t. /\ Moving.park \in Names /\ Moving.who \in Accounts /\ Moving.login \in Sessions
      BY <2>2, MoveTyped
    <3>2. MoveHolds(saved, Moving.park) BY <2>2 DEF MoveHolds, Moving
    <3>3. folders'[Moving.park] = folders[Moving.park] BY <1>0, <3>2, <3>t
    <3>4. Moving.half = "arrive" => saved'.parked[Moving.who] = saved.parked[Moving.who]
      <4>1. ASSUME Moving.half = "arrive" PROVE IsPark(saved, Moving.who, Moving.park)
        <5>p. PICK p : p = [name |-> Moving.park, login |-> Moving.login] OBVIOUS
        <5>1. saved.parked[Moving.who] = p BY <4>1, <5>p, <2>2 DEF Data, MovePark
        <5>2. p # None /\ p.name = Moving.park BY <5>p, <3>t, NoneApart
        <5> QED BY <5>1, <5>2 DEF IsPark
      <4> QED BY <4>1, <2>2, <3>t
    <3> QED BY <2>2, <3>1, <3>3, <3>4 DEF Data, MovePark, NamedBy
  <2> QED BY <2>1, <2>2
<1>6. ParksWhole'
  <2>1. ASSUME NEW a \in Accounts, saved'.parked[a] # None, ~MoveHolds(saved', saved'.parked[a].name)
        PROVE  CanArrive(a)'
    <3> PICK n, l : n = saved'.parked[a].name /\ l = saved'.parked[a].login OBVIOUS
    <3>1. n \in Names BY <2>1 DEF Records
    <3>2. n \notin ns /\ Whole(n, a, l)
      <4>1. CASE saved'.parked[a] = saved.parked[a]
        <5>1. ~MoveHolds(saved, n) BY <2>1 DEF MoveHolds
        <5>2. CanArrive(a) BY <2>1, <4>1, <5>1 DEF Data, ParksWhole
        <5>3. Whole(n, a, l) BY <4>1, <5>2, CanArriveIs
        <5>4. IsParked(saved, n) BY <2>1, <4>1 DEF IsParked, IsPark
        <5> QED BY <5>3, <5>4
      <4> QED BY <4>1
    <3>3. folders'[n] = folders[n] BY <1>0, <3>1, <3>2
    <3>4. Whole(n, a, l)' BY <3>2, <3>3, WholeStays
    <3>5. CanArrive(a)' <=> saved'.parked[a] # None /\ Whole(n, a, l)' BY DEF CanArrive, Whole
    <3> QED BY <2>1, <3>4, <3>5
  <2>2. \A n : MoveHolds(saved', n) <=> MoveHolds(saved, n)' BY DEF MoveHolds
  <2> QED BY <2>1, <2>2 DEF ParksWhole
<1> QED BY <1>1, <1>2, <1>3, <1>4, <1>5, <1>6 DEF Data

\* A record some of whose folders to be deleted are no longer listed.
LEMMA UnlistedOf ==
  ASSUME NEW s \in Records, Once(s), Apart(s), NEW ds \in SUBSET s.discarded,
         NEW t, t = [s EXCEPT !.discarded = @ \ ds]
  PROVE  /\ t \in Records /\ Once(t) /\ Apart(t)
         /\ t.parked = s.parked /\ t.moving = s.moving
         /\ \A n \in Names : Named(s, n) /\ (\A d \in ds : d.name # n) => Named(t, n)
<1>1. /\ t \in Records /\ t.parked = s.parked /\ t.aside = s.aside /\ t.moving = s.moving
      /\ t.discarded = s.discarded \ ds
  BY DEF Records
<1>2. \A n \in Names : /\ IsParked(t, n) <=> IsParked(s, n)
                       /\ Aside(t, n) <=> Aside(s, n)
                       /\ MoveHolds(t, n) <=> MoveHolds(s, n)
                       /\ Listed(t, n) => Listed(s, n)
                       /\ Listed(s, n) /\ (\A d \in ds : d.name # n) => Listed(t, n)
                       /\ \A a \in Accounts : IsPark(t, a, n) <=> IsPark(s, a, n)
  BY <1>1 DEF IsParked, IsPark, Aside, MoveHolds, Listed
<1>3. Once(t) BY <1>1, <1>2 DEF Once
<1>4. Apart(t) BY <1>1, <1>2 DEF Apart
<1>5. \A n \in Names : Named(s, n) /\ (\A d \in ds : d.name # n) => Named(t, n) BY <1>2, NamedIs
<1> QED BY <1>1, <1>3, <1>4, <1>5

\* The folders listed are deleted: none is a park or what a move holds.
LEMMA PurgeInv ==
  ASSUME Inv, Purge
  PROVE  Inv'
<1>i. TypeOK /\ Ops /\ Halves /\ Data BY DEF Inv, RunInv
<1>p. pc = "purge" BY DEF Purge
<1>s. saved \in Records /\ Once(saved) /\ Apart(saved) BY <1>i DEF TypeOK, Data
<1>u. UNCHANGED <<root, pending, appOpen, issued, ended, ran>> BY DEF Purge, Still, app
<1>r. PICK ds : ds = Removable OBVIOUS
<1>n. PICK ns : ns = {d.name : d \in ds} OBVIOUS
<1>1. ds \in SUBSET saved.discarded BY <1>r DEF Removable
<1>2. ns \in SUBSET Names BY <1>1, <1>n, <1>s DEF Records
<1>3. \A n \in ns : ~MoveHolds(saved, n) /\ ~IsParked(saved, n)
  <2> TAKE n \in ns
  <2>1. Listed(saved, n) /\ n \in Names BY <1>1, <1>2, <1>n DEF Listed
  <2>2. MoveHolds(saved, n) => saved.moving # NoMove BY DEF MoveHolds
  <2> QED BY <2>1, <2>2, <1>s DEF Once, Apart
<1>4. \A n \in Names : HoldsAnything(n) => Named(saved, n) \/ n \in pending
  BY <1>i DEF Data, EveryFolderNamed
<1>5. /\ saved' \in Records /\ Data'
      /\ folders' \in [Names -> Folders]
      /\ \A n \in Names : folders'[n].made \/ folders'[n] = NoFolder
      /\ saved'.moving = saved.moving
  <2>1. CASE folders' = Emptying(ns) /\ saved' = [saved EXCEPT !.discarded = @ \ ds]
    <3>1. /\ saved' \in Records /\ Once(saved') /\ Apart(saved')
          /\ saved'.parked = saved.parked /\ saved'.moving = saved.moving
          /\ \A n \in Names : Named(saved, n) /\ (\A d \in ds : d.name # n) => Named(saved', n)
      BY <2>1, <1>1, <1>s, UnlistedOf
    <3>2. \A n \in Names \ ns : HoldsAnything(n) => Named(saved', n) \/ n \in pending'
      BY <1>4, <1>n, <1>u, <3>1
    <3> QED BY <1>i, <1>2, <1>3, <1>u, <2>1, <3>1, <3>2, EmptyData
  <2>2. CASE folders' = Emptying(ns) /\ UNCHANGED saved
    <3>1. \A n \in Names \ ns : HoldsAnything(n) => Named(saved', n) \/ n \in pending'
      BY <1>4, <1>u, <2>2
    <3>2. Once(saved') /\ Apart(saved') BY <1>s, <2>2
    <3> QED BY <1>i, <1>2, <1>3, <1>s, <1>u, <2>2, <3>1, <3>2, EmptyData
  <2>3. CASE UNCHANGED <<folders, saved>>
    BY <2>3, <1>i, <1>s, <1>u, SameData DEF TypeOK
  <2> QED BY <2>1, <2>2, <2>3, <1>r, <1>n DEF Purge
<1>6. RunInv' /\ pc' \in Steps /\ run' \in Runs
  <2>1. CASE run.half = "done"
    <3>1. pc' = "idle" /\ run' = NoRun BY <2>1 DEF Purge, End
    <3>2. NoRun \in Runs BY DEF NoRun, Runs
    <3> QED BY <3>1, <3>2, EndKeeps DEF Steps
  <2>2. CASE run.half # "done"
    <3>1. Continues BY <2>2 DEF Purge
    <3>2. Moving' = NoMove BY <2>2, <1>5, <1>p, <1>i DEF Ops, Moving
    <3> QED BY <1>i, <1>p, <2>2, <3>1, <3>2, ContinuesKeeps
  <2> QED BY <2>1, <2>2
<1>7. TypeOK' BY <1>5, <1>6, <1>u, <1>i DEF TypeOK
<1> QED BY <1>5, <1>6, <1>7 DEF Inv

-----------------------------------------------------------------------------
(* The names and the asides resolved. *)

\* A folder an account is given is whole.
LEMMA ClaimsWhole ==
  ASSUME TypeOK, NEW a \in Accounts, NEW ns \in SUBSET Names, NEW n \in Claims(a, ns)
  PROVE  Whole(n, a, folders[n].manifest.login) /\ HoldsAnything(n)
<1>1. /\ n \in Names /\ AgreesOn(n)
      /\ folders[n].made /\ folders[n].manifest # None
      /\ folders[n].manifest.account = a
  BY ClaimsOf
<1>2. Whole(n, a, folders[n].manifest.login) BY <1>1 DEF AgreesOn, Whole
<1>3. HoldsAnything(n) BY <1>1 DEF AgreesOn, HoldsAnything
<1> QED BY <1>2, <1>3

\* An account that takes a folder is not the one an arrive is of.
LEMMA TakersApart ==
  ASSUME NEW a \in Accounts, Takes(saved, a), Moving # NoMove
  PROVE  ~IsPark(saved, a, Moving.park)
BY DEF Takes, Gone, IsPark, MoveHolds, Moving

\* A record some of whose folders are given back, none of them emptied.
LEMMA GivenPark ==
  ASSUME TypeOK, NEW a \in Accounts, NEW ns \in SUBSET Names, Takes(saved, a), NEW n \in Claims(a, ns),
         NEW t, t.parked[a] = [name |-> n, login |-> folders[n].manifest.login]
  PROVE  /\ t.parked[a] # None
         /\ Moving # NoMove => ~IsPark(saved, a, Moving.park)
         /\ t.parked[a].name = n /\ HoldsAnything(n)
         /\ Whole(n, a, t.parked[a].login)
<1>1. n \in Names /\ folders[n].manifest.login \in Sessions BY ClaimsOf
<1>2. Whole(n, a, folders[n].manifest.login) /\ HoldsAnything(n) BY ClaimsWhole
<1>p. PICK p : p = [name |-> n, login |-> folders[n].manifest.login] OBVIOUS
<1>3. p # None /\ p.name = n /\ p.login = folders[n].manifest.login BY <1>1, <1>p, NoneApart
<1>4. t.parked[a] = p BY <1>p
<1> QED BY <1>2, <1>3, <1>4, TakersApart

\* The names that nothing names are resolved: what holds anything is named, the rest is gone.
LEMMA ResolvesInv ==
  ASSUME Inv, NEW names \in SUBSET Names, NEW next, Resolves(names, next), Still,
         \A n \in pending : ~Named(saved, n) => n \in names,
         \/ pc = "sweep" /\ next = "begin"
         \/ pc \in {"sweep", "reclaim"} /\ run.op = "repair" /\ next \in {"reclaim", "giveBack"}
  PROVE  Inv'
<1>i. TypeOK /\ Ops /\ Halves /\ Data BY DEF Inv, RunInv
<1>5. None \notin Commands \cup Rows \cup Stages BY NoneApart
<1>s. saved \in Records /\ Once(saved) /\ Apart(saved) BY <1>i DEF TypeOK, Data
<1>u. UNCHANGED <<root, appOpen, issued, ended, ran>> BY DEF Still, app
<1> PICK unread \in SUBSET {n \in names : folders[n].made} :
    LET todo    == {n \in names \ unread : ~Named(saved, n)}
        empties == {n \in todo : ~HoldsAnything(n)}
        s       == Resolved(saved, todo)
    IN \/ /\ folders' = Emptying(empties) /\ saved' = s /\ pending' = unread \cap pending
          /\ Goes(next) /\ IF unread = {} THEN Works ELSE Faults
       \/ /\ todo # {} /\ unread = {}
          /\ folders' = Emptying(empties) /\ saved' \in {saved, s} /\ UNCHANGED pending
          /\ End /\ Faults
  BY DEF Resolves
<1>t. PICK todo : todo = {n \in names \ unread : ~Named(saved, n)} OBVIOUS
<1>e. PICK empties : empties = {n \in todo : ~HoldsAnything(n)} OBVIOUS
<1>r. PICK s : s = Resolved(saved, todo) OBVIOUS
<1>0. /\ folders' = Emptying(empties)
      /\ \/ saved' = s /\ pending' = unread \cap pending /\ Goes(next)
         \/ saved' \in {saved, s} /\ pending' = pending /\ End
  BY <1>t, <1>e, <1>r
<1>1. todo \in SUBSET Names /\ empties \in SUBSET Names /\ \A n \in todo : ~Named(saved, n)
  BY <1>t, <1>e
<1>2. /\ s \in Records /\ Once(s) /\ Apart(s) /\ s.moving = saved.moving
      /\ \A a \in Accounts : s.parked[a] = saved.parked[a] \/
           (/\ Takes(saved, a)
            /\ \E n \in Claims(a, todo) :
                 s.parked[a] = [name |-> n, login |-> folders[n].manifest.login])
      /\ \A n \in Names : Named(saved, n) => Named(s, n)
      /\ \A n \in todo : HoldsAnything(n) => Named(s, n)
  <2>1. ResolvesTo(saved, todo, s) BY <1>i, <1>s, <1>1, <1>r, ResolvedOf
  <2> QED BY <2>1, Zenon DEF ResolvesTo
<1>3. \A n \in empties : ~MoveHolds(saved, n) /\ ~IsParked(saved, n) BY <1>1, <1>e, NamedIs
<1>4. \A n \in Names : HoldsAnything(n) => Named(saved, n) \/ n \in pending
  BY <1>i DEF Data, EveryFolderNamed
<1>6. \A a \in Accounts :
        \/ s.parked[a] = saved.parked[a]
        \/ /\ s.parked[a] # None
           /\ Moving # NoMove => ~IsPark(saved, a, Moving.park)
           /\ s.parked[a].name \notin empties
           /\ Whole(s.parked[a].name, a, s.parked[a].login)
  <2> TAKE a \in Accounts
  <2>1. ASSUME Takes(saved, a), NEW n \in Claims(a, todo),
               s.parked[a] = [name |-> n, login |-> folders[n].manifest.login]
        PROVE  /\ s.parked[a] # None
               /\ Moving # NoMove => ~IsPark(saved, a, Moving.park)
               /\ s.parked[a].name \notin empties
               /\ Whole(s.parked[a].name, a, s.parked[a].login)
    <3>1. /\ s.parked[a] # None
          /\ Moving # NoMove => ~IsPark(saved, a, Moving.park)
          /\ s.parked[a].name = n /\ HoldsAnything(n)
          /\ Whole(n, a, s.parked[a].login)
      BY <2>1, <1>i, <1>1, GivenPark
    <3> QED BY <3>1, <1>e
  <2> QED BY <2>1, <1>2
<1>7. /\ saved' \in Records /\ Data'
      /\ folders' \in [Names -> Folders]
      /\ \A n \in Names : folders'[n].made \/ folders'[n] = NoFolder
  <2>1. CASE saved' = s /\ pending' \in {unread \cap pending, pending}
    <3>1. \A n \in Names \ empties : HoldsAnything(n) => Named(saved', n) \/ n \in pending'
      <4> TAKE n \in Names \ empties
      <4> HAVE HoldsAnything(n)
      <4>1. CASE Named(saved, n) BY <4>1, <1>2, <2>1
      <4>2. CASE ~Named(saved, n)
        <5>1. n \in pending /\ n \in names BY <4>2, <1>4
        <5>2. CASE n \in unread BY <5>1, <5>2, <2>1
        <5>3. CASE n \notin unread
          <6>1. n \in todo BY <4>2, <5>1, <5>3, <1>t
          <6> QED BY <6>1, <1>2, <2>1
        <5> QED BY <5>2, <5>3
      <4> QED BY <4>1, <4>2
    <3> QED BY <1>0, <1>i, <1>1, <1>2, <1>3, <1>6, <1>u, <2>1, <3>1, EmptyData
  <2>2. CASE saved' = saved /\ pending' = pending
    <3>1. \A n \in Names \ empties : HoldsAnything(n) => Named(saved', n) \/ n \in pending'
      BY <1>4, <2>2
    <3>2. Once(saved') /\ Apart(saved') BY <1>s, <2>2
    <3> QED BY <1>0, <1>i, <1>s, <1>1, <1>3, <1>u, <2>2, <3>1, <3>2, EmptyData
  <2> QED BY <1>0, <2>1, <2>2
<1>m. Moving' = Moving BY <1>0, <1>2 DEF Moving
<1>8. RunInv' /\ pc' \in Steps /\ run' \in Runs
  <2>1. CASE End
    <3>2. NoRun \in Runs BY DEF NoRun, Runs
    <3> QED BY <2>1, <3>2, EndKeeps DEF End, Steps
  <2>2. CASE Goes(next)
    <3>1. pc' = next /\ run' = run BY <2>2 DEF Goes
    <3>2. Ops' BY <3>1, <1>i, <1>5 DEF Ops, Commands
    <3>3. Halves' BY <3>1, <1>i, <1>5, <1>m DEF Ops, Halves, Stages
    <3>4. pc' \in Plain /\ pc' \in Steps BY <3>1 DEF Plain, Steps
    <3> QED BY <3>1, <3>2, <3>3, <3>4, <1>i, PlainKeeps DEF TypeOK
  <2> QED BY <1>0, <2>1, <2>2
<1>9. pending' \subseteq Names
  <2>1. pending' = unread \cap pending \/ pending' = pending BY <1>0
  <2>2. pending \subseteq Names BY <1>i DEF TypeOK
  <2> QED BY <2>1, <2>2
<1>10. TypeOK' BY <1>7, <1>8, <1>9, <1>u, <1>i DEF TypeOK
<1> QED BY <1>7, <1>8, <1>10 DEF Inv

\* Names written down, swept.
LEMMA SweepInv ==
  ASSUME Inv, Sweep
  PROVE  Inv'
<1>1. pending \subseteq Names BY DEF Inv, TypeOK
<1>n. PICK names : names = {n \in pending : ~Named(saved, n)} OBVIOUS
<1>x. PICK next : next = IF run.op = "repair" /\ Moving = NoMove THEN "reclaim" ELSE "begin" OBVIOUS
<1>2. Resolves(names, next) /\ Still /\ pc = "sweep" BY <1>n, <1>x DEF Sweep
<1>3. names \in SUBSET Names /\ \A n \in pending : ~Named(saved, n) => n \in names BY <1>1, <1>n
<1>4. next = "begin" \/ (run.op = "repair" /\ next = "reclaim") BY <1>x
<1> QED BY <1>2, <1>3, <1>4, ResolvesInv

\* Every folder nothing names, reclaimed.
LEMMA ReclaimInv ==
  ASSUME Inv, Reclaim
  PROVE  Inv'
<1>1. pending \subseteq Names BY DEF Inv, TypeOK
<1>n. PICK names : names = {n \in Names : (n \in pending \/ folders[n].made) /\ ~Named(saved, n)} OBVIOUS
<1>2. Resolves(names, "giveBack") /\ Still /\ pc = "reclaim" BY <1>n DEF Reclaim
<1>3. names \in SUBSET Names /\ \A n \in pending : ~Named(saved, n) => n \in names BY <1>1, <1>n
<1>4. run.op = "repair" BY <1>2 DEF Inv, RunInv, Ops
<1> QED BY <1>2, <1>3, <1>4, ResolvesInv

\* What is set aside and can be told, given back.
LEMMA GiveBackAsidesInv ==
  ASSUME Inv, GiveBackAsides
  PROVE  Inv'
<1>i. TypeOK /\ Ops /\ Halves /\ Data BY DEF Inv, RunInv
<1>5. None \notin Commands \cup Rows \cup Stages BY NoneApart
<1>s. saved \in Records /\ Once(saved) /\ Apart(saved) BY <1>i DEF TypeOK, Data
<1>u. UNCHANGED <<root, folders, pending, appOpen, issued, ended, ran>>
  BY DEF GiveBackAsides, Still, app
<1>p. pc = "giveBack" /\ run.op = "repair" BY <1>i DEF GiveBackAsides, Ops
<1>1. CASE UNCHANGED saved /\ End BY <1>1, <1>u, Ends
<1>2. CASE /\ saved' = GivenBack(saved, {r.name : r \in saved.aside})
           /\ pc' = "purge" /\ run' = [run EXCEPT !.half = "done"]
  <2>n. PICK ns : ns = {r.name : r \in saved.aside} OBVIOUS
  <2>1. ns \in SUBSET Names /\ \A n \in ns : Aside(saved, n) BY <2>n, <1>s DEF Records, Aside
  <2>2. \A n \in ns : ~IsParked(saved, n) /\ ~Listed(saved, n) /\ ~MoveHolds(saved, n)
    BY <2>1, <1>s DEF Once, Apart, MoveHolds
  <2>t. PICK t : t = GivenBack(saved, ns) OBVIOUS
  <2>3. GivesBack(saved, ns, t) BY <2>1, <2>2, <2>t, <1>i, <1>s, GivenBackOf
  <2>4. /\ t \in Records /\ Once(t) /\ Apart(t) /\ t.moving = saved.moving
        /\ \A a \in Accounts : t.parked[a] = saved.parked[a] \/
             (/\ Takes(saved, a)
              /\ \E n \in Claims(a, ns) :
                   t.parked[a] = [name |-> n, login |-> folders[n].manifest.login])
        /\ \A n \in Names : Named(saved, n) => Named(t, n)
    BY <2>3, Zenon DEF GivesBack
  <2>v. saved' = t BY <1>2, <2>n, <2>t
  <2>5. \A a \in Accounts :
          \/ t.parked[a] = saved.parked[a]
          \/ /\ t.parked[a] # None
             /\ Moving # NoMove => ~IsPark(saved, a, Moving.park)
             /\ Whole(t.parked[a].name, a, t.parked[a].login)
    <3> TAKE a \in Accounts
    <3>1. ASSUME Takes(saved, a), NEW n \in Claims(a, ns),
                 t.parked[a] = [name |-> n, login |-> folders[n].manifest.login]
          PROVE  /\ t.parked[a] # None
                 /\ Moving # NoMove => ~IsPark(saved, a, Moving.park)
                 /\ t.parked[a].name = n
                 /\ Whole(n, a, t.parked[a].login)
      BY <3>1, <1>i, <2>1, GivenPark
    <3> QED BY <3>1, <2>4
  <2>6. Data'
    <3>1. folders' = Emptying({}) BY <1>u, <1>i DEF Emptying, TypeOK
    <3>2. \A n \in Names \ {} : HoldsAnything(n) => Named(saved', n) \/ n \in pending'
      BY <2>4, <2>v, <1>u, <1>i DEF Data, EveryFolderNamed
    <3>3. saved' \in Records /\ Once(saved') /\ Apart(saved') /\ saved'.moving = saved.moving
      BY <2>4, <2>v
    <3>4. \A a \in Accounts :
            \/ saved'.parked[a] = saved.parked[a]
            \/ /\ saved'.parked[a] # None
               /\ Moving # NoMove => ~IsPark(saved, a, Moving.park)
               /\ saved'.parked[a].name \notin {}
               /\ Whole(saved'.parked[a].name, a, saved'.parked[a].login)
      BY <2>5, <2>v
    <3> QED BY <1>i, <1>u, <3>1, <3>2, <3>3, <3>4, EmptyData
  <2>r. PICK r : r = [run EXCEPT !.half = "done"] OBVIOUS
  <2>7. /\ r \in Runs /\ r.half = "done" /\ r.op = run.op /\ r.who = run.who /\ r.on = run.on
        /\ r.stopped = run.stopped /\ r.row = run.row
    BY <2>r, <1>i DEF TypeOK, Runs, Stages
  <2>8. run' = r /\ pc' = "purge" BY <1>2, <2>r
  <2>9. Ops' BY <1>p, <1>i, <1>5, <2>7, <2>8 DEF Ops, Commands
  <2>10. Halves' BY <1>p, <1>5, <2>7, <2>8 DEF Halves
  <2>11. RunInv' BY <2>8, <2>9, <2>10, PlainKeeps DEF Plain
  <2>12. saved' \in Records BY <2>4, <2>v
  <2>13. TypeOK' BY <1>i, <1>u, <2>7, <2>8, <2>12 DEF TypeOK, Steps
  <2> QED BY <2>6, <2>11, <2>13 DEF Inv
<1> QED BY <1>1, <1>2 DEF GiveBackAsides

-----------------------------------------------------------------------------
(* The specification. *)

\* An instance starts with one login in use and one parked, whole.
LEMMA InitInv ==
  ASSUME Init
  PROVE  Inv
<1>a. PICK a, b : a = Owner[InUse] /\ b = Owner[Parked] OBVIOUS
<1>1. a \in Accounts /\ b \in Accounts /\ a # b /\ InUse \in Sessions /\ Parked \in Sessions
  BY <1>a, SessionsOwned, StartsWith
<1>2. 1 \in Names BY FolderBounds DEF Names
<1>k. PICK ka, kb : ka = [who |-> a, tok |-> "t1"] /\ kb = [who |-> b, tok |-> "t1"] OBVIOUS
<1>3. /\ ka \in Keys /\ kb \in Keys /\ kb # None /\ kb.who = b /\ NamedBy(kb) = b
  <2>1. ka \in [who : Accounts \cup {None}, tok : Tokens \cup {Emptied}]
        /\ kb \in [who : Accounts \cup {None}, tok : Tokens \cup {Emptied}]
    BY <1>k, <1>1 DEF Tokens
  <2>2. kb # None /\ kb.who = b BY <2>1, <1>k, NoneApart
  <2> QED BY <2>1, <2>2 DEF Keys, NamedBy
<1>h. PICK ha, hb : /\ ha = [i \in ItemSet |-> IF i = Jar THEN InUse ELSE a]
                    /\ hb = [i \in ItemSet |-> IF i = Jar THEN Parked ELSE b] OBVIOUS
<1>4. ha \in Holding /\ hb \in Holding /\ ha[Jar] = InUse /\ hb[Jar] = Parked
  BY <1>h, <1>1, Constant DEF Holding
<1>m. PICK m : m = [account |-> b, login |-> Parked, items |-> ItemSet, keys |-> kb, left |-> {}] OBVIOUS
<1>5. /\ m \in Manifests /\ m.account = b /\ m.login = Parked /\ m.items = ItemSet /\ m.keys = kb
  BY <1>m, <1>1, <1>3 DEF Manifests
<1>6. m # None BY <1>5, NoneApart
<1>f. PICK f : f = [made |-> TRUE, keys |-> {kb}, has |-> hb, manifest |-> m] OBVIOUS
<1>7. /\ f \in Folders /\ f.made /\ f.keys = {kb} /\ f.has = hb /\ f.manifest = m
  BY <1>f, <1>3, <1>4, <1>5 DEF Folders
<1>p. PICK p : p = [name |-> 1, login |-> Parked] OBVIOUS
<1>8. p \in [name : Names, login : Sessions] /\ p # None /\ p.name = 1 /\ p.login = Parked
  <2>1. p \in [name : Names, login : Sessions] BY <1>p, <1>1, <1>2
  <2> QED BY <2>1, <1>p, NoneApart
<1>r. PICK parked : parked = [o \in Accounts |-> IF o = b THEN p ELSE None] OBVIOUS
<1>u. PICK use : use = [who |-> a, login |-> InUse] OBVIOUS
<1>0. /\ root = [has |-> ha, keys |-> ka]
      /\ folders = [n \in Names |-> IF n = 1 THEN f ELSE NoFolder]
      /\ saved = [enrolled |-> {a, b}, parked |-> parked, aside |-> {}, discarded |-> {},
                  inUse |-> use, moving |-> NoMove, awaiting |-> None]
      /\ pending = {} /\ appOpen = FALSE /\ pc = "idle" /\ run = NoRun
      /\ issued = {InUse, Parked} /\ ended = {} /\ ran = FALSE
  BY <1>a, <1>k, <1>h, <1>m, <1>f, <1>p, <1>r, <1>u DEF Init
<1>9. saved \in Records
  <2>1. parked \in [Accounts -> [name : Names, login : Sessions] \cup {None}] BY <1>r, <1>8
  <2>2. use \in [who : Accounts \cup {None}, login : Sessions \cup {None}] BY <1>u, <1>1
  <2>3. {a, b} \in SUBSET Accounts BY <1>1
  <2> QED BY <1>0, <2>1, <2>2, <2>3 DEF Records
<1>10. /\ saved.parked = parked /\ saved.aside = {} /\ saved.discarded = {} /\ saved.moving = NoMove
  BY <1>0
<1>11. folders[1] = f /\ \A n \in Names : n # 1 => folders[n] = NoFolder BY <1>0, <1>2
<1>12. TypeOK
  <2>1. root \in [has : Holding, keys : Keys] BY <1>0, <1>3, <1>4
  <2>2. folders \in [Names -> Folders] BY <1>0, <1>7, EmptyTyped
  <2>3. \A n \in Names : folders[n].made \/ folders[n] = NoFolder BY <1>7, <1>11
  <2>4. NoRun \in Runs BY DEF NoRun, Runs
  <2>5. issued \subseteq Sessions /\ ended \subseteq Sessions BY <1>0, <1>1
  <2> QED BY <1>0, <1>9, <2>1, <2>2, <2>3, <2>4, <2>5 DEF TypeOK, Steps
<1>13. \A o \in Accounts, n \in Names : IsPark(saved, o, n) <=> o = b /\ n = 1
  BY <1>1, <1>8, <1>10, <1>r DEF IsPark
<1>14. \A n \in Names : ~Aside(saved, n) /\ ~Listed(saved, n) BY <1>10 DEF Aside, Listed
<1>15. Once(saved) BY <1>10, <1>13, <1>14 DEF Once
<1>16. Apart(saved) BY <1>10 DEF Apart
<1>17. JarsTyped
  <2>1. root.has[Jar] = InUse BY <1>0, <1>4
  <2>2. NoFolder.has[Jar] = None BY Constant DEF NoFolder, Nothing
  <2> QED BY <2>1, <2>2, <1>1, <1>4, <1>7, <1>11 DEF JarsTyped, Jars
<1>18. EveryFolderNamed
  <2>1. \A n \in Names : n # 1 => ~HoldsAnything(n)
    BY <1>11 DEF HoldsAnything, InFolder, NoFolder, Nothing
  <2>2. Named(saved, 1) BY <1>1, <1>2, <1>13, NamedIs DEF IsParked
  <2> QED BY <2>1, <2>2 DEF EveryFolderNamed
<1>19. MovePark BY <1>10 DEF MovePark, Moving
<1>20. ParksWhole
  <2>1. HeldItems(1, ItemSet) = ItemSet
    <3>1. \A i \in ItemSet : hb[i] # None
      <4>1. Parked # None /\ b # None BY <1>1, SessionsApart, NoneApart
      <4> QED BY <4>1, <1>h
    <3> QED BY <3>1, <1>7, <1>11 DEF HeldItems, InFolder
  <2>2. Whole(1, b, Parked)
    BY <2>1, <1>3, <1>4, <1>5, <1>6, <1>7, <1>11 DEF Whole
  <2>3. saved.parked[b] = p /\ \A o \in Accounts : o # b => saved.parked[o] = None
    BY <1>1, <1>10, <1>r
  <2>4. CanArrive(b) BY <2>2, <2>3, <1>8, CanArriveIs
  <2> QED BY <2>3, <2>4 DEF ParksWhole
<1>21. Data BY <1>15, <1>16, <1>17, <1>18, <1>19, <1>20 DEF Data
<1>22. RunInv
  <2>1. pc = "idle" /\ run = NoRun BY <1>0
  <2>2. /\ NoRun.op = None /\ NoRun.half = None /\ NoRun.row = None /\ NoRun.on = "forward"
        /\ NoRun.stopped = FALSE
    BY DEF NoRun
  <2>3. None \notin Commands \cup Rows \cup Stages BY NoneApart
  <2>4. Ops BY <2>1, <2>2, <2>3 DEF Ops, Commands
  <2>5. Halves BY <2>1, <2>2, <2>3 DEF Halves, Stages
  <2>6. SwitchPark BY <2>1, <2>2, <2>3 DEF SwitchPark, Doing, Fallible
  <2>7. Reserving /\ Building /\ RowInv /\ Committing
    BY <2>1 DEF Reserving, Building, RowInv, Committing, Doing, Fallible
  <2> QED BY <2>4, <2>5, <2>6, <2>7 DEF RunInv
<1> QED BY <1>12, <1>21, <1>22 DEF Inv

\* Nothing changed.
LEMMA StutterInv ==
  ASSUME Inv, UNCHANGED vars
  PROVE  Inv'
<1>1. UNCHANGED <<root, folders, saved, pending, appOpen, pc, run, issued, ended, ran>>
  BY DEF vars, disk, app
<1>2. TypeOK' BY <1>1 DEF Inv, TypeOK
<1>3. Data' BY <1>1, SameData DEF Inv
<1>4. RunInv' BY <1>1, RunStands DEF Inv
<1> QED BY <1>2, <1>3, <1>4 DEF Inv

\* Every step of a run, of the app and of the machine keeps it.
LEMMA NextInv ==
  ASSUME Inv, [Next]_vars
  PROVE  Inv'
<1>1. CASE \E op \in Commands, who \in Accounts \cup {None} : Start(op, who) BY <1>1, StartInv
<1>2. CASE Working
  BY <1>2, SweepInv, BeginInv, SettleInv, LookInv, ReserveInv, RecordInv, WorkStepInv, StepFailsInv,
     MidwayInv, ListLeftInv, HoldInv, CommitInv, PurgeInv, GiveUpInv, ForgetInv, ReclaimInv,
     GiveBackAsidesInv DEF Working
<1>3. CASE App BY <1>3, AppInv
<1>4. CASE Crash BY <1>4, CrashInv
<1>5. CASE UNCHANGED vars BY <1>5, StutterInv
<1> QED BY <1>1, <1>2, <1>3, <1>4, <1>5 DEF Next

\* The inductive invariant holds of every behaviour of the program.
THEOREM InvHolds == Spec => []Inv
<1>1. Init => Inv BY InitInv
<1>2. Inv /\ [Next]_vars => Inv' BY NextInv
<1> QED BY <1>1, <1>2, PTL DEF Spec

\* The record and the disk keep their types (state.rs, switch/folder).
THEOREM TypeCorrect == Spec => []TypeOK
<1>1. Inv => TypeOK BY DEF Inv
<1> QED BY <1>1, InvHolds, PTL

\* Wherever a run fails or dies, a park the record gives an account can be put back (park.rs).
THEOREM ParksAreWhole == Spec => []ParksWhole
<1>1. Inv => ParksWhole BY DEF Inv, Data
<1> QED BY <1>1, InvHolds, PTL

\* Wherever a run fails or dies, a folder that holds part of a login is named (pending.rs).
THEOREM FoldersAreNamed == Spec => []EveryFolderNamed
<1>1. Inv => EveryFolderNamed BY DEF Inv, Data
<1> QED BY <1>1, InvHolds, PTL

-----------------------------------------------------------------------------
(* What a run does to the items. *)

\* Each item where it was.
Stay(i) == /\ root'.has[i] # None <=> root.has[i] # None
           /\ \A n \in Names : folders'[n].has[i] # None <=> folders[n].has[i] # None

\* What a run's step may do to an item: move it, or delete it with a folder that is forgotten.
Keeps(i) == \/ Cardinality(Places(i)') = Cardinality(Places(i))
            \/ \A n \in Places(i) \ Places(i)' : \E d \in saved.discarded : d.name = n /\ d.forgotten

\* An item that stays is in as many places.
LEMMA StaysKept ==
  ASSUME NEW i, Stay(i)
  PROVE  Keeps(i)
<1>1. Places(i)' = Places(i) BY DEF Stay, Places, InFolder, InRoot
<1> QED BY <1>1 DEF Keeps

\* Folders written that hold what they held.
LEMMA HoldSame ==
  ASSUME root'.has = root.has, \A n \in Names : folders'[n].has = folders[n].has
  PROVE  \A i \in ItemSet : Keeps(i)
<1>1. \A i \in ItemSet : Stay(i) BY DEF Stay
<1> QED BY <1>1, StaysKept

\* Nothing written.
LEMMA NothingMoves ==
  ASSUME UNCHANGED <<root, folders>>
  PROVE  \A i \in ItemSet : Keeps(i)
BY HoldSame

\* The places are finitely many.
LEMMA PlacesFinite ==
  ASSUME NEW i
  PROVE  IsFiniteSet(Places(i))
<1>1. IsFiniteSet(Names) BY FolderBounds, FS_Interval DEF Names
<1>2. IsFiniteSet(Names \cup {0}) BY <1>1, FS_AddElement
<1>3. Places(i) \subseteq Names \cup {0} BY DEF Places
<1> QED BY <1>2, <1>3, FS_Subset

\* An element for another: as many.
LEMMA OneForOne ==
  ASSUME NEW S, IsFiniteSet(S), NEW a \in S, NEW b, b \notin S, NEW T, T = (S \ {a}) \cup {b}
  PROVE  Cardinality(T) = Cardinality(S)
<1>1. IsFiniteSet(S \ {a}) /\ Cardinality(S \ {a}) = Cardinality(S) - 1 BY FS_RemoveElement
<1>2. Cardinality(T) = Cardinality(S \ {a}) + 1 BY <1>1, FS_AddElement
<1>3. Cardinality(S) \in Nat BY FS_CardinalityType
<1> QED BY <1>1, <1>2, <1>3

\* One folder written, of what it held.
LEMMA WrittenKept ==
  ASSUME TypeOK, NEW n \in Names, NEW f, f.has = folders[n].has, folders' = [folders EXCEPT ![n] = f],
         root'.has = root.has
  PROVE  \A i \in ItemSet : Keeps(i)
<1>1. \A o \in Names : folders'[o].has = folders[o].has BY DEF TypeOK
<1> QED BY <1>1, HoldSame

\* An item moved out of the app's folder, or in, is in the other place.
LEMMA MovedKept ==
  ASSUME NEW n \in Names, NEW i \in ItemSet,
         \A j \in ItemSet \ {i} : Stay(j),
         \A o \in Names : o # n => (folders'[o].has[i] # None <=> folders[o].has[i] # None),
         \/ root.has[i] # None /\ root'.has[i] = None /\ folders[n].has[i] = None /\ folders'[n].has[i] # None
         \/ root.has[i] = None /\ root'.has[i] # None /\ folders[n].has[i] # None /\ folders'[n].has[i] = None
  PROVE  \A j \in ItemSet : Keeps(j)
<1> TAKE j \in ItemSet
<1>1. CASE j # i BY <1>1, StaysKept
<1>2. CASE j = i
  <2> PICK S, T : S = Places(i) /\ T = Places(i)' OBVIOUS
  <2>f. IsFiniteSet(S) BY PlacesFinite
  <2>z. 0 # n /\ 0 \notin Names BY DEF Names
  <2>s. S = {o \in Names : folders[o].has[i] # None} \cup (IF root.has[i] # None THEN {0} ELSE {})
    BY DEF Places, InFolder, InRoot
  <2>t. T = {o \in Names : folders'[o].has[i] # None} \cup (IF root'.has[i] # None THEN {0} ELSE {})
    BY DEF Places, InFolder, InRoot
  <2>1. CASE root.has[i] # None /\ root'.has[i] = None /\ folders[n].has[i] = None /\ folders'[n].has[i] # None
    <3>1. T = (S \ {0}) \cup {n} BY <2>1, <2>z, <2>s, <2>t
    <3>2. 0 \in S /\ n \notin S BY <2>1, <2>z, <2>s
    <3>3. Cardinality(T) = Cardinality(S) BY <2>f, <3>1, <3>2, OneForOne
    <3> QED BY <3>3, <1>2 DEF Keeps
  <2>2. CASE root.has[i] = None /\ root'.has[i] # None /\ folders[n].has[i] # None /\ folders'[n].has[i] = None
    <3>1. T = (S \ {n}) \cup {0} BY <2>2, <2>z, <2>s, <2>t
    <3>2. n \in S /\ 0 \notin S BY <2>2, <2>z, <2>s
    <3>3. Cardinality(T) = Cardinality(S) BY <2>f, <3>1, <3>2, OneForOne
    <3> QED BY <3>3, <1>2 DEF Keeps
  <2> QED BY <2>1, <2>2
<1> QED BY <1>1, <1>2

\* Items moved, one at a time: never over another.
LEMMA MovesKept ==
  ASSUME Inv, MoveOut \/ MoveIn
  PROVE  \A i \in ItemSet : Keeps(i)
<1>i. TypeOK BY DEF Inv
<1>q. root \in [has : Holding, keys : Keys] /\ run.items \in SUBSET ItemSet BY <1>i DEF TypeOK, Runs
<1>1. CASE UNCHANGED <<root, folders>> BY <1>1, NothingMoves
<1>2. CASE MoveOut /\ ~(UNCHANGED <<root, folders>>)
  <2> PICK n, i : n = run.to /\ i = First(run.items) OBVIOUS
  <2>0. /\ run.items # {} /\ InRoot(i) /\ ~InFolder(n, i)
        /\ folders' = [folders EXCEPT ![n].has[i] = root.has[i]]
        /\ root' = [root EXCEPT !.has[i] = None]
    BY <1>2 DEF MoveOut, Unmoved, disk
  <2>1. n \in Names /\ i \in ItemSet
    <3>1. pc = "out" BY <1>2 DEF MoveOut
    <3> QED BY <1>q, <2>0, <3>1, FirstIs, OutWhere
  <2>g. PICK g, v : g = folders[n] /\ v = root.has[i] OBVIOUS
  <2>f. PICK f : f = [g EXCEPT !.has[i] = v] OBVIOUS
  <2>2. g \in Folders BY <2>1, <2>g, <1>i DEF TypeOK
  <2>3. f.has = [g.has EXCEPT ![i] = v] /\ g.has \in Holding BY <2>2, <2>f DEF Folders
  <2>4. folders' = [folders EXCEPT ![n] = f] BY <2>0, <2>f, <2>g
  <2>5. folders'[n] = f /\ \A o \in Names : o # n => folders'[o] = folders[o]
    BY <2>1, <2>4, <1>i DEF TypeOK
  <2>6. root'.has = [root.has EXCEPT ![i] = None] /\ root.has \in Holding BY <2>0, <1>q
  <2>7. \A j \in ItemSet \ {i} : Stay(j) BY <2>3, <2>5, <2>6, <2>g DEF Stay, Holding
  <2>8. /\ root.has[i] # None /\ root'.has[i] = None /\ folders[n].has[i] = None /\ folders'[n].has[i] # None
    BY <2>0, <2>1, <2>3, <2>5, <2>6, <2>g DEF Holding, InRoot, InFolder
  <2> QED BY <2>1, <2>5, <2>7, <2>8, MovedKept
<1>3. CASE MoveIn /\ ~(UNCHANGED <<root, folders>>)
  <2> PICK n, i : n = Moving.park /\ i = Final(run.items) OBVIOUS
  <2>0. /\ run.items # {} /\ ~InRoot(i) /\ InFolder(n, i)
        /\ root' = [root EXCEPT !.has[i] = folders[n].has[i]]
        /\ folders' = [folders EXCEPT ![n].has[i] = None]
    BY <1>3 DEF MoveIn, Unmoved, disk
  <2>1. n \in Names /\ i \in ItemSet
    <3>1. pc = "in" /\ pc \in Doing BY <1>3 DEF MoveIn, Doing, Fallible
    <3>2. Moving # NoMove
      BY <3>1, RowAt DEF Rows, OfLeave, OfArrive, OfKeysBack, OfLeaveOn, OfBack, OfGiveUp, OfKeysAside, OfStart
    <3> QED BY <1>i, <1>q, <2>0, <3>2, FirstIs, MoveTyped
  <2>g. PICK g, v : g = folders[n] /\ v = folders[n].has[i] OBVIOUS
  <2>f. PICK f : f = [g EXCEPT !.has[i] = None] OBVIOUS
  <2>2. g \in Folders BY <2>1, <2>g, <1>i DEF TypeOK
  <2>3. f.has = [g.has EXCEPT ![i] = None] /\ g.has \in Holding BY <2>2, <2>f DEF Folders
  <2>4. folders' = [folders EXCEPT ![n] = f] BY <2>0, <2>f, <2>g
  <2>5. folders'[n] = f /\ \A o \in Names : o # n => folders'[o] = folders[o]
    BY <2>1, <2>4, <1>i DEF TypeOK
  <2>6. root'.has = [root.has EXCEPT ![i] = v] /\ root.has \in Holding BY <2>0, <2>g, <1>q
  <2>7. \A j \in ItemSet \ {i} : Stay(j) BY <2>3, <2>5, <2>6, <2>g DEF Stay, Holding
  <2>8. /\ root.has[i] = None /\ root'.has[i] # None /\ folders[n].has[i] # None /\ folders'[n].has[i] = None
    BY <2>0, <2>1, <2>3, <2>5, <2>6, <2>g DEF Holding, InRoot, InFolder
  <2> QED BY <2>1, <2>5, <2>7, <2>8, MovedKept
<1> QED BY <1>1, <1>2, <1>3

-----------------------------------------------------------------------------
(* A move's steps move items. *)

\* A park whose manifest comes to list what it holds.
LEMMA HoldsKept ==
  ASSUME TypeOK, Moving # NoMove, HoldsWhatIsThere(Moving.park, Moving.items), UNCHANGED root
  PROVE  \A i \in ItemSet : Keeps(i)
<1> PICK n, g, is : n = Moving.park /\ g = folders[n] /\ is = HeldItems(Moving.park, Moving.items) OBVIOUS
<1>1. n \in Names /\ g \in Folders BY MoveTyped DEF TypeOK
<1> PICK f : f = [g EXCEPT !.manifest.items = is] OBVIOUS
<1>2. f.has = g.has BY <1>1 DEF Folders
<1>3. folders' = [folders EXCEPT ![n] = f] BY DEF HoldsWhatIsThere
<1> QED BY <1>1, <1>2, <1>3, WrittenKept

\* The other steps of a move: what a folder holds is not written by them.
LEMMA WorkStepKept ==
  ASSUME Inv, WorkStep
  PROVE  \A i \in ItemSet : Keeps(i)
<1>i. TypeOK BY DEF Inv
<1>1. CASE MoveOut \/ MoveIn BY <1>1, MovesKept
<1>2. CASE Make
  <2>1. pc = "make" BY <1>2 DEF Make
  <2> PICK n : n = run.name OBVIOUS
  <2>2. n \in Names BY <2>1 DEF Inv, RunInv, Building
  <2>3. CASE UNCHANGED <<root, folders>> BY <2>3, NothingMoves
  <2>4. CASE ~folders[n].made /\ InFolders(n, [NoFolder EXCEPT !.made = TRUE])
    <3>f. PICK f : f = [NoFolder EXCEPT !.made = TRUE] OBVIOUS
    <3>1. f.has = NoFolder.has BY <3>f DEF NoFolder
    <3>2. folders[n] = NoFolder BY <2>2, <2>4, <1>i, NotMade
    <3>3. folders' = [folders EXCEPT ![n] = f] /\ root' = root BY <2>4, <3>f DEF InFolders
    <3> QED BY <1>i, <2>2, <3>1, <3>2, <3>3, WrittenKept
  <2> QED BY <1>2, <2>3, <2>4 DEF Make, Unmoved, disk
<1>3. CASE WriteManifest \/ WriteKeys
  <2>1. pc \in {"manifest", "keys"} BY <1>3 DEF WriteManifest, WriteKeys
  <2> PICK n, g, k : n = run.name /\ g = folders[n] /\ k = run.kept OBVIOUS
  <2>2. n \in Names /\ g \in Folders BY <2>1, <1>i DEF Inv, RunInv, Building, TypeOK
  <2> PICK f : f = IF WriteManifest THEN [g EXCEPT !.manifest = k] ELSE [g EXCEPT !.keys = {k.keys}] OBVIOUS
  <2>3. f.has = g.has BY <2>2 DEF Folders
  <2>4. folders' = [folders EXCEPT ![n] = f] /\ root' = root BY <1>3 DEF WriteManifest, WriteKeys, InFolders
  <2> QED BY <1>i, <2>2, <2>3, <2>4, WrittenKept
<1>4. CASE ClearKeys \/ PutKeys
  <2>1. root'.has = root.has BY <1>4, <1>i DEF ClearKeys, PutKeys, TypeOK
  <2>2. UNCHANGED folders BY <1>4 DEF ClearKeys, PutKeys, disk
  <2> QED BY <2>1, <2>2, HoldSame
<1>5. CASE HeldKeys \/ KeepSettings \/ SetAside \/ FinishAside \/ VerifyArrived
  <2>1. UNCHANGED <<root, folders>>
    BY <1>5 DEF HeldKeys, KeepSettings, SetAside, FinishAside, VerifyArrived, Unmoved, disk
  <2> QED BY <2>1, NothingMoves
<1>6. CASE ForgetLeft
  <2>1. \A n \in Names : Alike(n) BY <1>6, <1>i, ForgetsOf DEF ForgetLeft
  <2>2. root' = root BY <1>6 DEF ForgetLeft
  <2> QED BY <2>1, <2>2, HoldSame DEF Alike
<1>7. CASE Verify
  <2>1. CASE UNCHANGED <<root, folders>> BY <2>1, NothingMoves
  <2>2. CASE HoldsWhatIsThere(Moving.park, Moving.items) /\ UNCHANGED root
             /\ folders[Moving.park].manifest # None
    <3>1. Moving # NoMove
      <4>1. pc = "verify" /\ pc \in Doing BY <1>7 DEF Verify, Doing, Fallible
      <4> QED BY <4>1, RowAt DEF Rows, OfLeave, OfArrive, OfKeysBack, OfLeaveOn, OfBack, OfGiveUp,
                                 OfKeysAside, OfStart
    <3> QED BY <1>i, <2>2, <3>1, HoldsKept
  <2> QED BY <1>7, <2>1, <2>2 DEF Verify, Unmoved, disk
<1> QED BY <1>1, <1>2, <1>3, <1>4, <1>5, <1>6, <1>7 DEF WorkStep

-----------------------------------------------------------------------------
(* The deletes, and every step of a run. *)

\* A give-up's writes.
LEMMA GivesUpKept ==
  ASSUME Inv, ListLeft \/ Hold
  PROVE  \A i \in ItemSet : Keeps(i)
<1>i. TypeOK BY DEF Inv
<1>d. pc \in {"left", "hold"} /\ pc \in Doing BY DEF ListLeft, Hold, Doing, Fallible
<1>m. Moving # NoMove
  BY <1>d, RowAt DEF Rows, OfLeave, OfArrive, OfKeysBack, OfLeaveOn, OfBack, OfGiveUp, OfKeysAside, OfStart, Built
<1>1. CASE UNCHANGED <<root, folders>> BY <1>1, NothingMoves
<1>2. CASE HoldsWhatIsThere(Moving.park, Moving.items) /\ UNCHANGED root BY <1>2, <1>i, <1>m, HoldsKept
<1>3. CASE \E f : /\ f = [folders[Moving.park] EXCEPT !.manifest.left = run.list]
                  /\ InFolders(Moving.park, f)
  <2> PICK n, g, l : n = Moving.park /\ g = folders[n] /\ l = run.list OBVIOUS
  <2>1. PICK f : f = [g EXCEPT !.manifest.left = l] /\ folders' = [folders EXCEPT ![n] = f] /\ root' = root
    BY <1>3 DEF InFolders
  <2>2. n \in Names /\ g \in Folders BY <1>i, <1>m, MoveTyped DEF TypeOK
  <2>3. f.has = g.has BY <2>1, <2>2 DEF Folders
  <2> QED BY <1>i, <2>1, <2>2, <2>3, WrittenKept
<1>4. ListLeft => (\E f : /\ f = [folders[Moving.park] EXCEPT !.manifest.left = run.list]
                          /\ InFolders(Moving.park, f)) \/ UNCHANGED <<root, folders>>
  BY DEF ListLeft, Unmoved, disk
<1>5. Hold => (HoldsWhatIsThere(Moving.park, Moving.items) /\ UNCHANGED root) \/ UNCHANGED <<root, folders>>
  BY DEF Hold
<1> QED BY <1>1, <1>2, <1>3, <1>4, <1>5

\* The saves: at most a list in a manifest is written.
LEMMA CommitKept ==
  ASSUME Inv, Commit
  PROVE  \A i \in ItemSet : Keeps(i)
<1>1. root' = root /\ (ForgetsLeft \/ UNCHANGED folders)
  BY DEF Commit, CommitLeave, CommitArrive, Undone, Started, GivenUp, Enroll, Commits
<1>2. \A n \in Names : Alike(n) BY <1>1, ForgetsOf DEF Inv
<1> QED BY <1>1, <1>2, HoldSame DEF Alike

\* Names resolved: what is deleted held nothing.
LEMMA ResolvesKept ==
  ASSUME NEW names, NEW next, Resolves(names, next), Still
  PROVE  \A i \in ItemSet : Keeps(i)
<1>1. \E ns : /\ \A n \in ns : ~HoldsAnything(n)
              /\ folders' = Emptying(ns)
  BY DEF Resolves
<1>2. PICK ns : /\ \A n \in ns : ~HoldsAnything(n)
                /\ folders' = Emptying(ns)
  BY <1>1
<1>3. \A n \in Names : folders'[n] = IF n \in ns THEN NoFolder ELSE folders[n] BY <1>2 DEF Emptying
<1>4. \A i \in ItemSet : NoFolder.has[i] = None BY DEF NoFolder, Nothing
<1>5. \A n \in Names, i \in ItemSet : folders'[n].has[i] # None <=> folders[n].has[i] # None
  BY <1>2, <1>3, <1>4 DEF HoldsAnything, InFolder
<1>6. root' = root BY DEF Still
<1> QED BY <1>5, <1>6, StaysKept DEF Stay

\* Folders listed deleted: one that holds an item is listed as forgotten.
LEMMA PurgeKept ==
  ASSUME TypeOK, Purge
  PROVE  \A i \in ItemSet : Keeps(i)
<1>1. root' = root BY DEF Purge, Still
<1>2. CASE UNCHANGED folders BY <1>1, <1>2, NothingMoves
<1>3. CASE folders' = Emptying({d.name : d \in Removable})
  <2> TAKE i \in ItemSet
  <2>n. \A n \in Names : folders'[n] = IF n \in {d.name : d \in Removable} THEN NoFolder ELSE folders[n]
    BY <1>3 DEF Emptying
  <2>1. CASE \E n \in Places(i) \ Places(i)' : ~\E d \in saved.discarded : d.name = n /\ d.forgotten
    <3>1. PICK n \in Places(i) \ Places(i)' : ~\E d \in saved.discarded : d.name = n /\ d.forgotten BY <2>1
    <3>2. n \in Names /\ folders[n].has[i] # None /\ ~(folders'[n].has[i] # None)
      BY <1>1, <3>1 DEF Places, InFolder, InRoot
    <3>3. PICK d \in Removable : d.name = n BY <2>n, <3>2
    <3>4. d \in saved.discarded /\ ~d.forgotten BY <3>1, <3>3 DEF Removable
    <3> QED BY <3>2, <3>3, <3>4 DEF Removable, InFolder
  <2> QED BY <2>1 DEF Keeps
<1> QED BY <1>2, <1>3 DEF Purge

\* Every step of a run.
LEMMA RunsKeep ==
  ASSUME Inv, [Next]_vars
  PROVE  OfRuns(\A i \in ItemSet : Keeps(i))
<1> SUFFICES ASSUME appOpen' = appOpen, pc # "idle"
             PROVE  \A i \in ItemSet : Keeps(i)
  BY DEF OfRuns
<1>i. TypeOK BY DEF Inv
<1>1. CASE Sweep BY <1>1, ResolvesKept DEF Sweep
<1>2. CASE Reclaim BY <1>2, ResolvesKept DEF Reclaim
<1>3. CASE WorkStep BY <1>3, WorkStepKept
<1>4. CASE Commit BY <1>4, CommitKept
<1>5. CASE ListLeft \/ Hold BY <1>5, GivesUpKept
<1>6. CASE Purge BY <1>6, <1>i, PurgeKept
<1>7. CASE Begin \/ Settle \/ LookAtIt \/ Reserve \/ Record
  <2>1. UNCHANGED <<root, folders>>
    <3>1. CASE Begin \/ Settle \/ Reserve BY <3>1 DEF Begin, Settle, Reserve, Refused, Still, disk
    <3>2. CASE LookAtIt
      <4>1. root' = root BY <3>2 DEF LookAtIt, Still
      <4>i. Ops BY DEF Inv, RunInv
      <4>n. None \notin Commands BY NoneApart
      <4>o. run.op \in {"switch", "forget", "start", "enroll", "confirm"}
        BY <1>i, <3>2, <4>i, <4>n DEF Ops, TypeOK, Runs, Commands, LookAtIt
      <4> PICK v : v = Look OBVIOUS
      <4>2. \/ Refused
            \/ LookForSwitch(v)
            \/ LookForStart(v)
            \/ LookForForget(v)
            \/ LookForEnroll(v)
        BY <3>2, <4>o DEF LookAtIt
      <4>3. CASE Refused \/ LookForSwitch(v) BY <4>1, <4>3 DEF LookForSwitch, Begins, Refused, disk
      <4>4. CASE LookForStart(v)
        <5>1. Begins("leave", FALSE) \/ Begins("start", TRUE) \/ UNCHANGED folders \/ Refused
          BY <4>4 DEF LookForStart
        <5> QED BY <4>1, <5>1 DEF Begins, Refused, disk
      <4>5. CASE LookForForget(v) BY <4>1, <4>5 DEF LookForForget, disk
      <4>6. CASE LookForEnroll(v) BY <4>1, <4>6 DEF LookForEnroll, Refused, disk
      <4> QED BY <4>2, <4>3, <4>4, <4>5, <4>6
    <3>3. CASE Record
      BY <3>3 DEF Record, RecordLeave, RecordArrive, RecordRefused, RecordAside, RecordStart, Recorded,
                  Refused, Still, disk
    <3> QED BY <1>7, <3>1, <3>2, <3>3
  <2> QED BY <2>1, NothingMoves
<1>8. CASE StepFails \/ Midway \/ GiveUp \/ Forget \/ GiveBackAsides
  <2>1. UNCHANGED <<root, folders>>
    BY <1>8 DEF StepFails, Midway, GiveUp, Forget, GiveBackAsides, Unmoved, Refused, Still, disk
  <2> QED BY <2>1, NothingMoves
<1>9. CASE (\E op \in Commands, who \in Accounts \cup {None} : Start(op, who)) \/ Crash \/ UNCHANGED vars
  <2>1. UNCHANGED <<root, folders>> BY <1>9 DEF Start, Crash, Still, vars, disk
  <2> QED BY <2>1, NothingMoves
<1>10. ~App
  <2>1. ~Opens /\ ~Dies BY <1>i DEF Opens, Dies, TypeOK
  <2>2. ~QuitsAsItWas /\ ~QuitsLoggedOut /\ \A s \in Sessions : ~QuitsSignedIn(s)
    BY DEF QuitsAsItWas, QuitsLoggedOut, QuitsSignedIn, Writes
  <2> QED BY <2>1, <2>2 DEF App
<1> QED BY <1>1, <1>2, <1>3, <1>4, <1>5, <1>6, <1>7, <1>8, <1>9, <1>10 DEF Next, Working

\* A run writes over nothing and deletes nothing but what is forgotten (moves.rs, purge).
THEOREM ForgottenOnlyDeleted == Spec => OnlyForgottenDeleted
<1>1. Inv /\ [Next]_vars =>
        [OfRuns(\A i \in ItemSet :
           \/ Cardinality(Places(i)') = Cardinality(Places(i))
           \/ \A n \in Places(i) \ Places(i)' : \E d \in saved.discarded : d.name = n /\ d.forgotten)]_vars
  BY RunsKeep DEF Keeps
<1> QED BY <1>1, InvHolds, PTL DEF Spec, OnlyForgottenDeleted
=============================================================================
