----------------------------- MODULE FolderMove -----------------------------
(***************************************************************************)
(* Claude Desktop's login is a data folder: a cookie jar, the stores beside *)
(* it and some keys in the app's settings.  Pitboard moves it out of the    *)
(* app's folder into one of its own under `parks`, and another in, file by  *)
(* file (switch/folder).  No write covers more than one of them, the app    *)
(* may be opened at any time, and a run may die between any two.            *)
(*                                                                          *)
(* Each half of a move is recorded in state.json before its first rename    *)
(* and committed by one save.  A move a run left recorded is settled by the *)
(* next, from what is on disk alone, or given up.                           *)
(*                                                                          *)
(* One run at a time: it holds the home's lock.  No lock keeps the app out. *)
(* It is looked for before a move is recorded and after its last write, and *)
(* one opened in between is taken to be open still at that second look.     *)
(***************************************************************************)
EXTENDS Naturals, Sequences, FiniteSets

CONSTANTS Accounts, Sessions,
          Owner,        \* whose each session is
          Items,        \* what a login is made of, in the order it leaves: the jar first
          InUse, Parked,\* the sessions an instance starts with
          None,
          MaxNames,     \* bound: folders under `parks`
          MaxOpens,     \* bound: times the app is opened
          MaxMishaps    \* bound: operations that fail and runs that die

Jar     == Items[1]
ItemSet == {Items[i] : i \in DOMAIN Items}
Rest    == ItemSet \ {Jar}
Names   == 1..MaxNames

NoSession == "no_session"   \* a jar of an app that is signed out
Fresh     == "fresh"        \* a store the app made
Emptied   == "emptied"      \* what a Log out leaves in the token caches
Tokens    == {"t1", "t2"}

ASSUME SessionsOwned == Owner \in [Sessions -> Accounts]
ASSUME StartsWith == InUse \in Sessions /\ Parked \in Sessions /\ Owner[InUse] # Owner[Parked]
ASSUME FolderBounds == {MaxNames, MaxOpens, MaxMishaps} \subseteq Nat /\ MaxNames # 0
ASSUME ItemsListed == Items \in Seq(STRING) /\ Items # <<>>
ASSUME SessionsApart == {NoSession, Fresh, None} \cap Sessions = {}
ASSUME FreshApart == Fresh \notin Accounts

Nothing == [i \in ItemSet |-> None]
Holding == [ItemSet -> Sessions \cup Accounts \cup {NoSession, Fresh, None}]

\* The account keys in the settings: the name, and what the token caches hold.
Keys == [who : Accounts \cup {None}, tok : Tokens \cup {Emptied}] \cup {None}

Manifests == [account : Accounts \cup {None}, login : Sessions \cup {None},
              items : SUBSET ItemSet, keys : Keys, left : SUBSET Rest]

NoFolder == [made |-> FALSE, manifest |-> None, keys |-> {}, has |-> Nothing]    \* keys.json: none, or what it keeps

NoMove == None
Moves  == [half : {"leave", "arrive"}, who : Accounts, park : Names, login : Sessions,
           items : SUBSET ItemSet, keys : Keys, asides : SUBSET Names, awaits : BOOLEAN]

Records == [enrolled  : SUBSET Accounts,
            parked    : [Accounts -> [name : Names, login : Sessions] \cup {None}],
            aside     : SUBSET [name : Names, account : Accounts \cup {None},
                                login : Sessions \cup {None}],
            discarded : SUBSET [name : Names, forgotten : BOOLEAN],
            inUse     : [who : Accounts \cup {None}, login : Sessions \cup {None}],
            moving    : Moves \cup {NoMove},
            awaiting  : Accounts \cup {None}]

VARIABLES
  root,       \* the app's data folder: [has, keys]
  folders,    \* what is under `parks`, by name
  appOpen,
  saved,      \* state.json
  pending,    \* names of folders written down before they are made
  pc, run,    \* the run: its next step and what it is about
  issued,     \* history: sessions a sign-in made
  ended,      \* history: sessions the app replaced, or of an account forgotten
  ran,        \* history: the app wrote since whose login it holds was recorded
  opens, mishaps

disk    == <<folders, saved, pending>>
app     == <<appOpen, issued, opens>>
vars    == <<root, disk, app, pc, run, ended, ran, mishaps>>

Commands == {"switch", "start", "enroll", "confirm", "abandon", "forget", "repair"}

\* The steps of a move: one write or rename each, a look at the app, and its last save.
Fallible == {"keep", "make", "manifest", "keys", "clear", "put", "setAside", "out", "in", "held",
             "forgetLeft", "finishAside", "verify", "arrived", "left", "hold"}
Closing  == {"commitLeave", "commitArrive", "undone", "started", "givenUp"}
Steps    == {"idle", "sweep", "begin", "settle", "look", "reserve", "record", "giveUp", "enrol",
             "forget", "reclaim", "giveBack", "purge", "midway"} \cup Fallible \cup Closing

\* What those steps are of: a move recorded, what settling makes of one, a start.
Rows == {"leave", "arrive", "keysBack", "leaveOn", "back", "backAside", "settingAside",
         "keysAside", "giveUp", "start"}

\* Which half of a move, or of what else, a run is in.
Stages == {"leave", "arrive", "start", "keysAside", "giveUp", "done"}

NoRun == [op |-> None, who |-> None, session |-> None, also |-> None, on |-> "forward",
          half |-> None, name |-> None, list |-> {}, stopped |-> FALSE,
          row |-> None, kept |-> None, to |-> None, items |-> {}]

Runs  == [op : Commands \cup {None}, who : Accounts \cup {None}, session : Sessions \cup {None},
          also : Names \cup {None}, on : {"forward", "settle", "after", "giveUp"},
          half : Stages \cup {None},
          name : Names \cup {None}, list : SUBSET Rest, stopped : BOOLEAN,
          row : Rows \cup {None}, kept : Manifests \cup {None}, to : Names \cup {None},
          items : SUBSET ItemSet]

ASSUME NoneApart ==
  /\ None \notin Accounts \cup Commands \cup Rows \cup Stages \cup {NoSession, Fresh}
  /\ None \notin Names
  /\ None \notin [who : Accounts \cup {None}, tok : Tokens \cup {Emptied}]
  /\ None \notin Manifests \cup Moves \cup [name : Names, login : Sessions]

-----------------------------------------------------------------------------
(* state.rs: what a run makes of the record. *)

Moving == saved.moving
MoveHolds(s, n) == s.moving # NoMove /\ (s.moving.park = n \/ n \in s.moving.asides)

Named(s, n) == \/ \E a \in Accounts : s.parked[a] # None /\ s.parked[a].name = n
               \/ \E r \in s.aside \cup s.discarded : r.name = n
               \/ MoveHolds(s, n)

LetGo(s, n) ==
  [s EXCEPT !.parked = [a \in Accounts |->
     IF s.parked[a] # None /\ s.parked[a].name = n THEN None ELSE s.parked[a]]]

Discard(s, n) ==
  LET t == LetGo(s, n) IN
  IF \E d \in t.discarded : d.name = n THEN t
  ELSE [t EXCEPT !.discarded = @ \cup {[name |-> n, forgotten |-> FALSE]}]

AddAside(s, n, account, login) ==
  IF \E r \in s.aside : r.name = n THEN s
  ELSE [s EXCEPT !.aside = @ \cup {[name |-> n, account |-> account, login |-> login]}]

KeepAside(s, n, account, login) == AddAside(LetGo(s, n), n, account, login)

\* A park recorded; the one it replaces is set aside.
Park(s, a, n, login) ==
  LET old == s.parked[a]
      t   == [s EXCEPT !.parked[a] = [name |-> n, login |-> login]]
  IN IF old = None \/ old.name = n THEN t ELSE AddAside(t, old.name, a, old.login)

\* What is filed under an account: its park and what is set aside of it.
Filed(s, a) == {r.name : r \in {r \in s.aside : r.account = a}}
                 \cup (IF s.parked[a] = None THEN {} ELSE {s.parked[a].name})

\* An account forgotten; folders that hold its logins are listed to be deleted nowhere else.
Removed(s, a) ==
  LET filed == Filed(s, a)
      gone  == {n \in filed : ~MoveHolds(s, n)}
  IN [s EXCEPT !.enrolled  = @ \ {a},
               !.parked[a] = None,
               !.aside     = {r \in @ : r.name \notin filed},
               !.discarded = {d \in @ : d.name \notin gone}
                               \cup [name : gone, forgotten : {TRUE}],
               !.awaiting  = IF @ = a THEN None ELSE @]

Identified(s, who, login) == [s EXCEPT !.inUse = [who |-> who, login |-> login]]
NobodyYet(s) == s

Nobody(s) == Identified(s, None, None)

-----------------------------------------------------------------------------
(* What is where. *)

InRoot(i)    == root.has[i] # None
InFolder(n, i) == folders[n].has[i] # None
Present      == {i \in ItemSet : InRoot(i)}
HeldItems(n, of) == {i \in of : InFolder(n, i)}

HoldsAnything(n) == folders[n].keys # {} \/ \E i \in ItemSet : InFolder(n, i)

SignedOutKeysNever(k) == FALSE

SignedOutKeys(k) == k # None /\ k.tok = Emptied
NamedBy(k)       == IF k = None THEN None ELSE k.who
SessionIn(jar)   == IF jar \in Sessions THEN jar ELSE None

\* orphan: the folder's manifest, items, keys and jar agree on a login.
AgreesOn(n) ==
  LET f == folders[n]
      m == f.manifest
  IN /\ m # None
     /\ m.account # None /\ m.login # None
     /\ HeldItems(n, m.items) = m.items
     /\ f.keys = {m.keys} /\ NamedBy(m.keys) = m.account
     /\ f.has[Jar] = m.login

\* takes: enrolled, holding no park that is there, and not in use.
Gone(s, park) == ~MoveHolds(s, park.name) /\ ~folders[park.name].made
Takes(s, a) == /\ a \in s.enrolled
               /\ s.parked[a] = None \/ Gone(s, s.parked[a])
               /\ s.inUse.who # a

Least(ns) == CHOOSE n \in ns : \A o \in ns : n <= o

\* give_back: of these folders, to each account that takes one, the first that is its.
Claims(a, ns) == {n \in ns : AgreesOn(n) /\ folders[n].manifest.account = a}

GivenBack(s, ns) ==
  LET takers == {a \in Accounts : Takes(s, a) /\ Claims(a, ns) # {}}
      given  == [a \in takers |-> Least(Claims(a, ns))]
      lost   == {s.parked[a].name : a \in {a \in takers : s.parked[a] # None}}
  IN [s EXCEPT
        !.parked = [a \in Accounts |-> IF a \notin takers THEN @[a]
                      ELSE [name |-> given[a], login |-> folders[given[a]].manifest.login]],
        !.discarded = @ \cup [name : lost \ {d.name : d \in @}, forgotten : {FALSE}],
        !.aside = {r \in @ : \A a \in takers : r.name # given[a]}]

\* resolve_folder, of all that hold anything: given back, or set aside.
Resolved(s, ns) ==
  LET held  == {n \in ns : HoldsAnything(n)}
      t     == GivenBack(s, held)
      asides == {n \in held : ~Named(t, n)}
      Of(n) == folders[n].manifest
  IN [t EXCEPT !.aside = @ \cup
        {[name    |-> n,
          account |-> IF AgreesOn(n) THEN Of(n).account ELSE None,
          login   |-> IF AgreesOn(n) THEN Of(n).login ELSE None] : n \in asides}]

\* index_asides: every folder the record named for what it set aside, where it was made.
IndexAsides(s, m) ==
  LET new == {n \in m.asides : folders[n].made /\ \A r \in s.aside : r.name # n}
      Of(n) == folders[n].manifest
  IN [s EXCEPT !.aside = @ \cup
        {[name |-> n, account |-> IF Of(n) = None THEN None ELSE Of(n).account,
          login |-> None] : n \in new}]

-----------------------------------------------------------------------------
(* How a step ends. *)

CanFault == mishaps < MaxMishaps
Works    == UNCHANGED mishaps
Faults   == CanFault /\ mishaps' = mishaps + 1
Still    == UNCHANGED <<root, app, ended, ran>>

Goes(step) == pc' = step /\ UNCHANGED run
End        == pc' = "idle" /\ run' = NoRun

\* The run stops with a refusal or an error; what it wrote before stays.
Refused == End /\ UNCHANGED disk

\* Once the settling, or giving up, is through.
Continues ==
  IF run.op = "abandon" THEN End
  ELSE IF run.op = "repair" THEN Goes("reclaim")
  ELSE IF run.on = "settle" THEN Goes("look")
  ELSE IF run.on = "giveUp" THEN Goes("enrol")
  ELSE End

UndeterminedStops == End

\* A move that cannot be settled: enroll and abandon give it up, repair says it.
Undetermined ==
  CASE run.on = "settle" /\ run.op = "enroll" ->
         pc' = "look" /\ run' = [run EXCEPT !.stopped = TRUE]
    [] run.on = "settle" /\ run.op = "abandon" ->
         Goes("giveUp")
    [] run.on = "settle" /\ run.op = "repair" ->
         Goes("reclaim")
    [] OTHER -> End

\* A step of a move failed.  One going forward is settled at once, unless the app was opened.
Failed ==
  /\ IF run.on = "forward" /\ Moving # NoMove /\ ~appOpen
     THEN pc' = "settle" /\ run' = [run EXCEPT !.on = "after"]
     ELSE Undetermined

\* The first of a move's steps, of a row; what it moves, out into which folder or in.
Starts(step, on, row, items, to) ==
  pc' = step /\ run' = [run EXCEPT !.on = on, !.row = row, !.items = items, !.to = to]

\* What is still to be moved leaves the jar first, and arrives the jar last.
Place(i)  == CHOOSE k \in DOMAIN Items : Items[k] = i
First(is) == CHOOSE i \in is : \A j \in is : Place(i) <= Place(j)
Final(is) == CHOOSE i \in is : \A j \in is : Place(i) >= Place(j)

\* The step after this one, where it worked.
After ==
  CASE pc = "keep" -> "make"
    [] pc = "make" -> "manifest"
    [] pc = "manifest" -> "keys"
    [] pc = "keys" -> IF run.row = "giveUp" THEN "out"
                      ELSE IF root.keys = None THEN "setAside" ELSE "clear"
    [] pc = "clear" -> IF run.row = "arrive" THEN "setAside"
                       ELSE IF run.row = "start" THEN "midway" ELSE "out"
    [] pc = "setAside" -> "out"
    [] pc = "out" -> IF run.row \in {"arrive", "settingAside"} THEN "forgetLeft"
                     ELSE IF run.row = "giveUp" THEN "hold" ELSE "verify"
    [] pc = "held" -> "forgetLeft"
    [] pc = "forgetLeft" -> IF run.row = "arrive" THEN "in" ELSE "midway"
    [] pc = "in" -> "put"
    [] pc = "put" -> IF run.row = "arrive" THEN "arrived" ELSE "midway"
    [] pc = "verify" -> IF run.row = "backAside" THEN "finishAside" ELSE "midway"
    [] pc = "left" -> "hold"
    [] pc \in {"arrived", "finishAside", "hold"} -> "midway"
    [] pc = "midway" -> IF run.row \in {"leave", "leaveOn"} THEN "commitLeave"
                        ELSE IF run.row = "arrive" THEN "commitArrive"
                        ELSE IF run.row = "giveUp" THEN "givenUp"
                        ELSE IF run.row = "start" THEN "started" ELSE "undone"

Advance == Goes(After)

AsideManifest(account, items, keys) ==
  [account |-> account, login |-> None, items |-> items, keys |-> keys, left |-> {}]

-----------------------------------------------------------------------------
(* What the app's folder holds, and what a change makes of it (verdict.rs). *)

HeldBy(s, login) ==
  {s.parked[a].name : a \in {a \in Accounts : s.parked[a] # None /\ s.parked[a].login = login}}
    \cup {r.name : r \in {r \in s.aside : r.login = login}}

Says(what, who, leftovers) ==
  [is |-> what, who |-> who, leftovers |-> leftovers, also |-> None]

\* holds and verdict: one operator, since the second reads what the first found.
Look ==
  LET jar   == root.has[Jar]
      keys  == root.keys
      named == NamedBy(keys)
      use   == saved.inUse
      recorded == IF use.login = jar /\ use.who \in saved.enrolled THEN use.who ELSE None
      also  == HeldBy(saved, jar)
  IN CASE jar = None ->
            IF Present = {} /\ keys = None THEN Says("nobody", None, FALSE)
            ELSE Says("unknown", None, FALSE)
       [] jar = NoSession ->
            IF keys = None \/ SignedOutKeys(keys) THEN Says("nobody", None, TRUE)
            ELSE Says("unknown", None, FALSE)
       [] OTHER ->
            CASE named = None -> Says("unfinished", None, FALSE)
              [] named # None /\ recorded # None ->
                   Says(IF recorded = named THEN "account" ELSE "anothers", named, FALSE)
              [] named # None /\ recorded = None /\ also # {} ->
                   [Says("heldTwice", named, FALSE) EXCEPT !.also = CHOOSE n \in also : TRUE]
              [] named # None /\ recorded = None /\ also = {} /\ SignedOutKeys(keys) ->
                   Says("unfinished", None, FALSE)
              [] OTHER ->
                   Says(IF named # use.who \/ named \notin saved.enrolled THEN "unseen"
                        ELSE IF saved.parked[named] # None THEN "alsoParked"
                        ELSE "account", named, FALSE)

\* check_park: what an arrive puts back is whole.
CanArrive(a) ==
  /\ saved.parked[a] # None
  /\ LET n == saved.parked[a].name
         f == folders[n]
     IN /\ f.made /\ f.manifest # None
        /\ f.manifest.account = a /\ f.manifest.login = saved.parked[a].login
        /\ f.has[Jar] = saved.parked[a].login
        /\ HeldItems(n, f.manifest.items) = f.manifest.items
        /\ f.keys = {f.manifest.keys} /\ NamedBy(f.manifest.keys) = a

-----------------------------------------------------------------------------
(* A command: the sweep, the app seen closed, a move left behind settled. *)

Start(op, who) ==
  /\ pc = "idle"
  /\ op \in {"switch", "forget"} => who \in saved.enrolled
  /\ op \notin {"switch", "forget"} => who = None
  /\ op = "abandon" => Moving # NoMove
  /\ run' = [NoRun EXCEPT !.op = op, !.who = who]
  /\ pc' = IF op = "abandon" THEN "begin" ELSE "sweep"
  /\ Still /\ UNCHANGED <<disk, mishaps>>

EmptyingHalf(ns) == [n \in Names |-> IF n \in ns THEN [NoFolder EXCEPT !.keys = folders[n].keys]
                                    ELSE folders[n]]

Emptying(ns) == [n \in Names |-> IF n \in ns THEN NoFolder ELSE folders[n]]

\* resolve: what each name comes to, one save for all, then the names that go unread listed.
Resolves(names, next) ==
  \E unread \in SUBSET {n \in names : folders[n].made} :
    LET todo    == {n \in names \ unread : ~Named(saved, n)}
        empties == {n \in todo : ~HoldsAnything(n)}
        s       == Resolved(saved, todo)
    IN \/ /\ folders' = Emptying(empties) /\ saved' = s /\ pending' = unread \cap pending
          /\ Goes(next) /\ IF unread = {} THEN Works ELSE Faults
       \* A save fails: the record's, or after it the list's.
       \/ /\ todo # {} /\ unread = {}
          /\ folders' = Emptying(empties) /\ saved' \in {saved, s} /\ UNCHANGED pending
          /\ End /\ Faults

Sweep ==
  /\ pc = "sweep"
  /\ Resolves({n \in pending : ~Named(saved, n)},
              IF run.op = "repair" /\ Moving = NoMove THEN "reclaim" ELSE "begin")
  /\ Still

\* closed: what forget makes of an app that is open is its own; the others refuse.
Begin ==
  /\ pc = "begin"
  /\ \/ /\ ~appOpen /\ Works
        /\ pc' = "settle" /\ run' = [run EXCEPT !.on = "settle"]
     \/ /\ appOpen \/ CanFault
        /\ IF appOpen THEN Works ELSE Faults
        /\ CASE run.op = "repair"                      -> Goes("reclaim")
             [] run.op = "forget" /\ Moving = NoMove ->
                  pc' = "forget" /\ run' = [run EXCEPT !.stopped = TRUE]
             [] OTHER                                  -> End
  /\ Still /\ UNCHANGED disk

JarIsAny(jar, login) == IF jar = None THEN "none"
                        ELSE IF jar = login THEN "mine" ELSE "noSession"

JarIs(jar, login) == IF jar = None THEN "none"
                     ELSE IF jar = NoSession THEN "noSession"
                     ELSE IF jar = login THEN "mine" ELSE "other"

KeysAre(m) == IF root.keys = None THEN "none"
              ELSE IF root.keys = m.keys THEN "mine"
              ELSE IF SignedOutKeys(root.keys) THEN "signedOut"
              ELSE IF NamedBy(root.keys) = m.who THEN "named" ELSE "other"

LeftUnseen(keys, items) == [step |-> "midway", row |-> "leaveOn", items |-> items]

LeftOn(keys, items) == [step  |-> IF keys = "mine" THEN "clear" ELSE "out",
                        row   |-> "leaveOn", items |-> items]

\* row: what becomes of the move, from the facts.
Row(m) ==
  LET f       == folders[m.park]
      there   == JarIs(f.has[Jar], m.login)
      here    == JarIs(root.has[Jar], m.login)
      keys    == KeysAre(m)
      inPark  == HeldItems(m.park, m.items \ {Jar})
      inRoot  == (m.items \ {Jar}) \cap Present
      kept    == f.keys = {m.keys}
      untouched == there = "none" /\ here = "mine" /\ inPark = {}
      Leaves(row)  == m.half = "leave" /\ row
      Arrives(row) == m.half = "arrive" /\ row
      outside == here \in {"none", "noSession"} /\ there = "mine" /\ keys \in {"none", "signedOut"}
      To(step, line, items) == [step |-> step, row |-> line, items |-> items]
  IN CASE Leaves(untouched /\ keys \in {"mine", "named"}) -> To("undone", None, {})
       [] Leaves(untouched /\ keys = "none" /\ kept) -> To("put", "keysBack", {})
       [] Leaves(/\ there = "none" /\ here = "mine" /\ inPark # {}
                 /\ keys \in {"mine", "none"} /\ kept) -> LeftOn(keys, m.items)
       [] Leaves(outside) -> LeftOn("none", inRoot \ inPark)
       [] Arrives(untouched /\ keys \in {"mine", "named"}) -> To("commitArrive", None, {})
       [] Arrives(there = "none" /\ here = "mine" /\ keys = "none") -> To("out", "back", m.items)
       [] Arrives(there = "none" /\ here = "mine" /\ keys \in {"signedOut", "other"}) ->
            To("reserve", "keysAside", m.items)
       [] Arrives(outside) ->
            To("out", IF here = "none" THEN "backAside" ELSE "back", m.items \ {Jar})
       [] OTHER -> To("stop", None, {})

Settle ==
  /\ pc = "settle"
  /\ IF Moving = NoMove THEN Continues
     ELSE LET r == Row(Moving) IN
          CASE r.step = "stop"    -> Undetermined
            [] r.step = "reserve" -> pc' = "reserve" /\ run' = [run EXCEPT !.half = "keysAside"]
            [] OTHER              -> Starts(r.step, run.on, r.row, r.items, Moving.park)
  /\ Still /\ Works /\ UNCHANGED disk

\* The verdict, and what each command makes of it.
Begins(half, aside) ==
  /\ pc' = IF half = "arrive" /\ ~aside THEN "record" ELSE "reserve"
  /\ run' = [run EXCEPT !.half = half, !.on = "forward", !.name = None]
  /\ UNCHANGED disk

LookForSwitch(v) ==
  IF v.is = "account" /\ v.who # run.who /\ CanArrive(run.who) THEN Begins("leave", FALSE)
  ELSE IF v.is = "nobody" /\ CanArrive(run.who) THEN Begins("arrive", v.leftovers)
  ELSE Refused

LookForStart(v) ==
  CASE v.is = "account" -> Begins("leave", FALSE)
    [] v.is = "nobody" /\ root.keys # None -> Begins("start", TRUE)
    [] v.is = "nobody" /\ root.keys = None ->
         End /\ saved' = Nobody(saved) /\ UNCHANGED <<folders, pending>>
    [] OTHER -> Refused

LookForForget(v) ==
  /\ run' = [run EXCEPT !.stopped = v.is \notin {"account", "nobody"}]
  /\ pc' = "forget"
  /\ IF v.is = "nobody" THEN saved' = Nobody(saved) /\ UNCHANGED <<folders, pending>>
     ELSE UNCHANGED disk

LookForEnroll(v) ==
  IF v.is \in {"unknown", "nobody", "unfinished"} THEN Refused
  ELSE /\ run' = [run EXCEPT !.who = v.who, !.session = root.has[Jar], !.also = v.also,
                             !.on = "giveUp"]
       /\ pc' = IF run.stopped THEN "giveUp" ELSE "enrol"
       /\ UNCHANGED disk

LookAtIt ==
  /\ pc = "look"
  /\ \/ /\ CASE run.op = "switch"  -> LookForSwitch(Look)
             [] run.op = "start"   -> LookForStart(Look)
             [] run.op = "forget" /\ Look.is = "account" /\ Look.who = run.who -> Refused
             [] run.op = "forget" /\ ~(Look.is = "account" /\ Look.who = run.who) ->
                  LookForForget(Look)
             [] run.op = "enroll"  -> LookForEnroll(Look)
             [] run.op = "confirm" -> Refused
        /\ Works
     \/ Faults /\ Refused
  /\ Still

-----------------------------------------------------------------------------
(* A move is recorded: a name written down, the app seen closed, the save. *)

Free == {n \in Names : ~Named(saved, n) /\ ~folders[n].made /\ n \notin pending}

ReserveUnwritten ==
  /\ pc = "reserve" /\ Free # {} /\ Works
  /\ pc' = "record" /\ run' = [run EXCEPT !.name = Least(Free)]
  /\ UNCHANGED disk /\ Still

Reserve ==
  /\ pc = "reserve"
  /\ \/ /\ Free # {} /\ Works
        /\ pending' = pending \cup {Least(Free)}
        /\ pc' = "record" /\ run' = [run EXCEPT !.name = Least(Free)]
        /\ UNCHANGED <<folders, saved>>
     \/ Refused /\ IF Free = {} THEN Works ELSE Faults
  /\ Still

\* The record's save, and what follows it; or it fails.
Recorded(s, starts) ==
  /\ \/ Works /\ saved' = s /\ starts
     \/ Faults /\ End /\ UNCHANGED saved
  /\ UNCHANGED <<folders, pending>>

RecordLeave ==
  LET m == [half |-> "leave", who |-> NamedBy(root.keys), park |-> run.name,
            login |-> root.has[Jar], items |-> Present, keys |-> root.keys,
            asides |-> {}, awaits |-> run.op = "start"]
      manifest == [account |-> m.who, login |-> m.login, items |-> m.items,
                   keys |-> m.keys, left |-> {}]
  IN /\ run.half = "leave" /\ ~appOpen
     /\ Recorded([saved EXCEPT !.moving = m],
                 /\ pc' = "make"
                 /\ run' = [run EXCEPT !.on = "forward", !.row = "leave", !.kept = manifest,
                                       !.to = m.park, !.items = m.items])

RecordArrive ==
  LET park == saved.parked[run.who]
      kept == folders[park.name].manifest
      over == run.name # None
      m    == [half |-> "arrive", who |-> run.who, park |-> park.name, login |-> park.login,
               items |-> kept.items, keys |-> kept.keys,
               asides |-> IF over THEN {run.name} ELSE {}, awaits |-> FALSE]
  IN /\ run.half = "arrive" /\ ~appOpen
     /\ over \/ kept.items \cap Present = {}
     /\ Recorded([Nobody(saved) EXCEPT !.moving = m],
                 Starts(IF over THEN "keep" ELSE "held", "forward", "arrive", {}, run.name))

\* The app was opened, or a place an arrive needs is taken: nothing is recorded.
RecordRefused ==
  /\ run.half \in {"leave", "arrive"}
  /\ \/ appOpen
     \/ /\ run.half = "arrive" /\ run.name = None
        /\ folders[saved.parked[run.who].name].manifest.items \cap Present # {}
  /\ Refused /\ Works

\* ArriveBackKeysAside and give_up: one aside more on the record.
RecordAside ==
  LET s == [saved EXCEPT !.moving.asides = @ \cup {run.name}] IN
  \/ /\ run.half = "keysAside"
     /\ Recorded(s, Starts("keep", run.on, "keysAside", Moving.items, Moving.park))
  \/ /\ run.half = "giveUp"
     /\ Recorded(s, /\ pc' = "make"
                    /\ run' = [run EXCEPT
                         !.on = "giveUp", !.row = "giveUp", !.to = run.name, !.items = run.list,
                         !.kept = AsideManifest(Moving.who, run.list, None)])

\* set_keys_aside records nothing: its folder is one written down alone.
RecordStart ==
  /\ run.half = "start"
  /\ Starts("keep", "forward", "start", {}, None)
  /\ Works /\ UNCHANGED disk

Record ==
  /\ pc = "record"
  /\ RecordLeave \/ RecordArrive \/ RecordRefused \/ RecordAside \/ RecordStart
  /\ Still

-----------------------------------------------------------------------------
(* The steps of a move, one write or rename each. *)

InFolders(n, f) == folders' = [folders EXCEPT ![n] = f] /\ UNCHANGED <<root, saved, pending>>
Unmoved == UNCHANGED <<root, disk>>

Make ==
  /\ pc = "make"
  /\ IF folders[run.name].made THEN Failed /\ Unmoved
     ELSE Advance /\ InFolders(run.name, [NoFolder EXCEPT !.made = TRUE])

WriteManifest ==
  pc = "manifest" /\ Advance /\ InFolders(run.name, [folders[run.name] EXCEPT !.manifest = run.kept])

WriteKeys ==
  pc = "keys" /\ Advance /\ InFolders(run.name, [folders[run.name] EXCEPT !.keys = {run.kept.keys}])

ClearKeys == pc = "clear" /\ Advance /\ root' = [root EXCEPT !.keys = None] /\ UNCHANGED disk
PutKeys   == pc = "put" /\ Advance /\ root' = [root EXCEPT !.keys = Moving.keys] /\ UNCHANGED disk

OneMoved == run' = [run EXCEPT !.items = @ \ {IF pc = "out" THEN First(@) ELSE Final(@)}] /\ UNCHANGED pc

\* move_out: what is there and not yet in, by rename.
MoveOut ==
  LET i == First(run.items)
      n == run.to
  IN /\ pc = "out"
     /\ IF run.items = {} THEN Advance /\ Unmoved
        ELSE /\ OneMoved
             /\ IF ~InRoot(i) \/ InFolder(n, i) THEN Unmoved
                ELSE /\ folders' = [folders EXCEPT ![n].has[i] = root.has[i]]
                     /\ root' = [root EXCEPT !.has[i] = None]
                     /\ UNCHANGED <<saved, pending>>

MoveInOver ==
  LET i == Final(run.items)
      n == Moving.park
  IN /\ pc = "in"
     /\ IF run.items = {} THEN Advance /\ Unmoved
        ELSE /\ OneMoved
             /\ root' = [root EXCEPT !.has[i] = folders[n].has[i]]
             /\ folders' = [folders EXCEPT ![n].has[i] = None]
             /\ UNCHANGED <<saved, pending>>

\* Never over anything, and only what is there.
MoveIn ==
  LET i == Final(run.items)
      n == Moving.park
  IN /\ pc = "in"
     /\ IF run.items = {} THEN Advance /\ Unmoved
        ELSE IF InRoot(i) \/ ~InFolder(n, i) THEN Failed /\ Unmoved
        ELSE /\ OneMoved
             /\ root' = [root EXCEPT !.has[i] = folders[n].has[i]]
             /\ folders' = [folders EXCEPT ![n].has[i] = None]
             /\ UNCHANGED <<saved, pending>>

\* Nothing was set aside, so the settings must hold no keys.
HeldKeys == pc = "held" /\ (IF root.keys # None THEN Failed ELSE Advance) /\ Unmoved

\* Each park and aside whose manifest lists items a give-up left in the app's folder.
ListingLeft ==
  {n \in Names : /\ \/ \E a \in saved.enrolled : saved.parked[a] # None /\ saved.parked[a].name = n
                    \/ \E r \in saved.aside : r.name = n
                 /\ folders[n].manifest # None /\ folders[n].manifest.left # {}}

LeftBehind == IF ListingLeft = {} THEN None
              ELSE folders[CHOOSE n \in ListingLeft : TRUE].manifest.account

ForgetsLeft == folders' = [n \in Names |-> IF n \in ListingLeft
                                           THEN [folders[n] EXCEPT !.manifest.left = {}]
                                           ELSE folders[n]]

\* keep_aside, of what the settings hold now; an arrive's lists what it sets aside.
KeepSettings ==
  LET over == run.row = "arrive"
  IN /\ pc = "keep" /\ Unmoved /\ pc' = After
     /\ run' = [run EXCEPT !.kept = AsideManifest(IF over THEN LeftBehind ELSE None,
                                                  IF over THEN Present ELSE {}, root.keys)]

SetAside == pc = "setAside" /\ pc' = After /\ run' = [run EXCEPT !.items = Present] /\ Unmoved

\* What a give-up listed is in the aside; an arrive then has its own items to move in.
ForgetLeft ==
  /\ pc = "forgetLeft" /\ pc' = After
  /\ run' = [run EXCEPT !.items = IF run.row = "arrive" THEN Moving.items ELSE {}]
  /\ ForgetsLeft /\ UNCHANGED <<root, saved, pending>>

\* finish_setting_aside: an arrive killed as it set aside what was there, its jar first.
FinishAside ==
  LET begun == {n \in Moving.asides : InFolder(n, Jar)} IN
  /\ pc = "finishAside" /\ Unmoved
  /\ IF begun = {} THEN Advance
     ELSE Starts("out", run.on, "settingAside", Present, CHOOSE n \in begun : TRUE)

HoldsWhatIsThere(n, listed) ==
  folders' = [folders EXCEPT ![n].manifest.items = HeldItems(n, listed)]

\* verify_parked.  Strict, straight after the renames: the app's folder holds none of it.
Verify ==
  LET m == Moving
      f == folders[m.park]
      strict == run.row = "leave"
      inPark == HeldItems(m.park, m.items \ {Jar})
      inRoot == (m.items \ {Jar}) \cap Present
      holds  == /\ f.has[Jar] = m.login /\ f.manifest # None
                /\ inRoot \subseteq inPark
                /\ strict => /\ inRoot = {} /\ ~InRoot(Jar)
                             /\ f.keys = {m.keys} /\ root.keys = None
  IN /\ pc = "verify"
     /\ IF holds THEN Advance /\ HoldsWhatIsThere(m.park, m.items) /\ UNCHANGED <<root, saved, pending>>
        ELSE Failed /\ Unmoved

VerifyArrived ==
  LET m == Moving IN
  /\ pc = "arrived" /\ Unmoved
  /\ IF /\ root.has[Jar] = m.login /\ root.keys = m.keys /\ NamedBy(root.keys) = m.who
        /\ HeldItems(m.park, m.items \ {Jar}) = {}
     THEN Advance ELSE Failed

\* The look after the last write: seen open, nothing is recorded as done.
Midway ==
  /\ pc = "midway"
  /\ \/ ~appOpen /\ Advance /\ Works
     \/ appOpen /\ End /\ Works
     \/ ~appOpen /\ End /\ Faults
  /\ UNCHANGED <<root, disk, app, ended, ran>>

StepFails ==
  /\ pc \in Fallible /\ (pc \in {"out", "in"} => run.items # {})
  /\ Failed /\ Faults /\ Unmoved /\ UNCHANGED <<app, ended, ran>>

WorkStep ==
  /\ \/ Make \/ WriteManifest \/ WriteKeys \/ ClearKeys \/ PutKeys \/ MoveOut \/ MoveIn
     \/ HeldKeys \/ KeepSettings \/ SetAside \/ ForgetLeft \/ FinishAside
     \/ Verify \/ VerifyArrived
  /\ Works /\ UNCHANGED <<app, ended, ran>>

-----------------------------------------------------------------------------
(* The commits: one save each, and the folders it lists then deleted. *)

\* A save that fails ends the run.  What it forgets of a give-up is written before it.
Commits(s, forgets, then) ==
  /\ \/ /\ saved' = s /\ then /\ Works /\ ran' = FALSE
        /\ IF forgets THEN ForgetsLeft ELSE UNCHANGED folders
     \/ /\ UNCHANGED <<saved, ran>> /\ End /\ Faults
        /\ (forgets /\ ForgetsLeft) \/ UNCHANGED folders
  /\ UNCHANGED <<root, pending, app, ended>>

Settled(s, m) == [IndexAsides(s, m) EXCEPT !.moving = NoMove]

CommitLeave ==
  LET m    == Moving
      kept == IF m.who \in saved.enrolled THEN Park(saved, m.who, m.park, m.login)
              ELSE AddAside(saved, m.park, m.who, m.login)
      s    == [Settled(Nobody(kept), m) EXCEPT !.awaiting = IF m.awaits THEN m.who ELSE @]
      arrives == pc' = "record" /\ run' = [run EXCEPT !.half = "arrive", !.name = None, !.on = "forward"]
  IN /\ pc = "commitLeave"
     /\ Commits(s, TRUE, IF run.on # "settle" /\ run.op = "switch" THEN arrives
                         ELSE Continues)

CommitArrive ==
  LET m    == Moving
      gone == IF KeysAre(m) = "named" THEN KeepAside(saved, m.park, m.who, None) ELSE Discard(saved, m.park)
      who  == IF m.who \in saved.enrolled THEN m.who ELSE None
      s    == [Settled(Identified(gone, who, m.login), m) EXCEPT !.awaiting = None]
  IN pc = "commitArrive" /\ Commits(s, FALSE, Goes("purge"))

\* A move undone: the park let go of, kept aside, or the account's as it was.
Undone ==
  LET m == Moving
      s == CASE m.half = "arrive" -> Nobody(saved)
             [] m.half = "leave" /\ KeysAre(m) = "named" /\ folders[m.park].made ->
                  KeepAside(saved, m.park, m.who, None)
             [] OTHER -> Discard(saved, m.park)
  IN /\ pc = "undone"
     /\ \/ /\ saved' = Settled(s, m) /\ Goes("purge") /\ Works
           /\ ran' = (ran /\ m.half # "arrive")
        \/ UNCHANGED <<saved, ran>> /\ End /\ Faults
     /\ UNCHANGED <<root, folders, pending, app, ended>>

\* set_keys_aside and the save of the start after it.
Started ==
  LET s == AddAside(Nobody(saved), run.name, None, None) IN
  pc = "started" /\ Commits(s, FALSE, End)

\* purge: a folder that holds an item goes only once it is forgotten.
Removable == {d \in saved.discarded :
                d.forgotten \/ \A i \in ItemSet : ~InFolder(d.name, i)}

Purge ==
  LET Deletes(ds) == folders' = Emptying({d.name : d \in ds})
      Lists(ds)   == saved' = [saved EXCEPT !.discarded = @ \ ds]
  IN /\ pc = "purge"
     /\ \/ Deletes(Removable) /\ Lists(Removable) /\ Works
        \/ Deletes(Removable) /\ UNCHANGED saved /\ Faults
        \/ UNCHANGED <<folders, saved>> /\ Faults
     /\ IF run.half = "done" THEN End ELSE Continues
     /\ UNCHANGED pending /\ Still

-----------------------------------------------------------------------------
(* A move that cannot be settled is given up; nothing is deleted. *)

Left(m) ==
  IF root.has[Jar] # m.login /\ folders[m.park].has[Jar] = m.login
  THEN ((m.items \ {Jar}) \cap Present) \ HeldItems(m.park, m.items)
  ELSE {}

GiveUp ==
  LET left == Left(Moving)
      other == root.has[Jar] \notin {None, NoSession}
      Parks(step) == /\ pc' = step
                     /\ run' = [run EXCEPT !.on = "giveUp", !.row = "giveUp", !.list = left]
  IN /\ pc = "giveUp"
     /\ CASE left = {}  -> Parks("hold")
          [] left # {} /\ ~other -> Parks("left")
          [] left # {} /\ other /\ run.op = "abandon" -> End
          [] left # {} /\ other /\ run.op = "enroll" ->
               pc' = "reserve" /\ run' = [run EXCEPT !.half = "giveUp", !.list = left]
     /\ Still /\ Works /\ UNCHANGED disk

\* The park's manifest, of what stays in the app's folder.
ListLeft ==
  LET n == Moving.park IN
  /\ pc = "left" /\ Works /\ UNCHANGED <<app, ended, ran>>
  /\ IF folders[n].manifest = None THEN Failed /\ Unmoved
     ELSE Advance /\ InFolders(n, [folders[n] EXCEPT !.manifest.left = run.list])

\* park_given_up, before its save: what the park holds is all its manifest lists.
Hold ==
  LET m == Moving
      f == folders[m.park]
  IN /\ pc = "hold" /\ Works /\ UNCHANGED <<root, saved, pending, app, ended, ran>>
     /\ CASE f.has[Jar] # m.login -> Advance /\ UNCHANGED folders
          [] f.has[Jar] = m.login /\ f.manifest # None ->
               Advance /\ HoldsWhatIsThere(m.park, m.items)
          [] OTHER -> Failed /\ UNCHANGED folders

\* The park stays the account's only where its jar holds the record's session.
GivenUpPark(m) ==
  LET jar == folders[m.park].has[Jar] IN
  CASE jar = m.login ->
         IF m.who \in saved.enrolled /\ saved.parked[m.who] = None
         THEN Park(saved, m.who, m.park, m.login)
         ELSE IF m.who \in saved.enrolled /\ saved.parked[m.who].name = m.park THEN saved
         ELSE KeepAside(saved, m.park, m.who, m.login)
    [] jar \notin {m.login, None} -> KeepAside(saved, m.park, m.who, SessionIn(jar))
    [] OTHER -> IF HoldsAnything(m.park) THEN KeepAside(saved, m.park, m.who, None)
                ELSE Discard(saved, m.park)

GivenUp ==
  LET s == [Settled(Nobody(GivenUpPark(Moving)), Moving) EXCEPT !.awaiting = None] IN
  pc = "givenUp" /\ Commits(s, FALSE, Goes("purge"))

-----------------------------------------------------------------------------
(* The other commands' own saves. *)

\* enroll: the login the app holds, filed under the person's word.
Enroll ==
  LET a == run.who
      Superseded(s) == {b \in Accounts : /\ s.parked[b] # None
                                         /\ \/ s.parked[b].name = run.also
                                            \/ b = a /\ s.parked[b].login # run.session}
      added == [saved EXCEPT !.enrolled = @ \cup {a}]
      set_aside == [added EXCEPT
        !.parked = [b \in Accounts |-> IF b \in Superseded(added) THEN None ELSE added.parked[b]],
        !.aside = @ \cup {[name |-> added.parked[b].name, account |-> b,
                           login |-> added.parked[b].login] : b \in Superseded(added)}]
      s == [Identified(set_aside, a, run.session) EXCEPT !.awaiting = None]
  IN pc = "enrol" /\ Commits(s, TRUE, End)

\* forget: refused where the account may be the one in use.
Forget ==
  LET a == run.who
      doubt == run.stopped
  IN /\ pc = "forget"
     /\ IF doubt /\ (saved.inUse.who = a \/ saved.parked[a] = None)
        THEN Refused /\ Works /\ UNCHANGED ended
        ELSE \/ /\ saved' = Removed(saved, a) /\ Works
                /\ pc' = "purge" /\ run' = [run EXCEPT !.half = "done"]
                /\ ended' = ended \cup {s \in Sessions : /\ Owner[s] = a
                                        /\ \E n \in Names : folders[n].has[Jar] = s}
                /\ UNCHANGED <<folders, pending>>
             \/ Refused /\ Faults /\ UNCHANGED ended
     /\ UNCHANGED <<root, app, ran>>

Reclaim ==
  /\ pc = "reclaim"
  /\ Resolves({n \in Names : (n \in pending \/ folders[n].made) /\ ~Named(saved, n)}, "giveBack")
  /\ Still

\* give_back_asides: one that agrees on a login an account can take.
GiveBackAsides ==
  /\ pc = "giveBack"
  /\ \/ /\ saved' = GivenBack(saved, {r.name : r \in saved.aside}) /\ Works
        /\ pc' = "purge" /\ run' = [run EXCEPT !.half = "done"]
     \/ UNCHANGED saved /\ End /\ Faults
  /\ UNCHANGED <<folders, pending>> /\ Still

-----------------------------------------------------------------------------
(* The app, and runs that die. *)

\* It makes the stores that are missing.
Opens ==
  /\ ~appOpen /\ opens < MaxOpens
  /\ appOpen' = TRUE /\ opens' = opens + 1
  /\ root' = [root EXCEPT !.has = [i \in ItemSet |->
                IF i \in Rest /\ ~InRoot(i) THEN Fresh ELSE root.has[i]]]
  /\ UNCHANGED <<disk, pc, run, issued, ended, ran, mishaps>>

\* It goes without writing.
Dies ==
  /\ appOpen /\ appOpen' = FALSE
  /\ UNCHANGED <<root, disk, pc, run, issued, opens, ended, ran, mishaps>>

\* Signed in, the stores it finds are that login's.
Writes(jar, keys, is) ==
  /\ appOpen /\ pc = "idle"
  /\ appOpen' = FALSE /\ ran' = TRUE
  /\ root' = [has |-> [i \in ItemSet |-> IF i = Jar THEN jar
                                         ELSE IF InRoot(i) /\ is # Fresh THEN is
                                         ELSE root.has[i]],
              keys |-> keys]
  /\ ended' = ended \cup ({root.has[Jar]} \cap (Sessions \ {jar}))
  /\ UNCHANGED <<disk, pc, run, opens, mishaps>>

\* The name is written before either token cache takes a token: provider/desktop/assumptions.rs.
CachesOf(s, who) == IF who = Owner[s] THEN Tokens \cup {Emptied} ELSE {Emptied}

\* Quit as it was, its tokens as it last held them; with no jar there, one of nobody's.
QuitsAsItWas ==
  LET jar == root.has[Jar] IN
  /\ \/ jar = None /\ Writes(NoSession, [who |-> NamedBy(root.keys), tok |-> Emptied], Fresh)
     \/ jar = NoSession /\ Writes(jar, root.keys, Fresh)
     \/ jar \in Sessions /\ root.keys # None /\ \E tok \in CachesOf(jar, root.keys.who) :
          Writes(jar, [root.keys EXCEPT !.tok = tok], Owner[jar])
  /\ UNCHANGED issued

QuitsLoggedOut ==
  /\ root.has[Jar] \in Sessions
  /\ Writes(NoSession, [who |-> NamedBy(root.keys), tok |-> Emptied], Fresh)
  /\ UNCHANGED issued

\* Quit signed in, whether as somebody else or renewed: a session never seen before, or the
\* one it held.  Before the name is known the settings keep the one they had.
QuitsSignedIn(s) ==
  /\ s \notin issued \/ root.has[Jar] = s
  /\ \E who \in {Owner[s], NamedBy(root.keys)} : \E tok \in CachesOf(s, who) :
       Writes(s, [who |-> who, tok |-> tok], Owner[s])
  /\ issued' = issued \cup {s}

Crash ==
  /\ pc # "idle" /\ Faults
  /\ End
  /\ UNCHANGED <<root, disk, app, ended, ran>>

-----------------------------------------------------------------------------

Init ==
  LET a == Owner[InUse]
      b == Owner[Parked]
      keys(o) == [who |-> o, tok |-> "t1"]
      has(s) == [i \in ItemSet |-> IF i = Jar THEN s ELSE Owner[s]]
      parked == [made |-> TRUE, keys |-> {keys(b)}, has |-> has(Parked),
                 manifest |-> [account |-> b, login |-> Parked, items |-> ItemSet,
                               keys |-> keys(b), left |-> {}]]
  IN /\ root = [has |-> has(InUse), keys |-> keys(a)]
     /\ folders = [n \in Names |-> IF n = 1 THEN parked ELSE NoFolder]
     /\ saved = [enrolled |-> {a, b},
                 parked |-> [o \in Accounts |-> IF o = b THEN [name |-> 1, login |-> Parked] ELSE None],
                 aside |-> {}, discarded |-> {},
                 inUse |-> [who |-> a, login |-> InUse],
                 moving |-> NoMove, awaiting |-> None]
     /\ pending = {} /\ appOpen = FALSE /\ pc = "idle" /\ run = NoRun
     /\ issued = {InUse, Parked} /\ ended = {} /\ ran = FALSE
     /\ opens = 0 /\ mishaps = 0

App == Opens \/ Dies \/ QuitsAsItWas \/ QuitsLoggedOut \/ \E s \in Sessions : QuitsSignedIn(s)

Commit == CommitLeave \/ CommitArrive \/ Undone \/ Started \/ GivenUp \/ Enroll

Working ==
  \/ Sweep \/ Begin \/ Settle \/ LookAtIt \/ Reserve \/ Record
  \/ WorkStep \/ StepFails \/ Midway \/ ListLeft \/ Hold \/ Commit \/ Purge
  \/ GiveUp \/ Forget \/ Reclaim \/ GiveBackAsides

Next ==
  \/ \E op \in Commands, who \in Accounts \cup {None} : Start(op, who)
  \/ Working \/ App \/ Crash

Spec == Init /\ [][Next]_vars

Folders == [made : BOOLEAN, manifest : Manifests \cup {None},
            keys : {{}} \cup {{k} : k \in Keys}, has : Holding]

TypeOK ==
  /\ root \in [has : Holding, keys : Keys]
  /\ folders \in [Names -> Folders]
  /\ \A n \in Names : folders[n].made \/ folders[n] = NoFolder
  /\ saved \in Records /\ pending \subseteq Names
  /\ pc \in Steps /\ run \in Runs
  /\ appOpen \in BOOLEAN /\ ran \in BOOLEAN
  /\ issued \subseteq Sessions /\ ended \subseteq Sessions

\* Steps of this home's runs, and none of the app's.
OfRuns(A) == appOpen' = appOpen /\ pc # "idle" => A

\* A park the record gives an account can be put back: its folder is there with its jar, every
\* item its manifest lists and the keys, all naming that account and that session.  Park::check
\* refuses another only once somebody asks for it (park.rs); no move may leave one behind.
ParksWhole ==
  \A a \in Accounts :
    saved.parked[a] # None /\ ~MoveHolds(saved, saved.parked[a].name) => CanArrive(a)

\* Nothing in an account's park is another account's: what an app opened half way through a
\* move, or a move given up, left in the data folder is never filed with the login that follows;
\* unless the app has signed in, and out again, as the other in the middle of the move.
NotMixed ==
  \A a \in Accounts :
    saved.parked[a] # None /\ ~MoveHolds(saved, saved.parked[a].name) =>
      LET f == folders[saved.parked[a].name]
      IN \A i \in Rest \cap f.manifest.items :
           f.has[i] \in {Owner[saved.parked[a].login], Fresh} \cup {Owner[s] : s \in ended}

\* Whatever a run dies of, a folder that holds part of a login is named: by a record of
\* state.json or by the list of names written down before the folder was made (pending.rs).
EveryFolderNamed ==
  \A n \in Names : HoldsAnything(n) => Named(saved, n) \/ n \in pending

\* A session a sign-in made is where something reads it until the app itself replaces it or
\* its account is forgotten, whatever the app does meanwhile and wherever a run dies.
NoSessionLost ==
  \A s \in issued \ ended : root.has[Jar] = s \/ \E n \in Names : folders[n].has[Jar] = s

\* At rest, and until the app next writes, the account recorded as in use is the one the data
\* folder is signed in as, by its jar and by its settings.
InUseTrue ==
  pc = "idle" /\ ~ran /\ Moving = NoMove /\ saved.inUse.who # None =>
    root.has[Jar] = saved.inUse.login /\ NamedBy(root.keys) = saved.inUse.who

Places(i) == {n \in Names : InFolder(n, i)} \cup (IF InRoot(i) THEN {0} ELSE {})

\* A run moves what it finds and writes over nothing: of each item there are as many after a
\* step as before it, but for those in a folder recorded as forgotten (moves.rs, purge).
OnlyForgottenDeleted ==
  [][OfRuns(\A i \in ItemSet :
       \/ Cardinality(Places(i)') = Cardinality(Places(i))
       \/ \A n \in Places(i) \ Places(i)' : \E d \in saved.discarded : d.name = n /\ d.forgotten)]_vars

\* A move that was recorded ends, settled by the next command or given up by `abandon` or
\* `enroll`, unless the app has a sign-in of its own to finish first.
MoveEnds == Moving # NoMove ~> Moving = NoMove \/ Look.is = "unfinished"

-----------------------------------------------------------------------------

\* A run goes on, an app that is open is quit, and what Pitboard's refusal names is typed.
FairSpec ==
  /\ Spec
  /\ WF_vars(Working)
  /\ WF_vars(appOpen /\ App)
  /\ SF_vars(Start("abandon", None))
  /\ SF_vars(Start("enroll", None))
=============================================================================
