----------------------- MODULE FolderMoveOwnedProofs -----------------------
(* What TLAPS proves of whose each login of FolderMove is. *)
EXTENDS FolderMoveProofs

-----------------------------------------------------------------------------
(* Whose each login is. *)

\* A session is in the app's folder or under `parks`, and in one place only.
Kept ==
  /\ root.has[Jar] \in Sessions => root.has[Jar] \in issued
  /\ \A n \in Names : folders[n].has[Jar] \in Sessions =>
       folders[n].has[Jar] \in issued /\ folders[n].has[Jar] # root.has[Jar]
  /\ \A n, o \in Names : folders[n].has[Jar] \in Sessions /\ folders[o].has[Jar] = folders[n].has[Jar] => n = o
  /\ NoSessionLost

\* What is set aside, where it says whose it is, is.
AsideOwned(r) ==
  LET jar == folders[r.name].has[Jar]
  IN /\ r.account # None /\ jar \in Sessions => Owner[jar] = r.account
     /\ r.login # None => jar = r.login

\* What a record says of whose each folder is, and of which may be deleted with what it holds.
RecordOwned(s) ==
  /\ \A a \in Accounts : s.parked[a] # None => Owner[s.parked[a].login] = a
  /\ \A r \in s.aside : AsideOwned(r)
  /\ \A d \in s.discarded : d.forgotten => folders[d.name].has[Jar] \notin Sessions \ ended

\* A manifest that names a login names whose it is.
ManifestsOwned == \A n \in Names :
  folders[n].manifest # None /\ folders[n].manifest.login # None =>
    Owner[folders[n].manifest.login] = folders[n].manifest.account

\* A move is of its account's login; what it sets aside is no login.
MoveOwned == Moving # NoMove =>
  /\ Moving.login \in issued /\ Owner[Moving.login] = Moving.who
  /\ \A n \in Moving.asides : /\ folders[n].has[Jar] \notin Sessions
                              /\ folders[n].manifest # None => folders[n].manifest.login = None
  /\ Moving.half = "leave" /\ ~ran => saved.inUse.who = Moving.who /\ saved.inUse.login = Moving.login

\* The settings may name another than the session is of: only before their token caches hold
\* a token, and no session that is recorded.
RootOwned == root.has[Jar] \in Sessions =>
  /\ root.keys # None /\ root.keys.tok \in Tokens => root.keys.who = Owner[root.has[Jar]]
  /\ NamedBy(root.keys) \notin {None, Owner[root.has[Jar]]} =>
       /\ Moving # NoMove => Moving.login # root.has[Jar]
       /\ saved.inUse.login # root.has[Jar]

\* Until the app writes, who is recorded as in use is who the app's folder is signed in as.
UseOwned ==
  /\ saved.inUse.login \in issued \cup {None}
  /\ saved.inUse.who # None => saved.inUse.login # None
  /\ ~ran /\ Moving = NoMove /\ saved.inUse.who # None =>
       root.has[Jar] = saved.inUse.login /\ NamedBy(root.keys) = saved.inUse.who

\* What holds of whose each login is, whatever a run is doing.
OwnData == Kept /\ RecordOwned(saved) /\ ManifestsOwned /\ MoveOwned /\ RootOwned /\ UseOwned

\* The app's folder holds no session.
NoLogin == root.has[Jar] \notin Sessions
\* It holds the session of the move, and the settings name whose that is.
MovesLogin == root.has[Jar] = Moving.login /\ NamedBy(root.keys) = Moving.who

\* What an enrol goes by was read before a move was given up: it is so still.
EnrollOwned == run.on = "giveUp" /\ run.op = "enroll" =>
  /\ root.has[Jar] = run.session /\ NamedBy(root.keys) = run.who
  /\ Owner[run.session] = run.who

\* A move is recorded of the login the look found.
ReserveOwned == pc \in {"reserve", "record"} =>
  /\ run.half = "leave" => /\ Owner[root.has[Jar]] = NamedBy(root.keys)
                           /\ saved.inUse.who = NamedBy(root.keys)
  /\ run.half \in {"arrive", "start"} => NoLogin

\* Only a leave's folder says whose login it is of.
BuildOwned == pc \in {"make", "manifest", "keys"} /\ run.row # "leave" => run.kept.login = None

\* What each row of a move leaves of the login in the app's folder, step by step.
RowOwned == pc \in Doing =>
  /\ run.row \in {"leave", "leaveOn"} => root.has[Jar] \in {Moving.login, None, NoSession}
  /\ run.row = "arrive" => /\ pc \in Built \cup {"held", "forgetLeft"} => NoLogin
                           /\ pc \in {"setAside", "out", "forgetLeft", "in"} => root.keys = None
                           /\ pc \in {"in", "put"} => NoLogin \/ root.has[Jar] = Moving.login
                           /\ pc = "midway" => MovesLogin
  /\ run.row = "keysBack" => /\ root.has[Jar] = Moving.login
                             /\ pc = "midway" => MovesLogin
  /\ run.row \in {"backAside", "settingAside"} => root.has[Jar] = None
  /\ run.row = "giveUp" /\ pc \in {"make", "manifest", "keys", "out"} => Jar \notin run.items
  /\ run.row = "start" => NoLogin

\* What a move is saved on, of its login.
CommitOwned ==
  /\ pc = "commitLeave" => NoLogin
  /\ pc = "commitArrive" => MovesLogin
  /\ pc = "undone" /\ Moving.half = "leave" => MovesLogin

\* What holds of a run.
OwnRun == EnrollOwned /\ ReserveOwned /\ BuildOwned /\ RowOwned /\ CommitOwned

\* The inductive invariant, beside Inv.
Owned == OwnData /\ OwnRun

-----------------------------------------------------------------------------
(* What a step that moves no login keeps of that. *)

\* No jar written under `parks`, and no manifest that names a login.
JarsStay == \A n \in Names : folders'[n].has[Jar] = folders[n].has[Jar]
LabelsStay == \A n \in Names : folders'[n].manifest # None =>
  \/ folders'[n].manifest.login = None
  \/ /\ folders[n].manifest # None
     /\ folders'[n].manifest.login = folders[n].manifest.login
     /\ folders'[n].manifest.account = folders[n].manifest.account

\* Sessions are where they were.
LEMMA KeptStays ==
  ASSUME Kept, JarsStay, root'.has[Jar] = root.has[Jar], issued' = issued, ended \subseteq ended'
  PROVE  Kept'
<1>1. \A n \in Names : folders'[n].has[Jar] = folders[n].has[Jar] BY DEF JarsStay
<1>2. NoSessionLost' BY <1>1 DEF Kept, NoSessionLost
<1> QED BY <1>1, <1>2 DEF Kept

\* What a record says of whose a folder is holds of a folder that holds what it held.
LEMMA RecordStays ==
  ASSUME RecordOwned(saved'), saved' \in Records, JarsStay, ended \subseteq ended'
  PROVE  RecordOwned(saved)'
<1>1. \A n \in Names : folders'[n].has[Jar] = folders[n].has[Jar] BY DEF JarsStay
<1>2. \A r \in saved'.aside : r.name \in Names BY DEF Records
<1>3. \A d \in saved'.discarded : d.name \in Names BY DEF Records
<1>4. \A r \in saved'.aside : AsideOwned(r)' BY <1>1, <1>2 DEF RecordOwned, AsideOwned
<1>5. \A d \in saved'.discarded : d.forgotten => folders'[d.name].has[Jar] \notin Sessions \ ended'
  BY <1>1, <1>3 DEF RecordOwned
<1>6. \A a \in Accounts : saved'.parked[a] # None => Owner[saved'.parked[a].login] = a BY DEF RecordOwned
<1> QED BY <1>4, <1>5, <1>6 DEF RecordOwned

\* What a manifest says.
LEMMA ManifestsStay ==
  ASSUME ManifestsOwned, LabelsStay
  PROVE  ManifestsOwned'
BY DEF ManifestsOwned, LabelsStay

\* A move that stays recorded, or gets a folder more to set aside in.
LEMMA MoveStays ==
  ASSUME TypeOK, MoveOwned, JarsStay, LabelsStay, UNCHANGED <<issued, ran>>,
         saved'.moving = saved.moving, saved'.inUse = saved.inUse
  PROVE  MoveOwned'
<1>1. CASE Moving = NoMove BY <1>1 DEF MoveOwned, Moving
<1>2. CASE Moving # NoMove
  <2>1. Moving.asides \in SUBSET Names BY <1>2, MoveTyped
  <2>2. Moving' = Moving BY DEF Moving
  <2>3. ASSUME NEW n \in Moving.asides
        PROVE /\ folders'[n].has[Jar] \notin Sessions
              /\ folders'[n].manifest # None => folders'[n].manifest.login = None
    <3>1. n \in Names BY <2>1
    <3>2. folders'[n].has[Jar] = folders[n].has[Jar] BY <3>1 DEF JarsStay
    <3>3. folders[n].has[Jar] \notin Sessions /\ (folders[n].manifest # None => folders[n].manifest.login = None)
      BY <1>2 DEF MoveOwned
    <3> QED BY <3>1, <3>2, <3>3 DEF LabelsStay
  <2> QED BY <1>2, <2>2, <2>3 DEF MoveOwned
<1> QED BY <1>1, <1>2

\* Nothing of a login written, in the app's folder or in the record.
LEMMA OwnStays ==
  ASSUME TypeOK, OwnData, JarsStay, LabelsStay, UNCHANGED <<saved, issued, ended, ran>>,
         root'.has[Jar] = root.has[Jar], root'.keys = root.keys
  PROVE  OwnData'
<1>1. Kept' BY KeptStays DEF OwnData
<1>2. RecordOwned(saved)'
  <2>1. RecordOwned(saved') /\ saved' \in Records BY DEF OwnData, TypeOK
  <2> QED BY <2>1, RecordStays
<1>3. ManifestsOwned' BY ManifestsStay DEF OwnData
<1>4. MoveOwned' BY MoveStays DEF OwnData
<1>5. RootOwned' BY DEF OwnData, RootOwned, NamedBy, Moving
<1>6. UseOwned' BY DEF OwnData, UseOwned, NamedBy, Moving
<1> QED BY <1>1, <1>2, <1>3, <1>4, <1>5, <1>6 DEF OwnData

\* The folders as they are.
LEMMA FoldersStay ==
  ASSUME UNCHANGED folders
  PROVE  JarsStay /\ LabelsStay
BY DEF JarsStay, LabelsStay

\* Nothing written.
LEMMA SameOwned ==
  ASSUME TypeOK, OwnData, UNCHANGED <<folders, saved, issued, ended, ran>>,
         root'.has[Jar] = root.has[Jar], root'.keys = root.keys
  PROVE  OwnData'
BY OwnStays, FoldersStay

\* A run that ends.
LEMMA EndOwned ==
  ASSUME End
  PROVE  OwnRun'
<1>1. pc' = "idle" /\ run'.on = "forward" BY DEF End, NoRun
<1>2. EnrollOwned' BY <1>1 DEF EnrollOwned
<1>3. ReserveOwned' /\ BuildOwned' /\ CommitOwned' BY <1>1 DEF ReserveOwned, BuildOwned, CommitOwned
<1>4. RowOwned' BY <1>1 DEF RowOwned, Doing, Fallible
<1> QED BY <1>2, <1>3, <1>4 DEF OwnRun

\* The same command, of the same login.
LEMMA EnrollStays ==
  ASSUME EnrollOwned, run'.op = run.op, run'.who = run.who, run'.session = run.session,
         run'.on = run.on \/ run'.on # "giveUp", root'.has[Jar] = root.has[Jar], root'.keys = root.keys
  PROVE  EnrollOwned'
BY DEF EnrollOwned, NamedBy

\* Of the steps that are of no move, only a give-up's enrol says anything.
LEMMA PlainOwned ==
  ASSUME pc' \in Plain \cup {"settle"}, EnrollOwned'
  PROVE  OwnRun'
<1>1. pc' \notin {"reserve", "record", "make", "manifest", "keys", "commitLeave", "commitArrive", "undone"}
  BY DEF Plain
<1>2. pc' \notin Doing BY DEF Plain, Doing, Fallible
<1> QED BY <1>1, <1>2 DEF OwnRun, ReserveOwned, BuildOwned, RowOwned, CommitOwned

\* A run that ends, or dies, nothing written.
LEMMA EndsOwned ==
  ASSUME TypeOK, Owned, UNCHANGED <<root, folders, saved, issued, ended, ran>>, End
  PROVE  Owned'
BY EndOwned, SameOwned DEF Owned

-----------------------------------------------------------------------------
(* Ends, and the first steps of a command. *)

\* What follows a settling is of no move.
LEMMA ContinuesOwned ==
  ASSUME EnrollOwned, Continues, root'.has[Jar] = root.has[Jar], root'.keys = root.keys
  PROVE  OwnRun'
<1>1. End \/ (pc' \in {"reclaim", "look", "enrol"} /\ run' = run)
  BY DEF Continues, Goes
<1>2. CASE End BY <1>2, EndOwned
<1>3. CASE pc' \in {"reclaim", "look", "enrol"} /\ run' = run
  <2>1. EnrollOwned' BY <1>3, EnrollStays
  <2>2. pc' \in Plain BY <1>3 DEF Plain
  <2> QED BY <2>1, <2>2, PlainOwned
<1> QED BY <1>1, <1>2, <1>3

\* Nor is what follows a move that cannot be settled.
LEMMA UndeterminedOwned ==
  ASSUME TypeOK, EnrollOwned, Undetermined, root'.has[Jar] = root.has[Jar], root'.keys = root.keys
  PROVE  OwnRun'
<1>1. \/ End
      \/ pc' \in {"look", "giveUp", "reclaim"} /\ run' \in {run, [run EXCEPT !.stopped = TRUE]}
  BY DEF Undetermined, Goes
<1>2. CASE End BY <1>2, EndOwned
<1>3. CASE pc' \in {"look", "giveUp", "reclaim"} /\ run' \in {run, [run EXCEPT !.stopped = TRUE]}
  <2>1. /\ run'.op = run.op /\ run'.who = run.who /\ run'.session = run.session /\ run'.on = run.on
    BY <1>3 DEF TypeOK, Runs
  <2>2. EnrollOwned' BY <2>1, EnrollStays
  <2>3. pc' \in Plain BY <1>3 DEF Plain
  <2> QED BY <2>2, <2>3, PlainOwned
<1> QED BY <1>1, <1>2, <1>3

\* A step that failed.
LEMMA FailedOwned ==
  ASSUME TypeOK, Owned, Failed, UNCHANGED <<root, folders, saved, issued, ended, ran>>
  PROVE  Owned'
<1>1. OwnData' BY SameOwned DEF Owned
<1>e. EnrollOwned BY DEF Owned, OwnRun
<1>2. CASE Undetermined
  <2>1. OwnRun' BY <1>2, <1>e, UndeterminedOwned
  <2> QED BY <1>1, <2>1 DEF Owned
<1>3. CASE pc' = "settle" /\ run' = [run EXCEPT !.on = "after"]
  <2>1. run'.on = "after" BY <1>3 DEF TypeOK, Runs
  <2>2. EnrollOwned' BY <2>1 DEF EnrollOwned
  <2> QED BY <1>1, <1>3, <2>2, PlainOwned DEF Owned
<1> QED BY <1>2, <1>3 DEF Failed

\* A command's first steps.
LEMMA StartOwned ==
  ASSUME Inv, Owned, NEW op \in Commands, NEW who \in Accounts \cup {None}, Start(op, who)
  PROVE  Owned'
<1>0. pc' \in {"begin", "sweep"} /\ UNCHANGED <<root, folders, saved, issued, ended, ran>>
  BY DEF Start, Still, disk, app
<1>1. OwnData' BY <1>0, SameOwned DEF Owned, Inv
<1>2. run' = [NoRun EXCEPT !.op = op, !.who = who] BY DEF Start
<1>3. run'.on = "forward" BY <1>2 DEF NoRun
<1>4. EnrollOwned' BY <1>3 DEF EnrollOwned
<1>5. pc' \in Plain BY <1>0 DEF Plain
<1> QED BY <1>1, <1>4, <1>5, PlainOwned DEF Owned

\* Closed.
LEMMA BeginOwned ==
  ASSUME Inv, Owned, Begin
  PROVE  Owned'
<1>0. UNCHANGED <<root, folders, saved, issued, ended, ran>> BY DEF Begin, Still, disk, app
<1>i. TypeOK /\ EnrollOwned BY DEF Inv, Owned, OwnRun
<1>1. OwnData' BY <1>0, <1>i, SameOwned DEF Owned
<1>2. \/ pc' = "settle" /\ run' = [run EXCEPT !.on = "settle"]
      \/ pc' = "reclaim" /\ run' = run
      \/ pc' = "forget" /\ run' = [run EXCEPT !.stopped = TRUE]
      \/ End
  BY DEF Begin, Goes
<1>3. CASE End BY <1>0, <1>1, <1>3, EndOwned DEF Owned
<1>4. CASE ~End
  <2>1. /\ run'.op = run.op /\ run'.who = run.who /\ run'.session = run.session
        /\ run'.on = run.on \/ run'.on = "settle"
    BY <1>2, <1>4, <1>i DEF TypeOK, Runs
  <2>2. EnrollOwned' BY <1>0, <1>i, <2>1, EnrollStays
  <2>3. pc' \in Plain \cup {"settle"} BY <1>2, <1>4 DEF Plain
  <2> QED BY <1>1, <2>2, <2>3, PlainOwned DEF Owned
<1> QED BY <1>3, <1>4

\* A run that dies.
LEMMA CrashOwned ==
  ASSUME Inv, Owned, Crash
  PROVE  Owned'
<1>1. UNCHANGED <<root, folders, saved, issued, ended, ran>> /\ End BY DEF Crash, disk, app
<1> QED BY <1>1, EndsOwned DEF Inv

\* A name reserved: what its move is to be of is as it was.
LEMMA ReserveOwns ==
  ASSUME Inv, Owned, Reserve
  PROVE  Owned'
<1>0. pc = "reserve" /\ UNCHANGED <<root, folders, saved, issued, ended, ran>>
  BY DEF Reserve, Refused, Still, disk, app
<1>i. TypeOK /\ OwnRun BY DEF Inv, Owned
<1>1. CASE End BY <1>0, <1>1, <1>i, EndsOwned
<1>2. CASE pc' = "record" /\ run' = [run EXCEPT !.name = Least(Free)]
  <2>1. OwnData' BY <1>0, <1>i, SameOwned DEF Owned
  <2>2. /\ run'.op = run.op /\ run'.who = run.who /\ run'.session = run.session
        /\ run'.on = run.on /\ run'.half = run.half
    BY <1>2, <1>i DEF TypeOK, Runs
  <2>3. EnrollOwned' BY <1>0, <1>i, <2>2, EnrollStays DEF OwnRun
  <2>4. ReserveOwned' BY <1>0, <1>i, <2>2 DEF OwnRun, ReserveOwned, NoLogin, NamedBy
  <2>5. BuildOwned' /\ CommitOwned' BY <1>2 DEF BuildOwned, CommitOwned
  <2>6. RowOwned' BY <1>2 DEF RowOwned, Doing, Fallible
  <2> QED BY <2>1, <2>3, <2>4, <2>5, <2>6 DEF Owned, OwnRun
<1> QED BY <1>1, <1>2 DEF Reserve, Refused

\* A move to be given up.
LEMMA GiveUpOwned ==
  ASSUME Inv, Owned, GiveUp
  PROVE  Owned'
<1>0. pc = "giveUp" /\ UNCHANGED <<root, folders, saved, issued, ended, ran>>
  BY DEF GiveUp, Still, disk, app
<1>i. TypeOK /\ OwnRun /\ Ops BY DEF Inv, RunInv, Owned
<1>l. PICK left : left = Left(Moving) OBVIOUS
<1>1. \/ /\ pc' \in {"hold", "left"}
         /\ run' = [run EXCEPT !.on = "giveUp", !.row = "giveUp", !.list = left]
      \/ End
      \/ run.op = "enroll" /\ pc' = "reserve" /\ run' = [run EXCEPT !.half = "giveUp", !.list = left]
  <2>1. run.op \in {"enroll", "abandon"} BY <1>0, <1>i DEF Ops
  <2> QED BY <1>l, <2>1 DEF GiveUp
<1>2. CASE End BY <1>0, <1>2, <1>i, EndsOwned
<1>3. CASE ~End
  <2>1. OwnData' BY <1>0, <1>i, SameOwned DEF Owned
  <2>2. /\ run'.op = run.op /\ run'.who = run.who /\ run'.session = run.session
        /\ pc' = "reserve" => run'.on = run.on /\ run'.half = "giveUp" /\ run.op = "enroll"
        /\ pc' # "reserve" => run'.row = "giveUp" /\ run'.on = "giveUp"
        /\ pc' \in {"hold", "left", "reserve"}
    BY <1>1, <1>3, <1>i DEF TypeOK, Runs
  <2>3. EnrollOwned'
    <3>1. run.op = "enroll" => run.on = "giveUp" BY <1>0, <1>i DEF Ops
    <3> QED BY <1>0, <1>i, <2>2, <3>1 DEF EnrollOwned, OwnRun, NamedBy
  <2>4. ReserveOwned' BY <2>2 DEF ReserveOwned
  <2>5. BuildOwned' /\ CommitOwned' BY <2>2 DEF BuildOwned, CommitOwned
  <2>6. RowOwned' BY <2>2 DEF RowOwned, Doing, Fallible
  <2> QED BY <2>1, <2>3, <2>4, <2>5, <2>6 DEF Owned, OwnRun
<1> QED BY <1>2, <1>3

\* The app gone as it was.
LEMMA DiesOwned ==
  ASSUME Inv, Owned, Dies
  PROVE  Owned'
<1>1. UNCHANGED <<root, folders, saved, issued, ended, ran, pc, run>> BY DEF Dies, disk
<1>2. OwnData' BY <1>1, SameOwned DEF Inv, Owned
<1>3. OwnRun'
  BY <1>1 DEF Owned, OwnRun, EnrollOwned, ReserveOwned, BuildOwned, RowOwned, CommitOwned, NoLogin,
              MovesLogin, Moving, NamedBy
<1> QED BY <1>2, <1>3 DEF Owned

\* The app opened: it makes no jar.
LEMMA OpensOwned ==
  ASSUME Inv, Owned, Opens
  PROVE  Owned'
<1>1. UNCHANGED <<folders, saved, issued, ended, ran, pc, run>> BY DEF Opens, disk
<1>2. root'.has[Jar] = root.has[Jar] /\ root'.keys = root.keys
  <2>1. root' = [root EXCEPT !.has = [i \in ItemSet |->
                   IF i \in Rest /\ ~InRoot(i) THEN Fresh ELSE root.has[i]]]
    BY DEF Opens
  <2> QED BY <2>1, Constant DEF Inv, TypeOK
<1>3. OwnData' BY <1>1, <1>2, SameOwned DEF Inv, Owned
<1>4. OwnRun'
  BY <1>1, <1>2 DEF Owned, OwnRun, EnrollOwned, ReserveOwned, BuildOwned, RowOwned, CommitOwned, NoLogin,
                    MovesLogin, Moving, NamedBy
<1> QED BY <1>3, <1>4 DEF Owned

-----------------------------------------------------------------------------
(* The app writes. *)

\* The app quit, and the jar it wrote is one it had, or new, or of no session: what it replaced
\* it ended.
LEMMA WritesOwned ==
  ASSUME Inv, Owned, NEW jar \in Jars, NEW keys \in Keys, NEW is, Writes(jar, keys, is),
         jar \in Sessions => \/ jar = root.has[Jar] /\ issued' = issued
                             \/ jar \notin issued /\ issued' = issued \cup {jar},
         jar \notin Sessions => issued' = issued,
         jar \in Sessions /\ keys # None /\ keys.tok \in Tokens => keys.who = Owner[jar],
         jar \in Sessions /\ jar = root.has[Jar] => NamedBy(keys) \in {NamedBy(root.keys), Owner[jar]}
  PROVE  Owned'
<1>0. /\ pc = "idle" /\ pc' = "idle" /\ run' = run /\ UNCHANGED <<folders, saved>>
      /\ ran' = TRUE /\ ended' = ended \cup ({root.has[Jar]} \cap (Sessions \ {jar}))
  BY DEF Writes, disk
<1>1. root'.has[Jar] = jar /\ root'.keys = keys BY Constant DEF Writes
<1>i. TypeOK /\ Ops /\ OwnData BY DEF Inv, RunInv, Owned
<1>2. issued \subseteq issued' /\ ended \subseteq ended' BY <1>0, <1>1
<1>3. run = NoRun BY <1>0, <1>i DEF Ops
<1>4. OwnRun' BY <1>0, <1>3, EndOwned DEF End
<1>5. JarsStay /\ LabelsStay BY <1>0, FoldersStay
<1>k. Kept BY <1>i DEF OwnData
<1>6. Kept'
  <2>1. root'.has[Jar] \in Sessions => root'.has[Jar] \in issued' BY <1>1, <1>k DEF Kept
  <2>2. ASSUME NEW n \in Names, folders[n].has[Jar] \in Sessions
        PROVE  folders[n].has[Jar] \in issued' /\ folders[n].has[Jar] # jar
    BY <2>2, <1>2, <1>k DEF Kept
  <2>3. NoSessionLost'
    <3> SUFFICES ASSUME NEW s \in issued' \ ended'
                 PROVE  root'.has[Jar] = s \/ \E n \in Names : folders'[n].has[Jar] = s
      BY DEF NoSessionLost
    <3>1. CASE s = jar BY <3>1, <1>1
    <3>2. CASE s # jar
      <4>1. s \in issued \ ended BY <3>2, <1>2
      <4>2. root.has[Jar] = s \/ \E n \in Names : folders[n].has[Jar] = s
        BY <4>1, <1>k DEF Kept, NoSessionLost
      <4>3. s \in Sessions BY <4>1, <1>i DEF TypeOK
      <4>4. root.has[Jar] # s BY <4>3, <3>2, <1>0
      <4> QED BY <4>2, <4>4, <1>0
    <3> QED BY <3>1, <3>2
  <2> QED BY <2>1, <2>2, <2>3, <1>0, <1>1, <1>k DEF Kept
<1>7. RecordOwned(saved)' /\ ManifestsOwned'
  <2>1. RecordOwned(saved') /\ saved' \in Records BY <1>0, <1>i DEF OwnData, TypeOK
  <2> QED BY <2>1, <1>2, <1>5, <1>i, RecordStays, ManifestsStay DEF OwnData
<1>8. MoveOwned'
  BY <1>0, <1>2, <1>i DEF OwnData, MoveOwned, Moving
<1>9. RootOwned'
  <2> SUFFICES ASSUME jar \in Sessions
               PROVE  /\ keys # None /\ keys.tok \in Tokens => keys.who = Owner[jar]
                      /\ NamedBy(keys) \notin {None, Owner[jar]} =>
                           /\ Moving # NoMove => Moving.login # jar
                           /\ saved.inUse.login # jar
    BY <1>0, <1>1 DEF RootOwned, NamedBy, Moving
  <2>1. CASE jar = root.has[Jar] BY <2>1, <1>i DEF OwnData, RootOwned
  <2>2. CASE jar \notin issued
    <3>1. jar # None BY SessionsApart
    <3> QED BY <2>2, <3>1, <1>i DEF OwnData, MoveOwned, UseOwned
  <2> QED BY <2>1, <2>2
<1>10. UseOwned' BY <1>0, <1>2, <1>i DEF OwnData, UseOwned
<1> QED BY <1>4, <1>6, <1>7, <1>8, <1>9, <1>10 DEF Owned, OwnData

\* Each way the app opens, goes or quits.
LEMMA AppOwned ==
  ASSUME Inv, Owned, App
  PROVE  Owned'
<1>i. TypeOK /\ Kept BY DEF Inv, Owned, OwnData
<1>k. root.keys \in Keys BY <1>i DEF TypeOK
<1>n. NamedBy(root.keys) \in Accounts \cup {None} BY <1>k DEF NamedBy, Keys
<1>o. \A s \in Sessions : Owner[s] \in Accounts BY SessionsOwned
<1>s. NoSession \notin Sessions /\ None \notin Sessions BY SessionsApart
<1>e. \A w \in Accounts \cup {None}, t \in Tokens \cup {Emptied} : [who |-> w, tok |-> t] \in Keys
  BY DEF Keys
<1>w. \A w \in Accounts \cup {None}, t \in Tokens \cup {Emptied} : NamedBy([who |-> w, tok |-> t]) = w
  <2>1. \A w \in Accounts \cup {None}, t \in Tokens \cup {Emptied} : [who |-> w, tok |-> t] # None
    BY NoneApart
  <2> QED BY <2>1 DEF NamedBy
<1>t. Emptied \notin Tokens BY DEF Emptied, Tokens
<1>c. \A s, w : \A t \in CachesOf(s, w) : t \in Tokens \cup {Emptied} /\ (t \in Tokens => w = Owner[s])
  BY <1>t DEF CachesOf
<1>j. NoSession \in Jars /\ \A s \in Sessions : s \in Jars BY DEF Jars
<1>1. CASE Opens BY <1>1, OpensOwned
<1>2. CASE Dies BY <1>2, DiesOwned
<1>3. CASE QuitsAsItWas
  <2>0. UNCHANGED issued BY <1>3 DEF QuitsAsItWas
  <2>1. CASE Writes(NoSession, [who |-> NamedBy(root.keys), tok |-> Emptied], Fresh)
    <3>1. [who |-> NamedBy(root.keys), tok |-> Emptied] \in Keys BY <1>e, <1>n
    <3> QED BY <2>0, <2>1, <3>1, <1>j, <1>s, WritesOwned
  <2>2. CASE Writes(NoSession, root.keys, Fresh)
    BY <2>0, <2>2, <1>k, <1>j, <1>s, WritesOwned
  <2>3. ASSUME root.has[Jar] \in Sessions, root.keys # None, NEW t \in CachesOf(root.has[Jar], root.keys.who),
               Writes(root.has[Jar], [root.keys EXCEPT !.tok = t], Owner[root.has[Jar]])
        PROVE  Owned'
    <3> PICK s : s = root.has[Jar] OBVIOUS
    <3> PICK k : k = [root.keys EXCEPT !.tok = t] OBVIOUS
    <3>1. s \in Sessions /\ Writes(s, k, Owner[s]) BY <2>3
    <3>2. t \in Tokens \cup {Emptied} /\ (t \in Tokens => root.keys.who = Owner[s]) BY <1>c
    <3>3. k \in Keys /\ k.tok = t /\ k.who = root.keys.who BY <2>3, <3>2, <1>k DEF Keys
    <3>4. k # None
      <4>1. k \in [who : Accounts \cup {None}, tok : Tokens \cup {Emptied}]
        BY <2>3, <3>2, <1>k DEF Keys
      <4> QED BY <4>1, NoneApart
    <3>5. NamedBy(k) = NamedBy(root.keys) BY <2>3, <3>3, <3>4 DEF NamedBy
    <3> QED BY <2>0, <3>1, <3>2, <3>3, <3>5, <1>j, WritesOwned
  <2> QED BY <1>3, <2>1, <2>2, <2>3 DEF QuitsAsItWas
<1>4. CASE QuitsLoggedOut
  <2>1. [who |-> NamedBy(root.keys), tok |-> Emptied] \in Keys BY <1>e, <1>n
  <2> QED BY <1>4, <2>1, <1>j, <1>s, WritesOwned DEF QuitsLoggedOut
<1>5. ASSUME NEW s \in Sessions, QuitsSignedIn(s) PROVE Owned'
  <2>1. PICK w \in {Owner[s], NamedBy(root.keys)} : \E t \in CachesOf(s, w) :
          Writes(s, [who |-> w, tok |-> t], Owner[s])
    BY <1>5 DEF QuitsSignedIn
  <2>2. PICK t \in CachesOf(s, w) : Writes(s, [who |-> w, tok |-> t], Owner[s]) BY <2>1
  <2>3. w \in Accounts \cup {None} BY <1>n, <1>o
  <2>4. t \in Tokens \cup {Emptied} /\ (t \in Tokens => w = Owner[s]) BY <1>c
  <2>5. [who |-> w, tok |-> t] \in Keys /\ NamedBy([who |-> w, tok |-> t]) = w BY <2>3, <2>4, <1>e, <1>w
  <2>6. (s \notin issued \/ root.has[Jar] = s) /\ issued' = issued \cup {s} BY <1>5 DEF QuitsSignedIn
  <2>7. root.has[Jar] = s => issued' = issued BY <2>6, <1>i DEF Kept
  <2>k. PICK k : k = [who |-> w, tok |-> t] OBVIOUS
  <2>8. k \in Keys /\ NamedBy(k) = w /\ k.tok = t /\ k.who = w /\ Writes(s, k, Owner[s])
    BY <2>k, <2>2, <2>5
  <2> QED BY <2>4, <2>6, <2>7, <2>8, <1>j, WritesOwned
<1> QED BY <1>1, <1>2, <1>3, <1>4, <1>5 DEF App

-----------------------------------------------------------------------------
(* A move settled. *)

\* What the app's folder holds, by the row settling finds.
RowOwns(m, r) ==
  /\ r.step \in {"undone", "commitArrive"} => root.has[Jar] = m.login /\ NamedBy(root.keys) = m.who
  /\ r.step = "put" => root.has[Jar] = m.login
  /\ r.row = "leaveOn" => root.has[Jar] \in {m.login, None, NoSession}
  /\ r.row = "backAside" => root.has[Jar] = None

\* A move goes on, or back, by whose login is where.
LEMMA RowOwnsIt ==
  ASSUME NEW m \in Moves, NamedBy(m.keys) = m.who, NEW r, r = Row(m)
  PROVE  RowOwns(m, r)
<1> DEFINE here == JarIs(root.has[Jar], m.login)
           keys == KeysAre(m)
           To(step, line, items) == [step |-> step, row |-> line, items |-> items]
<1>1. here = "mine" => root.has[Jar] = m.login BY DEF JarIs
<1>2. here = "none" => root.has[Jar] = None BY DEF JarIs
<1>3. here = "noSession" => root.has[Jar] = NoSession BY DEF JarIs
<1>4. keys \in {"mine", "named"} => NamedBy(root.keys) = m.who BY DEF KeysAre
<1>5. \A k, is : LeftOn(k, is).step \in {"clear", "out"} /\ LeftOn(k, is).row = "leaveOn"
  BY DEF LeftOn
<1>7. CASE m.half = "leave"
  <2>1. \/ here = "mine" /\ keys \in {"mine", "named"} /\ r = To("undone", None, {})
        \/ here = "mine" /\ r = To("put", "keysBack", {})
        \/ here = "mine" /\ r = LeftOn(keys, m.items)
        \/ here \in {"none", "noSession"} /\ \E is \in SUBSET (m.items \ {Jar}) : r = LeftOn("none", is)
        \/ r = To("stop", None, {})
    BY <1>7 DEF Row
  <2>2. None \notin Rows BY NoneApart
  <2> HIDE DEF here, keys
  <2> QED BY <1>1, <1>2, <1>3, <1>4, <1>5, <2>1, <2>2 DEF RowOwns, Rows
<1>8. CASE m.half = "arrive"
  <2>1. \/ here = "mine" /\ keys \in {"mine", "named"} /\ r = To("commitArrive", None, {})
        \/ r = To("out", "back", m.items)
        \/ r = To("reserve", "keysAside", m.items)
        \/ r = To("out", IF here = "none" THEN "backAside" ELSE "back", m.items \ {Jar})
        \/ r = To("stop", None, {})
    BY <1>8 DEF Row
  <2>2. None \notin Rows BY NoneApart
  <2> HIDE DEF here, keys
  <2> QED BY <1>1, <1>2, <1>4, <2>1, <2>2 DEF RowOwns, Rows
<1> QED BY <1>7, <1>8 DEF Moves

\* A move settled.
LEMMA SettleOwned ==
  ASSUME Inv, Owned, Settle
  PROVE  Owned'
<1>0. pc = "settle" /\ UNCHANGED <<root, folders, saved, issued, ended, ran>>
  BY DEF Settle, Still, disk, app
<1>i. TypeOK /\ OwnRun /\ EnrollOwned /\ MovePark BY DEF Inv, Data, Owned, OwnRun
<1>d. OwnData' BY <1>0, <1>i, SameOwned DEF Owned
<1>1. CASE Moving = NoMove
  <2>1. Continues BY <1>1 DEF Settle
  <2>2. OwnRun' BY <2>1, <1>0, <1>i, ContinuesOwned
  <2> QED BY <1>d, <2>2 DEF Owned
<1>2. CASE Moving # NoMove
  <2> PICK m : m = Moving OBVIOUS
  <2> PICK r : r = Row(m) OBVIOUS
  <2>m. m \in Moves /\ NamedBy(m.keys) = m.who BY <1>2, <1>i, MoveTyped DEF MovePark
  <2>r. RowIs(m, r) BY <2>m, RowOf
  <2>w. RowOwns(m, r) BY <2>m, RowOwnsIt
  <2>s. \/ Undetermined
        \/ r.step = "reserve" /\ pc' = "reserve" /\ run' = [run EXCEPT !.half = "keysAside"]
        \/ r.step \notin {"stop", "reserve"} /\ Starts(r.step, run.on, r.row, r.items, m.park)
    BY <1>2 DEF Settle
  <2>n. Moving' = m BY <1>0 DEF Moving
  <2>1. CASE Undetermined
    <3>1. OwnRun' BY <2>1, <1>0, <1>i, UndeterminedOwned
    <3> QED BY <1>d, <3>1 DEF Owned
  <2>2. CASE r.step = "reserve" /\ pc' = "reserve" /\ run' = [run EXCEPT !.half = "keysAside"]
    <3>1. /\ run'.op = run.op /\ run'.who = run.who /\ run'.session = run.session
          /\ run'.on = run.on /\ run'.half = "keysAside"
      BY <2>2, <1>i DEF TypeOK, Runs
    <3>2. EnrollOwned' BY <1>0, <1>i, <3>1, EnrollStays
    <3>3. ReserveOwned' BY <3>1 DEF ReserveOwned
    <3>4. BuildOwned' /\ CommitOwned' BY <2>2 DEF BuildOwned, CommitOwned
    <3>5. RowOwned' BY <2>2 DEF RowOwned, Doing, Fallible
    <3> QED BY <1>d, <3>2, <3>3, <3>4, <3>5 DEF Owned, OwnRun
  <2>3. CASE Starts(r.step, run.on, r.row, r.items, m.park) /\ r.step \notin {"stop", "reserve"}
    <3>0. pc' = r.step /\ run' = [run EXCEPT !.on = run.on, !.row = r.row, !.items = r.items, !.to = m.park]
      BY <2>3 DEF Starts
    <3>1. /\ run'.on = run.on /\ run'.op = run.op /\ run'.who = run.who /\ run'.session = run.session
          /\ run'.row = r.row
      BY <3>0, <1>i DEF TypeOK, Runs
    <3>p. pc' \in {"undone", "put", "clear", "out", "commitArrive"}
      BY <2>3, <2>r, <3>0 DEF RowIs
    <3>2. EnrollOwned' BY <1>0, <1>i, <3>1, EnrollStays
    <3>3. ReserveOwned' /\ BuildOwned' BY <3>p DEF ReserveOwned, BuildOwned
    <3>4. CommitOwned'
      BY <1>0, <2>n, <2>w, <3>0, <3>p DEF CommitOwned, RowOwns, MovesLogin, NamedBy
    <3>5. RowOwned'
      <4>1. pc' \in Doing => r.row \in {"keysBack", "leaveOn", "back", "backAside"}
        BY <2>3, <2>r, <3>0 DEF RowIs, Doing, Fallible
      <4>2. r.row = "keysBack" => pc' = "put" \/ pc' \notin Doing
        BY <2>3, <2>r, <3>0 DEF RowIs, Doing, Fallible
      <4>3. r.row = "keysBack" /\ pc' = "put" => root'.has[Jar] = m.login
        BY <1>0, <2>w, <3>0 DEF RowOwns
      <4>4. r.row = "leaveOn" => root'.has[Jar] \in {m.login, None, NoSession}
        BY <1>0, <2>w DEF RowOwns
      <4>5. r.row = "backAside" => root'.has[Jar] = None BY <1>0, <2>w DEF RowOwns
      <4> QED BY <2>n, <3>1, <4>1, <4>2, <4>3, <4>4, <4>5 DEF RowOwned
    <3> QED BY <1>d, <3>2, <3>3, <3>4, <3>5 DEF Owned, OwnRun
  <2> QED BY <2>s, <2>1, <2>2, <2>3
<1> QED BY <1>1, <1>2

-----------------------------------------------------------------------------
(* What a look finds. *)

\* Who the app's folder is found to be is whose its session is; a find of nobody is of no session.
LEMMA LookOwned ==
  ASSUME Inv, OwnData, NEW v, v = Look
  PROVE  /\ v.is \in Known => v.who = Owner[root.has[Jar]]
         /\ v.is = "account" => saved.inUse.who = NamedBy(root.keys)
         /\ v.is = "nobody" => NoLogin
<1> DEFINE jar == root.has[Jar]
           named == NamedBy(root.keys)
           use == saved.inUse
           recorded == IF use.login = jar /\ use.who \in saved.enrolled THEN use.who ELSE None
           also == HeldBy(saved, jar)
<1>i. TypeOK /\ JarsTyped /\ ParksWhole /\ Apart(saved) /\ MovePark /\ Kept /\ RecordOwned(saved) /\ RootOwned
  BY DEF Inv, Data, OwnData
<1>1. v.is \in Known => jar \in Sessions /\ v.who = named /\ named \in Accounts
  BY <1>i, LookIs
<1>2. v.is = "account" => use.who = named
  <2>1. \/ v.is = "account" /\ recorded = named /\ recorded # None
        \/ v.is = "account" /\ named = use.who
        \/ v.is # "account"
    BY DEF Look, Says
  <2> QED BY <2>1
<1>3. v.is = "nobody" => jar \in {None, NoSession}
  BY DEF Look, Says
<1>4. ASSUME jar \in Sessions, named \in Accounts, named # Owner[jar]
      PROVE  v.is \notin Known
  <2>0. jar # None /\ jar # NoSession /\ named # None BY <1>4, SessionsApart, NoneApart
  <2>1. root.keys # None BY <2>0 DEF NamedBy
  <2>2. root.keys.tok = Emptied
    <3>1. root.keys.who = named BY <2>1 DEF NamedBy
    <3>2. root.keys.tok \notin Tokens BY <1>4, <2>1, <3>1, <1>i DEF RootOwned
    <3>3. root.keys.tok \in Tokens \cup {Emptied} BY <2>1, <1>i DEF TypeOK, Keys
    <3> QED BY <3>2, <3>3
  <2>3. SignedOutKeys(root.keys) BY <2>1, <2>2 DEF SignedOutKeys
  <2>4. use.login # jar /\ (Moving # NoMove => Moving.login # jar) BY <1>4, <2>0, <1>i DEF RootOwned
  <2>5. recorded = None BY <2>4
  <2>6. also = {}
    <3>1. ASSUME NEW a \in Accounts, saved.parked[a] # None, saved.parked[a].login = jar
          PROVE  FALSE
      <4>1. saved.parked[a].name \in Names BY <3>1, <1>i DEF TypeOK, Records
      <4>2. CASE MoveHolds(saved, saved.parked[a].name)
        <5>1. Moving # NoMove /\ IsPark(saved, a, saved.parked[a].name)
          BY <3>1, <4>2 DEF MoveHolds, Moving, IsPark
        <5>2. Moving.half = "arrive" /\ a = Moving.who
          BY <4>1, <4>2, <5>1, <1>i DEF Apart, Moving, NoMove
        <5>3. saved.parked[a].login = Moving.login BY <5>1, <5>2, <1>i DEF MovePark
        <5> QED BY <3>1, <5>1, <5>3, <2>4
      <4>3. CASE ~MoveHolds(saved, saved.parked[a].name)
        <5>1. folders[saved.parked[a].name].has[Jar] = jar BY <3>1, <4>3, <1>i DEF ParksWhole, CanArrive
        <5> QED BY <1>4, <4>1, <5>1, <1>i DEF Kept
      <4> QED BY <4>2, <4>3
    <3>2. ASSUME NEW q \in saved.aside, q.login = jar
          PROVE  FALSE
      <4>1. q.name \in Names BY <1>i DEF TypeOK, Records
      <4>2. folders[q.name].has[Jar] = jar BY <3>2, <2>0, <1>i DEF RecordOwned, AsideOwned
      <4> QED BY <1>4, <4>1, <4>2, <1>i DEF Kept
    <3> QED BY <3>1, <3>2 DEF HeldBy
  <2>7. v.is = "unfinished"
    <3>1. v = IF named = None THEN Says("unfinished", None, FALSE)
              ELSE IF recorded # None
              THEN Says(IF recorded = named THEN "account" ELSE "anothers", named, FALSE)
              ELSE IF also # {} THEN [Says("heldTwice", named, FALSE) EXCEPT !.also = CHOOSE n \in also : TRUE]
              ELSE IF SignedOutKeys(root.keys) THEN Says("unfinished", None, FALSE)
              ELSE Says(IF named # use.who \/ named \notin saved.enrolled THEN "unseen"
                        ELSE IF saved.parked[named] # None THEN "alsoParked"
                        ELSE "account", named, FALSE)
      BY <2>0 DEF Look
    <3>2. v = Says("unfinished", None, FALSE) BY <2>0, <2>3, <2>5, <2>6, <3>1
    <3> QED BY <3>2 DEF Says
  <2> QED BY <2>7 DEF Known
<1> QED BY <1>1, <1>2, <1>3, <1>4, SessionsApart DEF NoLogin

\* Nobody in use recorded, with no move under way.
LEMMA NobodyOwned ==
  ASSUME Inv, OwnData, Moving = NoMove, saved' = Nobody(saved), UNCHANGED <<root, folders, issued, ended, ran>>
  PROVE  OwnData'
<1>i. TypeOK /\ saved \in Records BY DEF Inv, TypeOK
<1>1. /\ saved' \in Records /\ saved'.parked = saved.parked /\ saved'.aside = saved.aside
      /\ saved'.discarded = saved.discarded /\ saved'.moving = saved.moving
  BY <1>i, NobodyOf
<1>2. saved'.inUse = [who |-> None, login |-> None] BY <1>i DEF Nobody, Identified, Records
<1>3. JarsStay /\ LabelsStay BY FoldersStay
<1>4. Kept' BY <1>3, KeptStays DEF OwnData
<1>5. RecordOwned(saved)'
  <2>1. RecordOwned(saved') BY <1>1 DEF OwnData, RecordOwned
  <2> QED BY <1>1, <1>3, <2>1, RecordStays
<1>6. ManifestsOwned' BY <1>3, ManifestsStay DEF OwnData
<1>7. Moving' = NoMove BY <1>1 DEF Moving
<1>8. MoveOwned' BY <1>7 DEF MoveOwned
<1>9. RootOwned' BY <1>2, <1>7, SessionsApart DEF OwnData, RootOwned
<1>10. UseOwned' BY <1>2 DEF UseOwned
<1> QED BY <1>4, <1>5, <1>6, <1>8, <1>9, <1>10 DEF OwnData

\* A half begun, of the login the look found.
LEMMA BeginsOwned ==
  ASSUME Inv, Owned, pc = "look", UNCHANGED <<root, folders, issued, ended, ran>>,
         NEW half, NEW aside, Begins(half, aside),
         half = "leave" => /\ Owner[root.has[Jar]] = NamedBy(root.keys)
                           /\ saved.inUse.who = NamedBy(root.keys),
         half \in {"arrive", "start"} => NoLogin
  PROVE  Owned'
<1>0. UNCHANGED saved BY DEF Begins, disk
<1>i. TypeOK /\ OwnRun BY DEF Inv, Owned
<1>1. OwnData' BY <1>0, <1>i, SameOwned DEF Owned
<1>2. pc' \in {"record", "reserve"} /\ run'.half = half /\ run'.on = "forward"
  BY <1>i DEF Begins, TypeOK, Runs
<1>3. EnrollOwned' BY <1>2 DEF EnrollOwned
<1>4. ReserveOwned' BY <1>0, <1>2 DEF ReserveOwned, NoLogin, NamedBy
<1>5. BuildOwned' /\ CommitOwned' BY <1>2 DEF BuildOwned, CommitOwned
<1>6. RowOwned' BY <1>2 DEF RowOwned, Doing, Fallible
<1> QED BY <1>1, <1>3, <1>4, <1>5, <1>6 DEF Owned, OwnRun

\* The look, and what each command makes of it.
LEMMA LookAtItOwned ==
  ASSUME Inv, Owned, LookAtIt
  PROVE  Owned'
<1>0. pc = "look" /\ UNCHANGED <<root, issued, ended, ran>> BY DEF LookAtIt, Still, app
<1>i. TypeOK /\ JarsTyped /\ Ops /\ OwnRun /\ OwnData BY DEF Inv, Data, RunInv, Owned
<1>v. PICK v : v = Look OBVIOUS
<1>l. /\ v.is \in Known => v.who = Owner[root.has[Jar]]
      /\ v.is = "account" => saved.inUse.who = NamedBy(root.keys)
      /\ v.is = "nobody" => NoLogin
  BY <1>v, <1>i, LookOwned
<1>k. /\ v.is \in {"unknown", "nobody", "unfinished"} \cup Known
      /\ v.is \in Known => v.who = NamedBy(root.keys)
  BY <1>v, <1>i, LookIs
<1>a. v.is = "account" => Owner[root.has[Jar]] = NamedBy(root.keys) /\ saved.inUse.who = NamedBy(root.keys)
  BY <1>l, <1>k DEF Known
<1>s. \/ run.op = "switch" /\ LookForSwitch(v)
      \/ run.op = "start" /\ LookForStart(v)
      \/ Refused
      \/ run.op = "forget" /\ LookForForget(v)
      \/ run.op = "enroll" /\ LookForEnroll(v)
  <2>1. run.op \in Commands /\ run.op \notin {"repair", "abandon"}
    BY <1>0, <1>i DEF Ops, TypeOK, Runs
  <2> QED BY <1>v, <2>1 DEF LookAtIt, Commands
<1>n. run.op # "enroll" => Moving = NoMove BY <1>0, <1>i DEF Ops
<1>r. CASE Refused
  <2>1. UNCHANGED <<folders, saved>> /\ End BY <1>r DEF Refused, disk
  <2> QED BY <1>0, <1>i, <2>1, EndsOwned
<1>1. CASE run.op = "switch" /\ LookForSwitch(v)
  <2>1. CASE v.is = "account" /\ Begins("leave", FALSE)
    <3>1. UNCHANGED folders BY <2>1 DEF Begins, disk
    <3> QED BY <1>0, <1>a, <2>1, <3>1, BeginsOwned
  <2>2. CASE v.is = "nobody" /\ Begins("arrive", v.leftovers)
    <3>1. UNCHANGED folders BY <2>2 DEF Begins, disk
    <3> PICK lo : lo = v.leftovers OBVIOUS
    <3> QED BY <1>0, <1>l, <2>2, <3>1, BeginsOwned
  <2> QED BY <1>1, <1>r, <2>1, <2>2 DEF LookForSwitch
<1>2. CASE run.op = "start" /\ LookForStart(v)
  <2>1. CASE v.is = "account" /\ Begins("leave", FALSE)
    <3>1. UNCHANGED folders BY <2>1 DEF Begins, disk
    <3> QED BY <1>0, <1>a, <2>1, <3>1, BeginsOwned
  <2>2. CASE v.is = "nobody" /\ Begins("start", TRUE)
    <3>1. UNCHANGED folders BY <2>2 DEF Begins, disk
    <3> QED BY <1>0, <1>l, <2>2, <3>1, BeginsOwned
  <2>3. CASE End /\ saved' = Nobody(saved) /\ UNCHANGED <<folders, pending>>
    <3>1. OwnData' BY <1>0, <1>i, <1>2, <1>n, <2>3, NobodyOwned
    <3> QED BY <2>3, <3>1, EndOwned DEF Owned
  <2> QED BY <1>2, <1>r, <2>1, <2>2, <2>3 DEF LookForStart
<1>3. CASE run.op = "forget" /\ LookForForget(v)
  <2>1. OwnData'
    <3>1. CASE saved' = Nobody(saved) /\ UNCHANGED <<folders, pending>>
      BY <1>0, <1>i, <1>3, <1>n, <3>1, NobodyOwned
    <3>2. CASE UNCHANGED disk BY <1>0, <1>i, <3>2, SameOwned DEF disk
    <3> QED BY <1>3, <3>1, <3>2 DEF LookForForget
  <2>2. pc' = "forget" /\ run'.on = run.on BY <1>3, <1>i DEF LookForForget, TypeOK, Runs
  <2>3. run.on = "settle" BY <1>0, <1>i DEF Ops
  <2>4. EnrollOwned' BY <2>2, <2>3 DEF EnrollOwned
  <2>5. pc' \in Plain BY <2>2 DEF Plain
  <2> QED BY <2>1, <2>4, <2>5, PlainOwned DEF Owned
<1>4. CASE run.op = "enroll" /\ LookForEnroll(v)
  <2>1. CASE /\ run' = [run EXCEPT !.who = v.who, !.session = root.has[Jar], !.also = v.also, !.on = "giveUp"]
             /\ pc' \in {"giveUp", "enrol"} /\ UNCHANGED disk /\ v.is \in Known
    <3>1. OwnData' BY <1>0, <1>i, <2>1, SameOwned DEF disk
    <3>2. run'.who = v.who /\ run'.session = root.has[Jar] BY <2>1, <1>i DEF TypeOK, Runs
    <3>3. EnrollOwned' BY <1>0, <1>l, <1>k, <2>1, <3>2 DEF EnrollOwned, NamedBy
    <3>4. pc' \in Plain BY <2>1 DEF Plain
    <3> QED BY <3>1, <3>3, <3>4, PlainOwned DEF Owned
  <2> QED BY <1>4, <1>k, <1>r, <2>1 DEF LookForEnroll
<1> QED BY <1>s, <1>r, <1>1, <1>2, <1>3, <1>4

-----------------------------------------------------------------------------
(* Whose a move is that is recorded. *)

\* Only the move, and who is in use, written: whose each folder is stays.
LEMMA FilesOwned ==
  ASSUME OwnData, saved' \in Records, saved'.parked = saved.parked, saved'.aside = saved.aside,
         saved'.discarded = saved.discarded, UNCHANGED <<root, folders, issued, ended>>
  PROVE  Kept' /\ RecordOwned(saved)' /\ ManifestsOwned'
<1>1. JarsStay /\ LabelsStay BY FoldersStay
<1>2. RecordOwned(saved') BY DEF OwnData, RecordOwned
<1> QED BY <1>1, <1>2, KeptStays, RecordStays, ManifestsStay DEF OwnData

\* A leave recorded, of the account in use.
LEMMA RecordLeaveOwned ==
  ASSUME Inv, Inv', Owned, pc = "record", RecordLeave, Still
  PROVE  Owned'
<1>i. TypeOK /\ OwnData /\ OwnRun /\ Reserving /\ Halves BY DEF Inv, RunInv, Owned
<1>0. UNCHANGED <<root, folders, issued, ended, ran>> /\ run.half = "leave"
  BY DEF RecordLeave, Recorded, Still, app
<1>h. /\ root.has[Jar] \in Sessions /\ NamedBy(root.keys) \in Accounts /\ Moving = NoMove
      /\ Owner[root.has[Jar]] = NamedBy(root.keys) /\ saved.inUse.who = NamedBy(root.keys)
  BY <1>0, <1>i DEF Reserving, Halves, OwnRun, ReserveOwned
<1>1. CASE End /\ UNCHANGED saved BY <1>0, <1>1, <1>i, EndsOwned
<1>2. CASE ~(End /\ UNCHANGED saved)
  <2>v. PICK who, n, login, items, keys, b : /\ who = NamedBy(root.keys) /\ n = run.name /\ login = root.has[Jar]
                                          /\ items = Present /\ keys = root.keys /\ b = (run.op = "start")
    OBVIOUS
  <2>m. PICK m : m = [half |-> "leave", who |-> who, park |-> n, login |-> login, items |-> items,
                      keys |-> keys, asides |-> {}, awaits |-> b] OBVIOUS
  <2>k. PICK kept : kept = [account |-> who, login |-> login, items |-> items, keys |-> keys, left |-> {}] OBVIOUS
  <2>0. /\ saved' = [saved EXCEPT !.moving = m]
        /\ pc' = "make"
        /\ run' = [run EXCEPT !.on = "forward", !.row = "leave", !.kept = kept, !.to = n, !.items = items]
    BY <1>2, <2>v, <2>m, <2>k DEF RecordLeave, Recorded
  <2>2. m.half = "leave" /\ m.who = who /\ m.login = login /\ m.asides = {} BY <2>m
  <2>5. /\ saved' \in Records /\ saved'.moving = m /\ saved'.parked = saved.parked /\ saved'.inUse = saved.inUse
        /\ saved'.aside = saved.aside /\ saved'.discarded = saved.discarded
    BY <2>0, <1>i DEF TypeOK, Records, Inv
  <2>7. run'.on = "forward" /\ run'.row = "leave" /\ pc' = "make"
    <3>1. run' = [run EXCEPT !.on = "forward", !.row = "leave", !.kept = kept, !.to = n, !.items = items]
      BY <2>0
    <3>2. run \in Runs BY <1>i DEF TypeOK
    <3> QED BY <2>0, <3>1, <3>2 DEF Runs
  <2>9. Moving' = m BY <2>5 DEF Moving
  <2>4. m # NoMove
    <3>1. m \in Moves \cup {NoMove} BY <2>5 DEF Records
    <3>2. m.half = "leave" BY <2>2
    <3>3. Moving' = NoMove => ~OfLeave' BY DEF OfLeave
    <3>4. OfLeave'
      <4>1. pc' \in Doing BY <2>7 DEF Doing, Fallible
      <4> QED BY <2>7, <4>1 DEF Inv, RunInv, RowInv
    <3> QED BY <2>9, <3>3, <3>4
  <2>10. Kept' /\ RecordOwned(saved)' /\ ManifestsOwned' BY <1>0, <1>i, <2>5, FilesOwned
  <2>u. login # None BY <1>h, <2>v, SessionsApart
  <2>w. ~ran => login = saved.inUse.login
    BY <1>h, <1>i, <2>v, NoneApart DEF OwnData, UseOwned
  <2>11. MoveOwned'
    BY <1>0, <1>h, <1>i, <2>v, <2>2, <2>5, <2>9, <2>w DEF MoveOwned, OwnData, Kept
  <2>12. RootOwned' BY <1>0, <1>h, <1>i DEF RootOwned, OwnData, NamedBy
  <2>13. UseOwned' BY <1>0, <1>i, <2>5, <2>9, <2>4 DEF UseOwned, OwnData
  <2>14. EnrollOwned' /\ ReserveOwned' /\ BuildOwned' /\ CommitOwned'
    BY <2>7 DEF EnrollOwned, ReserveOwned, BuildOwned, CommitOwned
  <2>15. RowOwned' BY <1>0, <2>v, <2>2, <2>7, <2>9 DEF RowOwned
  <2> QED BY <2>10, <2>11, <2>12, <2>13, <2>14, <2>15 DEF Owned, OwnData, OwnRun
<1> QED BY <1>1, <1>2

\* An arrive recorded, of an account's own park.
LEMMA RecordArriveOwned ==
  ASSUME Inv, Inv', Owned, pc = "record", RecordArrive, Still
  PROVE  Owned'
<1>i. TypeOK /\ Ops /\ OwnData /\ OwnRun /\ Reserving /\ Halves BY DEF Inv, RunInv, Owned
<1>0. UNCHANGED <<root, folders, issued, ended, ran>> /\ run.half = "arrive"
  BY DEF RecordArrive, Recorded, Still, app
<1>h. /\ CanArrive(run.who) /\ run.op = "switch" /\ run.who \in Accounts /\ NoLogin
      /\ run.name # None => run.name \in Names /\ ~folders[run.name].made
  BY <1>0, <1>i DEF Reserving, Halves, OwnRun, ReserveOwned, Ops
<1>1. CASE End /\ UNCHANGED saved BY <1>0, <1>1, <1>i, EndsOwned
<1>2. CASE ~(End /\ UNCHANGED saved)
  <2>v. PICK who, n, login, items, keys, asides, step :
          /\ who = run.who /\ n = saved.parked[who].name /\ login = saved.parked[who].login
          /\ items = folders[n].manifest.items /\ keys = folders[n].manifest.keys
          /\ asides = IF run.name # None THEN {run.name} ELSE {}
          /\ step = IF run.name # None THEN "keep" ELSE "held"
    OBVIOUS
  <2>m. PICK m : m = [half |-> "arrive", who |-> who, park |-> n, login |-> login, items |-> items,
                      keys |-> keys, asides |-> asides, awaits |-> FALSE] OBVIOUS
  <2>0. /\ saved' = [Nobody(saved) EXCEPT !.moving = m]
        /\ Starts(step, "forward", "arrive", {}, run.name)
    BY <1>2, <2>v, <2>m DEF RecordArrive, Recorded
  <2>q. saved' = [Nobody(saved) EXCEPT !.moving = m] BY <2>0
  <2>r. run' = [run EXCEPT !.on = "forward", !.row = "arrive", !.items = {}, !.to = run.name]
    BY <2>0 DEF Starts
  <2>p. pc' = step /\ step \in {"keep", "held"} BY <2>0, <2>v DEF Starts
  <2>a. saved.parked[who] # None /\ Whole(n, who, login) BY <1>h, <2>v, CanArriveIs
  <2>t. who \in Accounts /\ n \in Names /\ login \in Sessions /\ asides \in SUBSET Names
    <3>1. saved.parked[who] \in [name : Names, login : Sessions]
      BY <1>h, <2>v, <2>a, <1>i DEF TypeOK, Records
    <3> QED BY <1>h, <2>v, <3>1
  <2>2. m.half = "arrive" /\ m.who = who /\ m.login = login /\ m.asides = asides
    BY <2>m
  <2>s. PICK u : u = Nobody(saved) OBVIOUS
  <2>u. /\ u \in Records /\ u.parked = saved.parked /\ u.aside = saved.aside /\ u.discarded = saved.discarded
    BY <2>s, <1>i, NobodyOf DEF TypeOK
  <2>n. u.inUse.who = None /\ u.inUse.login = None BY <2>s, <1>i DEF Nobody, Identified, TypeOK, Records
  <2>x. saved' = [u EXCEPT !.moving = m] BY <2>q, <2>s
  <2>5. /\ saved' \in Records /\ saved'.moving = m /\ saved'.parked = saved.parked /\ saved'.inUse = u.inUse
        /\ saved'.aside = saved.aside /\ saved'.discarded = saved.discarded
    BY <2>x, <2>u DEF Records, Inv, TypeOK
  <2>7. run'.on = "forward" /\ run'.row = "arrive" BY <2>r, <1>i DEF TypeOK, Runs
  <2>9. Moving' = m BY <2>5 DEF Moving
  <2>10. Kept' /\ RecordOwned(saved)' /\ ManifestsOwned' BY <1>0, <1>i, <2>5, FilesOwned
  <2>11. MoveOwned'
    <3>1. login \in issued
      <4>1. folders[n].has[Jar] = login BY <2>a DEF Whole
      <4> QED BY <2>t, <4>1, <1>i DEF OwnData, Kept
    <3>2. Owner[login] = who BY <2>a, <2>t, <2>v, <1>i DEF OwnData, RecordOwned
    <3>3. ASSUME NEW o \in asides
          PROVE  folders[o].has[Jar] \notin Sessions /\ folders[o].manifest = None
      <4>1. o \in Names /\ ~folders[o].made BY <1>h, <2>v
      <4> QED BY <4>1, <1>i, NotMade, SessionsApart, Constant
    <3> QED BY <1>0, <2>2, <2>9, <3>1, <3>2, <3>3 DEF MoveOwned
  <2>12. RootOwned' BY <1>0, <1>h DEF RootOwned, NoLogin
  <2>13. UseOwned' BY <2>5, <2>n DEF UseOwned
  <2>14. EnrollOwned' /\ ReserveOwned' /\ BuildOwned' /\ CommitOwned'
    BY <2>p, <2>7 DEF EnrollOwned, ReserveOwned, BuildOwned, CommitOwned
  <2>15. RowOwned' BY <1>0, <1>h, <2>p, <2>7 DEF RowOwned, NoLogin
  <2> QED BY <2>10, <2>11, <2>12, <2>13, <2>14, <2>15 DEF Owned, OwnData, OwnRun
<1> QED BY <1>1, <1>2

\* One aside more recorded: nothing is in it.
LEMMA RecordAsideOwned ==
  ASSUME Inv, Inv', Owned, pc = "record", RecordAside, Still
  PROVE  Owned'
<1>i. TypeOK /\ OwnData /\ OwnRun /\ Reserving /\ Halves BY DEF Inv, RunInv, Owned
<1>0. UNCHANGED <<root, folders, issued, ended, ran>> /\ run.half \in {"keysAside", "giveUp"}
  BY DEF RecordAside, Recorded, Still, app
<1>h. run.name \in Names /\ ~folders[run.name].made /\ Moving # NoMove
      /\ (run.half = "giveUp" => run.on = "giveUp")
  BY <1>0, <1>i, NoneApart DEF Reserving, Halves
<1>1. CASE End /\ UNCHANGED saved BY <1>0, <1>1, <1>i, EndsOwned
<1>2. CASE ~(End /\ UNCHANGED saved)
  <2>v. PICK n, o, asides : n = run.name /\ o = Moving /\ asides = Moving.asides \cup {run.name}
    OBVIOUS
  <2>m. PICK m : m = [o EXCEPT !.asides = asides] OBVIOUS
  <2>t. o \in Moves /\ o.asides \in SUBSET Names BY <1>h, <1>i, <2>v, MoveTyped
  <2>2. /\ m.half = o.half /\ m.who = o.who /\ m.login = o.login /\ m.asides = asides
    BY <2>m, <2>t DEF Moves
  <2>4. m # NoMove
    <3>1. m \in Moves BY <2>m, <2>t, <2>v, <1>h DEF Moves
    <3> QED BY <3>1, NoneApart DEF NoMove
  <2>x. saved' = [saved EXCEPT !.moving = m]
    <3>1. saved' = [saved EXCEPT !.moving.asides = @ \cup {run.name}]
      BY <1>2 DEF RecordAside, Recorded
    <3> QED BY <3>1, <2>m, <2>v DEF Moving
  <2>5. /\ saved' \in Records /\ saved'.moving = m /\ saved'.parked = saved.parked /\ saved'.inUse = saved.inUse
        /\ saved'.aside = saved.aside /\ saved'.discarded = saved.discarded
    BY <2>x, <1>i DEF TypeOK, Records, Inv
  <2>9. Moving' = m BY <2>5 DEF Moving
  <2>10. Kept' /\ RecordOwned(saved)' /\ ManifestsOwned' BY <1>0, <1>i, <2>5, FilesOwned
  <2>11. MoveOwned'
    <3>1. folders[n].has[Jar] \notin Sessions /\ folders[n].manifest = None
      BY <1>h, <1>i, <2>v, NotMade, SessionsApart, Constant
    <3>2. MoveOwned /\ Moving # NoMove BY <1>h, <1>i DEF OwnData
    <3>3. \A q \in asides : /\ folders[q].has[Jar] \notin Sessions
                            /\ folders[q].manifest # None => folders[q].manifest.login = None
      BY <2>v, <3>1, <3>2 DEF MoveOwned
    <3> QED BY <1>0, <2>2, <2>5, <2>9, <2>v, <3>2, <3>3 DEF MoveOwned
  <2>12. RootOwned' BY <1>0, <1>h, <1>i, <2>2, <2>5, <2>9, <2>v DEF RootOwned, OwnData, NamedBy
  <2>13. UseOwned' BY <1>0, <1>i, <2>4, <2>5, <2>9 DEF UseOwned, OwnData
  <2>a. CASE run.half = "keysAside"
    <3>0. Starts("keep", run.on, "keysAside", Moving.items, Moving.park)
      BY <1>2, <2>a DEF RecordAside, Recorded
    <3>7. /\ run'.on = run.on /\ run'.op = run.op /\ run'.who = run.who
          /\ run'.session = run.session /\ run'.row = "keysAside" /\ pc' = "keep"
      BY <3>0, <1>i DEF TypeOK, Runs, Starts
    <3>8. EnrollOwned' BY <1>0, <1>i, <3>7, EnrollStays DEF OwnRun
    <3>9. ReserveOwned' /\ BuildOwned' /\ CommitOwned' /\ RowOwned'
      BY <3>7 DEF ReserveOwned, BuildOwned, CommitOwned, RowOwned
    <3> QED BY <2>10, <2>11, <2>12, <2>13, <3>8, <3>9 DEF Owned, OwnData, OwnRun
  <2>b. CASE run.half = "giveUp"
    <3>k. PICK kept : kept = AsideManifest(o.who, run.list, None) OBVIOUS
    <3>0. /\ pc' = "make"
          /\ run' = [run EXCEPT !.on = "giveUp", !.row = "giveUp", !.to = n, !.items = run.list, !.kept = kept]
      BY <1>2, <2>b, <2>v, <3>k DEF RecordAside, Recorded
    <3>r. run' = [run EXCEPT !.on = "giveUp", !.row = "giveUp", !.to = n, !.items = run.list, !.kept = kept]
      BY <3>0
    <3>7. /\ run'.on = run.on /\ run'.op = run.op /\ run'.who = run.who /\ run'.session = run.session
          /\ run'.row = "giveUp" /\ run'.items = run.list /\ run'.kept = kept /\ pc' = "make"
      BY <1>h, <2>b, <3>0, <3>r, <1>i DEF TypeOK, Runs
    <3>l. Jar \notin run.list BY <1>i, Constant DEF TypeOK, Runs
    <3>n. kept.login = None BY <3>k DEF AsideManifest
    <3>8. EnrollOwned' BY <1>0, <1>i, <3>7, EnrollStays DEF OwnRun
    <3>9. ReserveOwned' /\ CommitOwned' BY <3>7 DEF ReserveOwned, CommitOwned
    <3>10. BuildOwned' BY <3>7, <3>n DEF BuildOwned
    <3>11. RowOwned' BY <3>7, <3>l DEF RowOwned
    <3> QED BY <2>10, <2>11, <2>12, <2>13, <3>8, <3>9, <3>10, <3>11 DEF Owned, OwnData, OwnRun
  <2> QED BY <1>0, <2>a, <2>b
<1> QED BY <1>1, <1>2

\* A start, of no login.
LEMMA RecordStartOwned ==
  ASSUME Inv, Owned, pc = "record", RecordStart, Still
  PROVE  Owned'
<1>i. TypeOK /\ OwnRun BY DEF Inv, Owned
<1>0. UNCHANGED <<root, folders, saved, issued, ended, ran>> /\ run.half = "start" /\ pc' = "keep"
  BY DEF RecordStart, Still, app, disk, Starts
<1>1. OwnData' BY <1>0, <1>i, SameOwned DEF Owned
<1>2. run'.on = "forward" /\ run'.row = "start" BY <1>i DEF RecordStart, Starts, TypeOK, Runs
<1>3. NoLogin BY <1>0, <1>i DEF OwnRun, ReserveOwned
<1>4. EnrollOwned' /\ ReserveOwned' /\ BuildOwned' /\ CommitOwned'
  BY <1>0, <1>2 DEF EnrollOwned, ReserveOwned, BuildOwned, CommitOwned
<1>5. RowOwned' BY <1>0, <1>2, <1>3 DEF RowOwned, NoLogin
<1> QED BY <1>1, <1>4, <1>5 DEF Owned, OwnRun

\* What a run records before its first step.
LEMMA RecordIsOwned ==
  ASSUME Inv, Inv', Owned, Record
  PROVE  Owned'
<1>0. pc = "record" /\ Still BY DEF Record
<1>1. CASE RecordRefused
  <2>1. End /\ UNCHANGED <<root, folders, saved, issued, ended, ran>>
    BY <1>0, <1>1 DEF RecordRefused, Refused, disk, Still, app
  <2> QED BY <2>1, EndsOwned DEF Inv
<1> QED BY <1>0, <1>1, RecordLeaveOwned, RecordArriveOwned, RecordAsideOwned, RecordStartOwned DEF Record

-----------------------------------------------------------------------------
(* A folder built is of nobody, or of the move's. *)

\* A step of a move that writes nothing of a login: what is left to show is of its row.
LEMMA QuietOwned ==
  ASSUME Inv, Owned, pc' \in Doing, JarsStay, LabelsStay, UNCHANGED <<saved, issued, ended, ran>>,
         root'.has[Jar] = root.has[Jar], root'.keys = root.keys,
         run'.op = run.op, run'.who = run.who, run'.session = run.session, run'.on = run.on,
         RowOwned', BuildOwned'
  PROVE  Owned'
<1>i. TypeOK /\ OwnData /\ EnrollOwned BY DEF Inv, Owned, OwnRun
<1>1. OwnData' BY <1>i, OwnStays
<1>2. EnrollOwned' BY <1>i, EnrollStays
<1>3. ReserveOwned' /\ CommitOwned' BY DEF ReserveOwned, CommitOwned, Doing, Fallible
<1> QED BY <1>1, <1>2, <1>3 DEF Owned, OwnRun

\* A manifest written: it names no login, or is the park's of a leave.
LEMMA LabelOwned ==
  ASSUME TypeOK, OwnData, JarsStay, NEW n \in Names, \A o \in Names : o # n => folders'[o] = folders[o],
         folders'[n].manifest # None /\ folders'[n].manifest.login # None =>
           /\ Moving # NoMove => n \notin Moving.asides
           /\ Owner[folders'[n].manifest.login] = folders'[n].manifest.account,
         UNCHANGED <<root, saved, issued, ended, ran>>
  PROVE  OwnData'
<1>1. Kept' BY KeptStays DEF OwnData
<1>2. RecordOwned(saved)'
  <2>1. RecordOwned(saved') /\ saved' \in Records BY DEF OwnData, TypeOK
  <2> QED BY <2>1, RecordStays
<1>3. ManifestsOwned' BY DEF OwnData, ManifestsOwned
<1>4. MoveOwned'
  <2>1. CASE Moving = NoMove BY <2>1 DEF MoveOwned, Moving
  <2>2. CASE Moving # NoMove
    <3>1. Moving.asides \in SUBSET Names /\ Moving' = Moving BY <2>2, MoveTyped DEF Moving
    <3>2. ASSUME NEW o \in Moving.asides
          PROVE  /\ folders'[o].has[Jar] \notin Sessions
                 /\ folders'[o].manifest # None => folders'[o].manifest.login = None
      <4>1. o \in Names /\ folders'[o].has[Jar] = folders[o].has[Jar] BY <3>1 DEF JarsStay
      <4>2. /\ folders[o].has[Jar] \notin Sessions
            /\ folders[o].manifest # None => folders[o].manifest.login = None
        BY <2>2 DEF OwnData, MoveOwned
      <4> QED BY <2>2, <4>1, <4>2
    <3> QED BY <2>2, <3>1, <3>2 DEF OwnData, MoveOwned
  <2> QED BY <2>1, <2>2
<1>5. RootOwned' BY DEF OwnData, RootOwned, NamedBy, Moving
<1>6. UseOwned' BY DEF OwnData, UseOwned, NamedBy, Moving
<1> QED BY <1>1, <1>2, <1>3, <1>4, <1>5, <1>6 DEF OwnData

\* A folder made, its manifest, its keys.
LEMMA BuildsOwned ==
  ASSUME Inv, Owned, Make \/ WriteManifest \/ WriteKeys, UNCHANGED <<appOpen, issued, ended, ran>>
  PROVE  Owned'
<1>i. TypeOK /\ OwnData /\ OwnRun /\ Apart(saved) /\ Building BY DEF Inv, Data, RunInv, Owned
<1>0. pc \in {"make", "manifest", "keys"} /\ pc \in Doing
  BY DEF Make, WriteManifest, WriteKeys, Doing, Fallible
<1>n. PICK n : n = run.name OBVIOUS
<1>w. /\ n \in Names /\ run.kept # None
      /\ run.row \in {"leave", "arrive", "keysAside", "giveUp", "start"}
      /\ Moving # NoMove /\ run.row = "leave" => n = Moving.park
  BY <1>0, <1>n, BuildsWhere
<1>1. CASE Failed /\ Unmoved
  BY <1>1, <1>i, FailedOwned DEF Unmoved, disk
<1>2. ASSUME Advance, NEW f, InFolders(n, f), f.has[Jar] = None, folders[n].has[Jar] = None,
             f.manifest \in {None, run.kept}
      PROVE  Owned'
  <2>1. folders' = [folders EXCEPT ![n] = f] /\ UNCHANGED <<root, saved>> BY <1>2 DEF InFolders
  <2>2. folders'[n] = f /\ \A o \in Names : o # n => folders'[o] = folders[o]
    BY <2>1, <1>w, <1>i DEF TypeOK
  <2>3. JarsStay BY <1>2, <2>2 DEF JarsStay
  <2>4. f.manifest # None /\ f.manifest.login # None =>
          /\ Moving # NoMove => n \notin Moving.asides
          /\ Owner[f.manifest.login] = f.manifest.account
    <3>1. SUFFICES ASSUME f.manifest = run.kept, run.kept.login # None
                   PROVE  /\ Moving # NoMove => n \notin Moving.asides
                          /\ Owner[run.kept.login] = run.kept.account
      BY <1>2
    <3>2. run.row = "leave" BY <1>0, <3>1, <1>i DEF OwnRun, BuildOwned
    <3>3. OfLeave BY <1>0, <3>2, RowAt
    <3>4. /\ Moving # NoMove /\ run.kept.account = Moving.who /\ run.kept.login = Moving.login
      BY <1>0, <3>3 DEF OfLeave
    <3>5. Owner[Moving.login] = Moving.who BY <3>4, <1>i DEF OwnData, MoveOwned
    <3>6. Moving.park \notin Moving.asides BY <3>4, <1>i DEF Apart, Moving, NoMove
    <3> QED BY <1>w, <3>2, <3>4, <3>5, <3>6
  <2>5. OwnData' BY <1>2, <1>i, <1>w, <2>1, <2>2, <2>3, <2>4, LabelOwned
  <2>6. run' = run /\ pc' = After BY <1>2 DEF Advance, Goes
  <2>p. /\ pc' \in {"manifest", "keys", "out", "setAside", "clear"}
        /\ pc' = "setAside" => root.keys = None
        /\ pc' \in {"manifest", "keys"} => pc \in {"make", "manifest"}
    BY <1>0, <2>6, AfterIs
  <2>r. /\ pc' = "out" => run.row = "giveUp"
        /\ pc' = "setAside" => pc = "keys" /\ run.row # "giveUp"
    BY <1>0, <2>6, AfterIs
  <2>7. EnrollOwned' BY <2>1, <2>6, <1>i, EnrollStays DEF OwnRun
  <2>8. ReserveOwned' /\ CommitOwned' BY <2>p DEF ReserveOwned, CommitOwned
  <2>9. BuildOwned' BY <1>0, <2>6, <1>i DEF OwnRun, BuildOwned
  <2>10. RowOwned'
    <3>1. RowOwned BY <1>i DEF OwnRun
    <3>2. Moving' = Moving BY <2>1 DEF Moving
    <3>3. run.row = "arrive" => NoLogin BY <1>0, <3>1 DEF RowOwned, Built
    <3> QED BY <1>0, <1>w, <2>1, <2>6, <2>p, <2>r, <3>1, <3>2, <3>3 DEF RowOwned, NoLogin
  <2> QED BY <2>5, <2>7, <2>8, <2>9, <2>10 DEF Owned, OwnRun
<1>3. CASE Make
  <2>1. CASE folders[n].made BY <1>1, <1>3, <1>n, <2>1 DEF Make
  <2>2. CASE ~folders[n].made
    <3>1. folders[n].has[Jar] = None BY <1>i, <1>w, <2>2, NotMade, Constant
    <3>2. Advance /\ InFolders(n, [NoFolder EXCEPT !.made = TRUE]) BY <1>3, <1>n, <2>2 DEF Make
    <3> PICK f : f = [NoFolder EXCEPT !.made = TRUE] OBVIOUS
    <3>3. f.has[Jar] = None /\ f.manifest = None BY EmptyTyped, Constant
    <3> QED BY <1>2, <3>1, <3>2, <3>3
  <2> QED BY <2>1, <2>2
<1>4. CASE WriteManifest
  <2>1. pc = "manifest" BY <1>4 DEF WriteManifest
  <2> PICK f : f = [folders[n] EXCEPT !.manifest = run.kept] OBVIOUS
  <2>2. Advance /\ InFolders(n, f) BY <1>4, <1>n DEF WriteManifest
  <2> PICK e : e = [NoFolder EXCEPT !.made = TRUE] OBVIOUS
  <2>3. folders[n] = e BY <1>n, <2>1, <1>i DEF Building
  <2>4. e.has[Jar] = None BY EmptyTyped, Constant
  <2>5. folders[n] \in Folders BY <1>w, <1>i DEF TypeOK
  <2>6. f.has = folders[n].has /\ f.manifest = run.kept BY <2>5 DEF Folders
  <2> QED BY <1>2, <2>2, <2>3, <2>4, <2>6
<1>5. CASE WriteKeys
  <2>1. pc = "keys" BY <1>5 DEF WriteKeys
  <2> PICK f : f = [folders[n] EXCEPT !.keys = {run.kept.keys}] OBVIOUS
  <2>2. Advance /\ InFolders(n, f) BY <1>5, <1>n DEF WriteKeys
  <2> PICK e : e = [NoFolder EXCEPT !.made = TRUE] OBVIOUS
  <2>3. folders[n] = [NoFolder EXCEPT !.made = TRUE, !.manifest = run.kept] BY <1>n, <2>1, <1>i DEF Building
  <2>4. folders[n].has[Jar] = None /\ folders[n].manifest = run.kept
    <3>1. folders[n] = [e EXCEPT !.manifest = run.kept] BY <2>3
    <3>2. e \in Folders /\ e.has[Jar] = None BY EmptyTyped, Constant
    <3> QED BY <3>1, <3>2 DEF Folders
  <2>5. folders[n] \in Folders BY <1>w, <1>i DEF TypeOK
  <2>6. f.has = folders[n].has /\ f.manifest = folders[n].manifest BY <2>5 DEF Folders
  <2> QED BY <1>2, <2>2, <2>4, <2>6
<1> QED BY <1>3, <1>4, <1>5

\* The settings kept aside: of no login.
LEMMA KeepOwned ==
  ASSUME Inv, Owned, KeepSettings, UNCHANGED <<appOpen, issued, ended, ran>>
  PROVE  Owned'
<1>i. TypeOK /\ RowOwned BY DEF Inv, Owned, OwnRun
<1>0. pc = "keep" /\ pc' = "make" /\ UNCHANGED <<root, folders, saved>>
  BY AfterIs DEF KeepSettings, Unmoved, disk
<1>a. pc \in Doing /\ pc' \in Doing BY <1>0 DEF Doing, Fallible
<1>p. PICK account, is : run' = [run EXCEPT !.kept = AsideManifest(account, is, root.keys)]
  BY DEF KeepSettings
<1>q. PICK kept : kept = AsideManifest(account, is, root.keys) OBVIOUS
<1>k. run' = [run EXCEPT !.kept = kept] /\ kept.login = None BY <1>p, <1>q DEF AsideManifest
<1>1. /\ run'.op = run.op /\ run'.who = run.who /\ run'.session = run.session /\ run'.on = run.on
      /\ run'.row = run.row /\ run'.items = run.items /\ run'.kept = kept
  BY <1>k, <1>i DEF TypeOK, Runs
<1>2. JarsStay /\ LabelsStay BY <1>0, FoldersStay
<1>3. BuildOwned' BY <1>k, <1>1 DEF BuildOwned
<1>4. run.row # "giveUp"
  BY <1>0, <1>a, RowAt DEF OfGiveUp
<1>5. RowOwned'
  <2>1. Moving' = Moving BY <1>0 DEF Moving
  <2>2. run.row = "arrive" => NoLogin BY <1>0, <1>a, <1>i DEF RowOwned, Built
  <2> QED BY <1>0, <1>a, <1>i, <1>1, <1>4, <2>1, <2>2 DEF RowOwned, NoLogin
<1> QED BY <1>0, <1>a, <1>1, <1>2, <1>3, <1>5, QuietOwned

-----------------------------------------------------------------------------
(* The settings written. *)

\* The settings' keys taken away: with them no name that is another's.
LEMMA ClearOwned ==
  ASSUME Inv, Owned, ClearKeys, UNCHANGED <<appOpen, issued, ended, ran>>
  PROVE  Owned'
<1>i. TypeOK /\ OwnData /\ RowOwned BY DEF Inv, Owned, OwnRun
<1>0. pc = "clear" /\ pc' = After /\ run' = run /\ UNCHANGED <<folders, saved>>
  BY DEF ClearKeys, Advance, Goes, disk
<1>1. root'.has = root.has /\ root'.keys = None BY <1>i DEF ClearKeys, TypeOK
<1>a. pc \in Doing BY <1>0 DEF Doing, Fallible
<1>r. /\ run.row \in {"leave", "arrive", "leaveOn", "keysAside", "start"}
      /\ Moving = NoMove => run.row = "start"
      /\ run.on # "giveUp"
  BY <1>0, <1>a, RowAt DEF OfLeave, OfArrive, OfKeysBack, OfLeaveOn, OfBack, OfKeysAside, OfGiveUp, OfStart, Rows, Built
<1>p. pc' = IF run.row = "arrive" THEN "setAside" ELSE IF run.row = "start" THEN "midway" ELSE "out"
  BY <1>0, AfterIs
<1>m. Moving' = Moving BY <1>0 DEF Moving
<1>2. JarsStay /\ LabelsStay BY <1>0, FoldersStay
<1>3. Kept' BY <1>1, <1>2, <1>i, KeptStays DEF OwnData
<1>4. RecordOwned(saved)'
  <2>1. RecordOwned(saved') /\ saved' \in Records BY <1>0, <1>i DEF OwnData, TypeOK
  <2> QED BY <1>2, <2>1, RecordStays
<1>5. ManifestsOwned' BY <1>2, <1>i, ManifestsStay DEF OwnData
<1>6. MoveOwned' BY <1>0, <1>2, <1>i, MoveStays DEF OwnData
<1>7. RootOwned' BY <1>1 DEF RootOwned, NamedBy
<1>8. UseOwned'
  <2>1. run.row = "start" => NoLogin BY <1>a, <1>i DEF RowOwned
  <2>2. Moving = NoMove /\ ~ran => saved.inUse.who = None
    <3>1. SUFFICES ASSUME Moving = NoMove, ~ran, saved.inUse.who # None PROVE FALSE OBVIOUS
    <3>2. root.has[Jar] = saved.inUse.login /\ saved.inUse.login # None /\ saved.inUse.login \in issued \cup {None}
      BY <3>1, <1>i DEF OwnData, UseOwned
    <3>3. saved.inUse.login \in Sessions BY <3>2, <1>i DEF TypeOK
    <3> QED BY <3>1, <3>2, <3>3, <2>1, <1>r DEF NoLogin
  <2> QED BY <1>0, <1>m, <1>i, <2>2 DEF OwnData, UseOwned
<1>9. EnrollOwned' BY <1>0, <1>r DEF EnrollOwned
<1>10. ReserveOwned' /\ BuildOwned' /\ CommitOwned' BY <1>p DEF ReserveOwned, BuildOwned, CommitOwned
<1>11. RowOwned'
  <2>1. run.row = "arrive" => NoLogin BY <1>0, <1>a, <1>i DEF RowOwned, Built
  <2>2. run.row = "start" => NoLogin BY <1>a, <1>i DEF RowOwned
  <2>3. run.row \in {"leave", "leaveOn"} => root.has[Jar] \in {Moving.login, None, NoSession}
    BY <1>a, <1>i DEF RowOwned
  <2> QED BY <1>0, <1>1, <1>m, <1>p, <1>r, <2>1, <2>2, <2>3 DEF RowOwned, NoLogin
<1> QED BY <1>3, <1>4, <1>5, <1>6, <1>7, <1>8, <1>9, <1>10, <1>11 DEF Owned, OwnData, OwnRun

\* Its account's keys put back beside its login.
LEMMA PutOwned ==
  ASSUME Inv, Owned, PutKeys, UNCHANGED <<appOpen, issued, ended, ran>>
  PROVE  Owned'
<1>i. TypeOK /\ OwnData /\ RowOwned /\ MovePark BY DEF Inv, Data, Owned, OwnRun
<1>0. pc = "put" /\ pc' = After /\ run' = run /\ UNCHANGED <<folders, saved>>
  BY DEF PutKeys, Advance, Goes, disk
<1>1. root'.has = root.has /\ root'.keys = Moving.keys BY <1>i DEF PutKeys, TypeOK
<1>a. pc \in Doing BY <1>0 DEF Doing, Fallible
<1>r. run.row \in {"arrive", "keysBack"} /\ Moving # NoMove /\ run.on # "giveUp"
  BY <1>0, <1>a, RowAt DEF OfLeave, OfArrive, OfKeysBack, OfLeaveOn, OfBack, OfKeysAside, OfGiveUp, OfStart, Rows
<1>p. pc' = IF run.row = "arrive" THEN "arrived" ELSE "midway" BY <1>0, AfterIs
<1>m. Moving' = Moving BY <1>0 DEF Moving
<1>w. NamedBy(Moving.keys) = Moving.who /\ Owner[Moving.login] = Moving.who /\ Moving.who # None
  BY <1>r, <1>i, MoveTyped, NoneApart DEF MovePark, OwnData, MoveOwned
<1>h. /\ NoLogin \/ root.has[Jar] = Moving.login
      /\ run.row = "keysBack" => root.has[Jar] = Moving.login
  BY <1>0, <1>a, <1>r, <1>i DEF RowOwned
<1>n. NamedBy(root'.keys) = Moving.who BY <1>1, <1>w DEF NamedBy
<1>2. JarsStay /\ LabelsStay BY <1>0, FoldersStay
<1>3. Kept' BY <1>1, <1>2, <1>i, KeptStays DEF OwnData
<1>4. RecordOwned(saved)'
  <2>1. RecordOwned(saved') /\ saved' \in Records BY <1>0, <1>i DEF OwnData, TypeOK
  <2> QED BY <1>2, <2>1, RecordStays
<1>5. ManifestsOwned' BY <1>2, <1>i, ManifestsStay DEF OwnData
<1>6. MoveOwned' BY <1>0, <1>2, <1>i, MoveStays DEF OwnData
<1>7. RootOwned'
  <2>1. root'.has[Jar] \in Sessions => Owner[root'.has[Jar]] = Moving.who BY <1>1, <1>h, <1>w DEF NoLogin
  <2>2. root'.keys # None => root'.keys.who = Moving.who BY <1>n DEF NamedBy
  <2>3. NamedBy(root.keys)' = Moving.who BY <1>n DEF NamedBy
  <2> QED BY <2>1, <2>2, <2>3 DEF RootOwned
<1>8. UseOwned' BY <1>0, <1>m, <1>r, <1>i DEF OwnData, UseOwned
<1>9. EnrollOwned' BY <1>0, <1>r DEF EnrollOwned
<1>10. ReserveOwned' /\ BuildOwned' /\ CommitOwned' BY <1>p DEF ReserveOwned, BuildOwned, CommitOwned
<1>11. RowOwned'
  <2>1. NamedBy(root.keys)' = Moving.who BY <1>n DEF NamedBy
  <2> QED BY <1>0, <1>1, <1>m, <1>p, <1>r, <1>h, <2>1 DEF RowOwned, MovesLogin, Built
<1> QED BY <1>3, <1>4, <1>5, <1>6, <1>7, <1>8, <1>9, <1>10, <1>11 DEF Owned, OwnData, OwnRun

\* The steps that only look, or say what comes next.
LEMMA LooksOwned ==
  ASSUME Inv, Owned, HeldKeys \/ VerifyArrived \/ SetAside \/ FinishAside,
         UNCHANGED <<appOpen, issued, ended, ran>>
  PROVE  Owned'
<1>i. TypeOK /\ RowOwned BY DEF Inv, Owned, OwnRun
<1>0. /\ pc \in {"held", "arrived", "setAside", "finishAside"} /\ pc \in Doing
      /\ UNCHANGED <<root, folders, saved>>
  BY DEF HeldKeys, VerifyArrived, SetAside, FinishAside, Unmoved, disk, Doing, Fallible
<1>2. JarsStay /\ LabelsStay BY <1>0, FoldersStay
<1>m. Moving' = Moving BY <1>0 DEF Moving
<1>r. /\ pc = "finishAside" => run.row = "backAside"
      /\ pc # "finishAside" => run.row = "arrive"
  BY <1>0, RowAt DEF OfLeave, OfArrive, OfKeysBack, OfLeaveOn, OfBack, OfKeysAside, OfGiveUp, OfStart, Rows, Built
<1>h. /\ pc \in {"held", "setAside"} => NoLogin
      /\ pc = "setAside" => root.keys = None
      /\ pc = "finishAside" => root.has[Jar] = None
  BY <1>0, <1>r, <1>i DEF RowOwned, Built
<1>1. CASE Failed
  BY <1>0, <1>1, <1>i, FailedOwned
<1>3. ASSUME pc' \in {"forgetLeft", "midway", "out"},
             run'.op = run.op, run'.who = run.who, run'.session = run.session, run'.on = run.on,
             \/ pc = "held" /\ pc' = "forgetLeft" /\ run'.row = "arrive" /\ root.keys = None
             \/ pc = "arrived" /\ pc' = "midway" /\ run'.row = "arrive" /\ MovesLogin
             \/ pc = "setAside" /\ pc' = "out" /\ run'.row = "arrive"
             \/ pc = "finishAside" /\ run'.row \in {"backAside", "settingAside"}
      PROVE  Owned'
  <2>1. pc' \in Doing BY <1>3 DEF Doing, Fallible
  <2>2. BuildOwned' BY <1>3 DEF BuildOwned
  <2>3. RowOwned'
    <3>1. CASE run'.row = "arrive" /\ pc = "held" BY <1>0, <1>3, <1>h, <3>1 DEF RowOwned, NoLogin
    <3>2. CASE run'.row = "arrive" /\ pc = "arrived"
      BY <1>0, <1>3, <1>m, <3>2 DEF RowOwned, MovesLogin, NamedBy, Built
    <3>3. CASE run'.row = "arrive" /\ pc = "setAside" BY <1>0, <1>3, <1>h, <3>3 DEF RowOwned, NoLogin
    <3>4. CASE run'.row \in {"backAside", "settingAside"} BY <1>0, <1>3, <1>h, <3>4 DEF RowOwned
    <3> QED BY <1>3, <3>1, <3>2, <3>3, <3>4
  <2> QED BY <1>0, <1>2, <1>3, <2>1, <2>2, <2>3, QuietOwned
<1>4. CASE HeldKeys
  <2>1. CASE Advance /\ root.keys = None
    <3>1. pc = "held" /\ run' = run /\ pc' = "forgetLeft" BY <1>4, <2>1, AfterIs DEF HeldKeys, Advance, Goes
    <3> QED BY <1>3, <1>r, <2>1, <3>1
  <2> QED BY <1>1, <1>4, <2>1 DEF HeldKeys
<1>5. CASE VerifyArrived
  <2>1. CASE Advance /\ MovesLogin
    <3>1. pc = "arrived" /\ run' = run /\ pc' = "midway" BY <1>5, <2>1, AfterIs DEF VerifyArrived, Advance, Goes
    <3> QED BY <1>3, <1>r, <2>1, <3>1
  <2> QED BY <1>1, <1>5, <2>1 DEF VerifyArrived, MovesLogin
<1>6. CASE SetAside
  <2>1. pc = "setAside" /\ pc' = "out" /\ run' = [run EXCEPT !.items = Present]
    BY <1>6, AfterIs DEF SetAside
  <2>2. /\ run'.op = run.op /\ run'.who = run.who /\ run'.session = run.session /\ run'.on = run.on
        /\ run'.row = run.row
    BY <2>1, <1>i DEF TypeOK, Runs
  <2> QED BY <1>3, <1>r, <2>1, <2>2
<1>7. CASE FinishAside
  <2>0. pc = "finishAside" BY <1>7 DEF FinishAside
  <2>1. CASE Advance
    <3>1. run' = run /\ pc' = "midway" BY <2>0, <2>1, AfterIs DEF Advance, Goes
    <3> QED BY <1>3, <1>r, <2>0, <3>1
  <2>2. ASSUME NEW n, Starts("out", run.on, "settingAside", Present, n)
        PROVE  Owned'
    <3>1. /\ run'.op = run.op /\ run'.who = run.who /\ run'.session = run.session /\ run'.on = run.on
          /\ run'.row = "settingAside" /\ pc' = "out"
      BY <2>2, <1>i DEF TypeOK, Runs, Starts
    <3> QED BY <1>3, <2>0, <3>1
  <2> QED BY <1>7, <2>1, <2>2 DEF FinishAside
<1> QED BY <1>4, <1>5, <1>6, <1>7

-----------------------------------------------------------------------------
(* The jar moved out. *)

\* A jar written in a folder a move holds, or taken from it: what is said of all others stays.
LEMMA HeldOwned ==
  ASSUME TypeOK, Apart(saved), OwnData, Moving # NoMove, NEW n \in Names, MoveHolds(saved, n),
         \A o \in Names : o # n => folders'[o] = folders[o],
         folders'[n].manifest = folders[n].manifest,
         n \in Moving.asides => folders'[n].has[Jar] \notin Sessions,
         UNCHANGED <<saved, issued, ended, ran>>
  PROVE  RecordOwned(saved)' /\ ManifestsOwned' /\ MoveOwned' /\ UseOwned'
<1>1. ~Aside(saved, n) /\ ~Listed(saved, n) BY DEF Apart, Moving, NoMove
<1>2. saved \in Records BY DEF TypeOK
<1>3. \A r \in saved.aside : r.name \in Names /\ r.name # n BY <1>1, <1>2 DEF Records, Aside
<1>4. \A d \in saved.discarded : d.name \in Names /\ d.name # n BY <1>1, <1>2 DEF Records, Listed
<1>5. RecordOwned(saved)'
  <2>1. \A r \in saved'.aside : AsideOwned(r)' BY <1>3 DEF OwnData, RecordOwned, AsideOwned
  <2>2. \A d \in saved'.discarded : d.forgotten => folders'[d.name].has[Jar] \notin Sessions \ ended'
    BY <1>4 DEF OwnData, RecordOwned
  <2>3. \A a \in Accounts : saved'.parked[a] # None => Owner[saved'.parked[a].login] = a
    BY DEF OwnData, RecordOwned
  <2> QED BY <2>1, <2>2, <2>3 DEF RecordOwned
<1>6. ManifestsOwned' BY DEF OwnData, ManifestsOwned
<1>7. MoveOwned'
  <2>1. Moving.asides \in SUBSET Names /\ Moving' = Moving BY MoveTyped DEF Moving
  <2>2. ASSUME NEW o \in Moving.asides
        PROVE  /\ folders'[o].has[Jar] \notin Sessions
               /\ folders'[o].manifest # None => folders'[o].manifest.login = None
    <3>1. o \in Names BY <2>1
    <3>2. /\ folders[o].has[Jar] \notin Sessions
          /\ folders[o].manifest # None => folders[o].manifest.login = None
      BY DEF OwnData, MoveOwned
    <3> QED BY <3>1, <3>2
  <2> QED BY <2>1, <2>2 DEF OwnData, MoveOwned
<1>8. UseOwned' BY DEF OwnData, UseOwned, Moving
<1> QED BY <1>5, <1>6, <1>7, <1>8

\* A jar out of the app's folder: into a folder that had none.
LEMMA JarOutOwned ==
  ASSUME TypeOK, Apart(saved), OwnData, Moving # NoMove, NEW n \in Names, MoveHolds(saved, n),
         \A o \in Names : o # n => folders'[o] = folders[o],
         folders'[n].manifest = folders[n].manifest, folders'[n].has[Jar] = root.has[Jar],
         folders[n].has[Jar] = None, root'.has[Jar] = None,
         n \in Moving.asides => root.has[Jar] \notin Sessions,
         UNCHANGED <<saved, issued, ended, ran>>
  PROVE  OwnData'
<1>s. None \notin Sessions BY SessionsApart
<1>k. Kept /\ issued \in SUBSET Sessions BY DEF OwnData, TypeOK
<1>1. Kept'
  <2>1. ASSUME NEW o \in Names, folders'[o].has[Jar] \in Sessions PROVE folders'[o].has[Jar] \in issued
    BY <2>1, <1>k DEF Kept
  <2>2. ASSUME NEW o \in Names, NEW q \in Names, folders'[o].has[Jar] \in Sessions,
               folders'[q].has[Jar] = folders'[o].has[Jar]
        PROVE  o = q
    BY <2>2, <1>k DEF Kept
  <2>3. NoSessionLost'
    <3> SUFFICES ASSUME NEW s \in issued \ ended PROVE \E o \in Names : folders'[o].has[Jar] = s
      BY DEF NoSessionLost
    <3>1. root.has[Jar] = s \/ \E o \in Names : folders[o].has[Jar] = s BY <1>k DEF Kept, NoSessionLost
    <3>2. s # None BY <1>k, <1>s
    <3> QED BY <3>1, <3>2
  <2> QED BY <1>s, <2>1, <2>2, <2>3 DEF Kept
<1>2. RecordOwned(saved)' /\ ManifestsOwned' /\ MoveOwned' /\ UseOwned' BY HeldOwned
<1>3. RootOwned' BY <1>s DEF RootOwned
<1> QED BY <1>1, <1>2, <1>3 DEF OwnData

\* A jar in from the park of the move.
LEMMA JarInOwned ==
  ASSUME TypeOK, Apart(saved), OwnData, Moving # NoMove, NEW n \in Names, MoveHolds(saved, n),
         \A o \in Names : o # n => folders'[o] = folders[o],
         folders'[n].manifest = folders[n].manifest, folders'[n].has[Jar] = None,
         root.has[Jar] = None, root'.has[Jar] = folders[n].has[Jar], root'.keys = None,
         UNCHANGED <<saved, issued, ended, ran>>
  PROVE  OwnData'
<1>s. None \notin Sessions BY SessionsApart
<1>k. Kept /\ issued \in SUBSET Sessions BY DEF OwnData, TypeOK
<1>1. Kept'
  <2>1. ASSUME NEW o \in Names, folders'[o].has[Jar] \in Sessions
        PROVE  o # n /\ folders'[o].has[Jar] \in issued /\ folders'[o].has[Jar] # root'.has[Jar]
    <3>1. o # n BY <2>1, <1>s
    <3>2. folders'[o] = folders[o] BY <3>1
    <3>3. folders[o].has[Jar] \in issued BY <2>1, <3>2, <1>k DEF Kept
    <3>4. folders[n].has[Jar] # folders[o].has[Jar] BY <2>1, <3>1, <3>2, <1>k DEF Kept
    <3> QED BY <3>1, <3>2, <3>3, <3>4
  <2>2. ASSUME NEW o \in Names, NEW q \in Names, folders'[o].has[Jar] \in Sessions,
               folders'[q].has[Jar] = folders'[o].has[Jar]
        PROVE  o = q
    <3>1. o # n /\ q # n BY <2>2, <1>s
    <3> QED BY <2>2, <3>1, <1>k DEF Kept
  <2>3. NoSessionLost'
    <3> SUFFICES ASSUME NEW s \in issued \ ended
                 PROVE  root'.has[Jar] = s \/ \E o \in Names : folders'[o].has[Jar] = s
      BY DEF NoSessionLost
    <3>1. root.has[Jar] = s \/ \E o \in Names : folders[o].has[Jar] = s BY <1>k DEF Kept, NoSessionLost
    <3>2. s # None BY <1>k, <1>s
    <3>3. PICK o \in Names : folders[o].has[Jar] = s BY <3>1, <3>2
    <3> QED BY <3>3
  <2>4. root'.has[Jar] \in Sessions => root'.has[Jar] \in issued BY <1>k DEF Kept
  <2> QED BY <2>1, <2>2, <2>3, <2>4 DEF Kept
<1>2. RecordOwned(saved)' /\ ManifestsOwned' /\ MoveOwned' /\ UseOwned' BY <1>s, HeldOwned
<1>3. RootOwned' BY DEF RootOwned, NamedBy
<1> QED BY <1>1, <1>2, <1>3 DEF OwnData

\* What is to be moved out, an item at a time.
LEMMA MoveOutOwned ==
  ASSUME Inv, Owned, MoveOut, UNCHANGED <<appOpen, issued, ended, ran>>
  PROVE  Owned'
<1>i. TypeOK /\ OwnData /\ RowOwned /\ EnrollOwned /\ Apart(saved) BY DEF Inv, Data, Owned, OwnRun
<1>0. pc = "out" /\ UNCHANGED saved BY DEF MoveOut, Unmoved, disk
<1>d. pc \in Doing BY <1>0 DEF Doing, Fallible
<1>o. /\ Moving # NoMove /\ run.row \in Rows \ {"keysBack", "start"}
      /\ run.to \in Names /\ MoveHolds(saved, run.to) /\ folders[run.to].made
  BY <1>0, OutWhere
<1>m. Moving' = Moving BY <1>0 DEF Moving
<1>w. /\ run.row \in {"leave", "leaveOn"} => root.has[Jar] \in {Moving.login, None, NoSession}
      /\ run.row = "arrive" => NoLogin /\ root.keys = None
      /\ run.row \in {"backAside", "settingAside"} => root.has[Jar] = None
      /\ run.row = "giveUp" => Jar \notin run.items
  BY <1>0, <1>d, <1>i DEF RowOwned, Built
<1>p. /\ run.row \in {"leave", "leaveOn", "back", "backAside", "keysAside"} => run.to = Moving.park
      /\ run.on = "giveUp" => run.row = "giveUp"
  BY <1>0, <1>d, RowAt DEF OfLeave, OfLeaveOn, OfBack, OfKeysAside, OfGiveUp, OfArrive, Rows, OfStart, OfKeysBack
<1>a. Moving.park \notin Moving.asides BY <1>o, <1>i DEF Apart, Moving, NoMove
<1> PICK n, i : n = run.to /\ i = First(run.items) OBVIOUS
<1> PICK is : is = run.items \ {i} OBVIOUS
<1>r. root \in [has : Holding, keys : Keys] /\ run.items \in SUBSET ItemSet
  BY <1>i DEF TypeOK, Runs
<1>1. CASE run.items = {}
  <2>1. /\ pc' = After /\ run' = run /\ UNCHANGED <<root, folders>>
    BY <1>0, <1>1 DEF MoveOut, Advance, Goes, Unmoved, disk
  <2>2. pc' = IF run.row \in {"arrive", "settingAside"} THEN "forgetLeft"
              ELSE IF run.row = "giveUp" THEN "hold" ELSE "verify"
    BY <1>0, <2>1, AfterIs
  <2>3. pc' \in Doing BY <2>2 DEF Doing, Fallible
  <2>4. BuildOwned' BY <2>2 DEF BuildOwned
  <2>5. RowOwned'
    BY <1>m, <1>o, <1>w, <2>1, <2>2 DEF RowOwned, NoLogin
  <2> QED BY <1>0, <2>1, <2>3, <2>4, <2>5, FoldersStay, QuietOwned
<1>2. CASE run.items # {}
  <2>i. i \in run.items /\ i \in ItemSet BY <1>2, <1>r, FirstIs
  <2>0. pc' = pc /\ run' = [run EXCEPT !.items = is]
    <3>1. OneMoved BY <1>2 DEF MoveOut
    <3> QED BY <1>0, <3>1 DEF OneMoved
  <2>p. pc' = "out" /\ pc' \in Doing BY <1>0, <1>d, <2>0
  <2>7. /\ run'.op = run.op /\ run'.who = run.who /\ run'.session = run.session
        /\ run'.on = run.on /\ run'.row = run.row /\ run'.items \subseteq run.items
    BY <2>0, <1>i DEF TypeOK, Runs
  <2>4. BuildOwned' /\ ReserveOwned' /\ CommitOwned' BY <2>p DEF BuildOwned, ReserveOwned, CommitOwned
  <2>r. ASSUME root'.has[Jar] \in {root.has[Jar], None}, root'.keys = root.keys PROVE RowOwned'
    BY <1>m, <1>o, <1>w, <2>p, <2>7, <2>r, SessionsApart DEF RowOwned, NoLogin
  <2>a. CASE UNCHANGED <<root, folders>>
    <3>1. RowOwned' BY <2>a, <2>r
    <3> QED BY <1>0, <2>a, <2>p, <2>4, <2>7, <3>1, FoldersStay, QuietOwned
  <2>b. CASE ~UNCHANGED <<root, folders>>
    <3>0. /\ folders' = [folders EXCEPT ![n].has[i] = root.has[i]]
          /\ root' = [root EXCEPT !.has[i] = None]
          /\ folders[n].has[i] = None
      BY <1>2, <2>b DEF MoveOut, Unmoved, disk, InFolder
    <3>g. PICK g, v : g = folders[n] /\ v = root.has[i] OBVIOUS
    <3>f. PICK f : f = [g EXCEPT !.has[i] = v] OBVIOUS
    <3>1. g \in Folders /\ g.made /\ v \in Sessions \cup Accounts \cup {NoSession, Fresh, None}
      BY <1>o, <1>r, <2>i, <3>g, <1>i DEF TypeOK, Holding
    <3>2. /\ f \in Folders /\ f.made /\ f.manifest = g.manifest
          /\ f.has = [g.has EXCEPT ![i] = v]
      BY <3>1, <3>f, <2>i DEF Folders, Holding
    <3>3. folders' = [folders EXCEPT ![n] = f] BY <3>0, <3>f, <3>g
    <3>4. /\ folders'[n] = f /\ \A o \in Names : o # n => folders'[o] = folders[o]
      BY <1>o, <1>i, <3>2, <3>3, FolderTyped
    <3>5. root'.keys = root.keys /\ root'.has = [root.has EXCEPT ![i] = None]
      BY <3>0, <1>r DEF Holding
    <3>h. g.has \in Holding /\ root.has \in Holding BY <1>r, <3>1 DEF Folders
    <3>6. root'.has[Jar] = IF i = Jar THEN None ELSE root.has[Jar]
      BY <3>5, <3>h, Constant DEF Holding
    <3>7. f.has[Jar] = IF i = Jar THEN root.has[Jar] ELSE g.has[Jar]
      BY <3>2, <3>g, <3>h, Constant DEF Holding
    <3>8. RowOwned' BY <2>r, <3>5, <3>6
    <3>9. CASE i # Jar
      <4>1. JarsStay BY <3>4, <3>7, <3>9, <3>g DEF JarsStay
      <4>2. LabelsStay BY <3>2, <3>4, <3>g DEF LabelsStay
      <4> QED BY <1>0, <2>p, <2>4, <2>7, <3>5, <3>6, <3>8, <3>9, <4>1, <4>2, QuietOwned
    <3>10. CASE i = Jar
      <4>1. n \in Moving.asides => root.has[Jar] \notin Sessions
        BY <1>a, <1>o, <1>p, <1>w, <2>i, <3>10, SessionsApart DEF NoLogin, Rows
      <4>2. /\ folders'[n].manifest = folders[n].manifest /\ folders'[n].has[Jar] = root.has[Jar]
            /\ folders[n].has[Jar] = None /\ root'.has[Jar] = None
        BY <3>0, <3>2, <3>4, <3>6, <3>7, <3>10, <3>g
      <4>3. OwnData' BY <1>0, <1>i, <1>o, <3>4, <4>1, <4>2, JarOutOwned
      <4>4. EnrollOwned' BY <1>p, <1>w, <2>i, <2>7, <3>10 DEF EnrollOwned
      <4> QED BY <2>4, <3>8, <4>3, <4>4 DEF Owned, OwnRun
    <3> QED BY <3>9, <3>10
  <2> QED BY <2>a, <2>b
<1> QED BY <1>1, <1>2

-----------------------------------------------------------------------------
(* The jar moved in, and the last steps before a save. *)

\* What is put back, an item at a time.
LEMMA MoveInOwned ==
  ASSUME Inv, Owned, MoveIn, UNCHANGED <<appOpen, issued, ended, ran>>
  PROVE  Owned'
<1>i. TypeOK /\ OwnData /\ RowOwned /\ Apart(saved) /\ MovePark BY DEF Inv, Data, Owned, OwnRun
<1>0. pc = "in" /\ UNCHANGED saved BY DEF MoveIn, Unmoved, disk
<1>d. pc \in Doing BY <1>0 DEF Doing, Fallible
<1>r. run.row = "arrive" /\ Moving # NoMove /\ run.on = "forward"
  BY <1>0, <1>d, RowAt DEF Rows, OfLeave, OfArrive, OfKeysBack, OfLeaveOn, OfBack, OfGiveUp, OfKeysAside, OfStart
<1>w. root.keys = None /\ (NoLogin \/ root.has[Jar] = Moving.login) BY <1>0, <1>d, <1>r, <1>i DEF RowOwned
<1>m. Moving' = Moving BY <1>0 DEF Moving
<1>t. Moving.park \in Names /\ Moving.login \in Sessions BY <1>i, <1>r, MoveTyped
<1> PICK n, i : n = Moving.park /\ i = Final(run.items) OBVIOUS
<1> PICK is : is = run.items \ {i} OBVIOUS
<1>q. root \in [has : Holding, keys : Keys] /\ run.items \in SUBSET ItemSet
  BY <1>i DEF TypeOK, Runs
<1>1. CASE run.items = {}
  <2>1. /\ pc' = "put" /\ run' = run /\ UNCHANGED <<root, folders>>
    BY <1>0, <1>1, AfterIs DEF MoveIn, Advance, Goes, Unmoved, disk
  <2>3. pc' \in Doing BY <2>1 DEF Doing, Fallible
  <2>4. BuildOwned' BY <2>1 DEF BuildOwned
  <2>5. RowOwned' BY <1>m, <1>r, <1>w, <2>1 DEF RowOwned, NoLogin, Built
  <2> QED BY <1>0, <2>1, <2>3, <2>4, <2>5, FoldersStay, QuietOwned
<1>2. CASE Failed /\ UNCHANGED <<root, folders>>
  BY <1>0, <1>2, <1>i, FailedOwned
<1>3. CASE run.items # {} /\ ~(Failed /\ UNCHANGED <<root, folders>>)
  <2>i. i \in run.items /\ i \in ItemSet BY <1>3, <1>q, FirstIs
  <2>0. /\ OneMoved
        /\ root' = [root EXCEPT !.has[i] = folders[n].has[i]]
        /\ folders' = [folders EXCEPT ![n].has[i] = None]
        /\ root.has[i] = None
    BY <1>3 DEF MoveIn, Unmoved, disk, InRoot
  <2>p. pc' = "in" /\ pc' \in Doing BY <1>0, <1>d, <2>0 DEF OneMoved
  <2>x. run' = [run EXCEPT !.items = is] BY <1>0, <2>0 DEF OneMoved
  <2>7. /\ run'.op = run.op /\ run'.who = run.who /\ run'.session = run.session
        /\ run'.on = run.on /\ run'.row = run.row
    BY <2>x, <1>i DEF TypeOK, Runs
  <2>4. BuildOwned' /\ ReserveOwned' /\ CommitOwned' /\ EnrollOwned'
    BY <1>r, <2>p, <2>7 DEF BuildOwned, ReserveOwned, CommitOwned, EnrollOwned
  <2>g. PICK g, v : g = folders[n] /\ v = folders[n].has[i] OBVIOUS
  <2>f. PICK f : f = [g EXCEPT !.has[i] = None] OBVIOUS
  <2>1. g \in Folders /\ n \in Names BY <1>t, <2>g, <1>i DEF TypeOK
  <2>2. f.manifest = g.manifest /\ f.has = [g.has EXCEPT ![i] = None]
    BY <2>1, <2>f DEF Folders
  <2>3. folders' = [folders EXCEPT ![n] = f] BY <2>0, <2>f, <2>g
  <2>5. folders'[n] = f /\ \A o \in Names : o # n => folders'[o] = folders[o]
    BY <2>1, <2>3, <1>i DEF TypeOK
  <2>6. root'.keys = root.keys /\ root'.has = [root.has EXCEPT ![i] = v]
    BY <2>0, <2>g, <1>q
  <2>h. g.has \in Holding /\ root.has \in Holding BY <1>q, <2>1 DEF Folders
  <2>8. root'.has[Jar] = IF i = Jar THEN v ELSE root.has[Jar]
    BY <2>6, <2>h, Constant DEF Holding
  <2>9. f.has[Jar] = IF i = Jar THEN None ELSE g.has[Jar]
    BY <2>2, <2>h, Constant DEF Holding
  <2>10. CASE i # Jar
    <3>1. JarsStay BY <2>5, <2>9, <2>10, <2>g DEF JarsStay
    <3>2. LabelsStay BY <2>2, <2>5, <2>g DEF LabelsStay
    <3>3. RowOwned' BY <1>m, <1>r, <1>w, <2>6, <2>7, <2>8, <2>10, <2>p DEF RowOwned, NoLogin, Built
    <3> QED BY <1>0, <2>p, <2>4, <2>6, <2>7, <2>8, <2>10, <3>1, <3>2, <3>3, QuietOwned
  <2>11. CASE i = Jar
    <3>1. v \in {None, Moving.login} BY <1>i, <1>r, <2>11, <2>g DEF MovePark
    <3>2. MoveHolds(saved, n) BY <1>r DEF MoveHolds, Moving
    <3>3. /\ folders'[n].manifest = folders[n].manifest /\ folders'[n].has[Jar] = None
          /\ root.has[Jar] = None /\ root'.has[Jar] = folders[n].has[Jar] /\ root'.keys = None
      BY <1>w, <2>0, <2>2, <2>5, <2>6, <2>8, <2>9, <2>11, <2>g
    <3>4. OwnData' BY <1>0, <1>i, <1>r, <2>1, <2>5, <3>2, <3>3, JarInOwned
    <3>5. RowOwned' BY <1>m, <1>r, <1>w, <2>7, <2>8, <2>11, <2>p, <2>6, <3>1, SessionsApart DEF RowOwned, NoLogin, Built
    <3> QED BY <2>4, <3>4, <3>5 DEF Owned, OwnRun
  <2> QED BY <2>10, <2>11
<1> QED BY <1>1, <1>2, <1>3

\* What a give-up listed forgotten, or a manifest that comes to list what is there.
LEMMA AlikeOwned ==
  ASSUME \A n \in Names : Alike(n)
  PROVE  JarsStay /\ LabelsStay
BY DEF Alike, JarsStay, LabelsStay

\* What a give-up listed forgotten.
LEMMA ForgetLeftOwned ==
  ASSUME Inv, Owned, ForgetLeft, UNCHANGED <<appOpen, issued, ended, ran>>
  PROVE  Owned'
<1>i. TypeOK /\ RowOwned BY DEF Inv, Owned, OwnRun
<1>0. pc = "forgetLeft" /\ pc' = After /\ UNCHANGED <<root, saved>> BY DEF ForgetLeft
<1>d. pc \in Doing BY <1>0 DEF Doing, Fallible
<1>r. run.row \in {"arrive", "settingAside"}
  BY <1>0, <1>d, RowAt DEF Rows, OfLeave, OfArrive, OfKeysBack, OfLeaveOn, OfBack, OfGiveUp, OfKeysAside, OfStart
<1>p. pc' = IF run.row = "arrive" THEN "in" ELSE "midway" BY <1>0, AfterIs
<1>1. JarsStay /\ LabelsStay BY <1>i, ForgetsOf, AlikeOwned DEF ForgetLeft
<1>x. PICK is : run' = [run EXCEPT !.items = is] BY DEF ForgetLeft
<1>2. /\ run'.op = run.op /\ run'.who = run.who /\ run'.session = run.session
      /\ run'.on = run.on /\ run'.row = run.row
  BY <1>x, <1>i DEF TypeOK, Runs
<1>3. BuildOwned' BY <1>p DEF BuildOwned
<1>4. RowOwned'
  <2>1. /\ run.row = "arrive" => NoLogin /\ root.keys = None
        /\ run.row = "settingAside" => root.has[Jar] = None
    BY <1>0, <1>d, <1>i DEF RowOwned
  <2> QED BY <1>0, <1>p, <1>r, <1>2, <2>1 DEF RowOwned, NoLogin, Built
<1>5. pc' \in Doing BY <1>p DEF Doing, Fallible
<1> QED BY <1>0, <1>1, <1>2, <1>3, <1>4, <1>5, QuietOwned

\* A manifest that comes to list what is there, or what is left behind.
LEMMA ListsOwned ==
  ASSUME TypeOK, NEW n \in Names, folders[n].manifest # None, NEW f,
         \/ \E is : f = [folders[n] EXCEPT !.manifest.items = is]
         \/ \E is : f = [folders[n] EXCEPT !.manifest.left = is],
         folders' = [folders EXCEPT ![n] = f]
  PROVE  JarsStay /\ LabelsStay
<1> PICK g, m : g = folders[n] /\ m = g.manifest OBVIOUS
<1>1. g \in Folders /\ m \in Manifests BY DEF TypeOK, Folders
<1>2. \A is : /\ [m EXCEPT !.items = is].account = m.account /\ [m EXCEPT !.items = is].login = m.login
              /\ [m EXCEPT !.left = is].account = m.account /\ [m EXCEPT !.left = is].login = m.login
  BY <1>1 DEF Manifests
<1>3. \E k : f = [g EXCEPT !.manifest = k] /\ k.account = m.account /\ k.login = m.login
  <2>1. ASSUME NEW is, f = [folders[n] EXCEPT !.manifest.items = is]
        PROVE  \E k : f = [g EXCEPT !.manifest = k] /\ k.account = m.account /\ k.login = m.login
    <3> PICK k : k = [m EXCEPT !.items = is] OBVIOUS
    <3>1. f = [g EXCEPT !.manifest = k] BY <2>1
    <3>2. k.account = m.account /\ k.login = m.login BY <1>2
    <3> QED BY <3>1, <3>2
  <2>2. ASSUME NEW is, f = [folders[n] EXCEPT !.manifest.left = is]
        PROVE  \E k : f = [g EXCEPT !.manifest = k] /\ k.account = m.account /\ k.login = m.login
    <3> PICK k : k = [m EXCEPT !.left = is] OBVIOUS
    <3>1. f = [g EXCEPT !.manifest = k] BY <2>2
    <3>2. k.account = m.account /\ k.login = m.login BY <1>2
    <3> QED BY <3>1, <3>2
  <2> QED BY <2>1, <2>2
<1>4. PICK k : f = [g EXCEPT !.manifest = k] /\ k.account = m.account /\ k.login = m.login BY <1>3
<1>5. f.manifest = k /\ f.has = g.has BY <1>1, <1>4 DEF Folders
<1>6. folders'[n] = f /\ \A o \in Names : o # n => folders'[o] = folders[o] BY DEF TypeOK
<1>7. JarsStay BY <1>5, <1>6 DEF JarsStay
<1>8. LabelsStay BY <1>4, <1>5, <1>6 DEF LabelsStay
<1> QED BY <1>7, <1>8

\* The park verified.
LEMMA VerifyOwned ==
  ASSUME Inv, Owned, Verify, UNCHANGED <<appOpen, issued, ended, ran>>
  PROVE  Owned'
<1>i. TypeOK /\ RowOwned BY DEF Inv, Owned, OwnRun
<1>0. pc = "verify" /\ UNCHANGED <<root, saved>> BY DEF Verify, Unmoved, disk
<1>d. pc \in Doing BY <1>0 DEF Doing, Fallible
<1>r. run.row \in {"leave", "leaveOn", "back", "backAside", "keysAside"} /\ Moving # NoMove
  BY <1>0, <1>d, RowAt DEF Rows, OfLeave, OfArrive, OfKeysBack, OfLeaveOn, OfBack, OfGiveUp, OfKeysAside, OfStart, Built
<1>1. CASE Failed /\ Unmoved BY <1>1, <1>i, FailedOwned DEF Unmoved, disk
<1>2. CASE Advance /\ folders[Moving.park].manifest # None /\ HoldsWhatIsThere(Moving.park, Moving.items)
  <2>1. run' = run /\ pc' = IF run.row = "backAside" THEN "finishAside" ELSE "midway"
    BY <1>0, <1>2, AfterIs DEF Advance, Goes
  <2>t. Moving.park \in Names BY <1>i, <1>r, MoveTyped
  <2> PICK n, is : n = Moving.park /\ is = HeldItems(Moving.park, Moving.items) OBVIOUS
  <2> PICK f : f = [folders[n] EXCEPT !.manifest.items = is] OBVIOUS
  <2>2. folders' = [folders EXCEPT ![n] = f]
    BY <1>2 DEF HoldsWhatIsThere
  <2>3. JarsStay /\ LabelsStay BY <1>2, <1>i, <2>t, <2>2, ListsOwned
  <2>4. BuildOwned' BY <2>1 DEF BuildOwned
  <2>5. RowOwned'
    <3>1. Moving' = Moving BY <1>0 DEF Moving
    <3>2. /\ run.row \in {"leave", "leaveOn"} => root.has[Jar] \in {Moving.login, None, NoSession}
          /\ run.row = "backAside" => root.has[Jar] = None
      BY <1>d, <1>i DEF RowOwned
    <3> QED BY <1>0, <1>r, <2>1, <3>1, <3>2 DEF RowOwned
  <2>6. pc' \in Doing BY <2>1 DEF Doing, Fallible
  <2> QED BY <1>0, <2>1, <2>3, <2>4, <2>5, <2>6, QuietOwned
<1> QED BY <1>1, <1>2 DEF Verify

\* A step that fails.
LEMMA StepFailsOwned ==
  ASSUME Inv, Owned, StepFails
  PROVE  Owned'
<1>1. TypeOK /\ Failed /\ UNCHANGED <<root, folders, saved, issued, ended, ran>>
  BY DEF StepFails, Unmoved, disk, app, Inv
<1> QED BY <1>1, FailedOwned

\* Every step of a move.
LEMMA WorkStepOwned ==
  ASSUME Inv, Owned, WorkStep
  PROVE  Owned'
<1>1. UNCHANGED <<appOpen, issued, ended, ran>> BY DEF WorkStep, app
<1> QED BY <1>1, BuildsOwned, KeepOwned, ClearOwned, PutOwned, LooksOwned, MoveOutOwned, MoveInOwned,
           ForgetLeftOwned, VerifyOwned DEF WorkStep

\* What is left behind, listed.
LEMMA ListLeftOwned ==
  ASSUME Inv, Owned, ListLeft
  PROVE  Owned'
<1>i. TypeOK /\ RowOwned BY DEF Inv, Owned, OwnRun
<1>0. pc = "left" /\ UNCHANGED <<root, saved, issued, ended, ran>>
  BY DEF ListLeft, Unmoved, disk, app, InFolders
<1>d. pc \in Doing BY <1>0 DEF Doing, Fallible
<1>r. run.row = "giveUp" /\ Moving # NoMove
  BY <1>0, <1>d, RowAt DEF Rows, OfLeave, OfArrive, OfKeysBack, OfLeaveOn, OfBack, OfGiveUp, OfKeysAside, OfStart, Built
<1> PICK n : n = Moving.park OBVIOUS
<1>1. CASE Failed /\ Unmoved BY <1>0, <1>1, <1>i, FailedOwned DEF Unmoved, disk
<1>2. CASE /\ Advance /\ folders[n].manifest # None
           /\ InFolders(n, [folders[n] EXCEPT !.manifest.left = run.list])
  <2>1. run' = run /\ pc' = "hold" BY <1>0, <1>2, AfterIs DEF Advance, Goes
  <2>t. n \in Names BY <1>i, <1>r, MoveTyped
  <2> PICK f : f = [folders[n] EXCEPT !.manifest.left = run.list] OBVIOUS
  <2>2. folders' = [folders EXCEPT ![n] = f] BY <1>2 DEF InFolders
  <2>3. JarsStay /\ LabelsStay BY <1>2, <1>i, <2>t, <2>2, ListsOwned
  <2>4. BuildOwned' /\ RowOwned' BY <1>r, <2>1 DEF BuildOwned, RowOwned
  <2>6. pc' \in Doing BY <2>1 DEF Doing, Fallible
  <2> QED BY <1>0, <2>1, <2>3, <2>4, <2>6, QuietOwned
<1> QED BY <1>1, <1>2 DEF ListLeft

\* What a park given up holds, listed.
LEMMA HoldOwned ==
  ASSUME Inv, Owned, Hold
  PROVE  Owned'
<1>i. TypeOK /\ RowOwned BY DEF Inv, Owned, OwnRun
<1>0. pc = "hold" /\ UNCHANGED <<root, saved, issued, ended, ran>> BY DEF Hold, app
<1>d. pc \in Doing BY <1>0 DEF Doing, Fallible
<1>r. run.row = "giveUp" /\ Moving # NoMove
  BY <1>0, <1>d, RowAt DEF Rows, OfLeave, OfArrive, OfKeysBack, OfLeaveOn, OfBack, OfGiveUp, OfKeysAside, OfStart, Built
<1> PICK n : n = Moving.park OBVIOUS
<1>s. \/ Failed /\ UNCHANGED folders
      \/ Advance /\ UNCHANGED folders
      \/ Advance /\ folders[n].manifest # None /\ HoldsWhatIsThere(n, Moving.items)
  <2> PICK m, f : m = Moving /\ f = folders[m.park] OBVIOUS
  <2>1. CASE f.has[Jar] # m.login BY <2>1 DEF Hold
  <2>2. CASE f.has[Jar] = m.login /\ f.manifest # None BY <2>2 DEF Hold
  <2>3. CASE f.has[Jar] = m.login /\ f.manifest = None BY <2>3 DEF Hold
  <2> QED BY <2>1, <2>2, <2>3
<1>1. CASE Failed /\ UNCHANGED folders BY <1>0, <1>1, <1>i, FailedOwned
<1>2. ASSUME Advance, JarsStay, LabelsStay PROVE Owned'
  <2>1. run' = run /\ pc' = "midway" BY <1>0, <1>2, AfterIs DEF Advance, Goes
  <2>2. BuildOwned' /\ RowOwned' BY <1>r, <2>1 DEF BuildOwned, RowOwned
  <2>3. pc' \in Doing BY <2>1 DEF Doing
  <2> QED BY <1>0, <1>2, <2>1, <2>2, <2>3, QuietOwned
<1>3. CASE Advance /\ UNCHANGED folders BY <1>2, <1>3, FoldersStay
<1>4. CASE Advance /\ folders[n].manifest # None /\ HoldsWhatIsThere(n, Moving.items)
  <2>t. n \in Names BY <1>i, <1>r, MoveTyped
  <2> PICK is : is = HeldItems(n, Moving.items) OBVIOUS
  <2> PICK f : f = [folders[n] EXCEPT !.manifest.items = is] OBVIOUS
  <2>2. folders' = [folders EXCEPT ![n] = f] BY <1>4 DEF HoldsWhatIsThere
  <2>3. JarsStay /\ LabelsStay BY <1>4, <1>i, <2>t, <2>2, ListsOwned
  <2> QED BY <1>2, <1>4, <2>3
<1> QED BY <1>s, <1>1, <1>3, <1>4

\* The app seen closed after the last write: a move is recorded as done of the login it is of.
LEMMA MidwayOwned ==
  ASSUME Inv, Owned, Midway
  PROVE  Owned'
<1>i. TypeOK /\ OwnData /\ RowOwned /\ EnrollOwned BY DEF Inv, Owned, OwnRun
<1>0. pc = "midway" /\ pc \in Doing /\ UNCHANGED <<root, folders, saved, issued, ended, ran>>
  BY DEF Midway, disk, app, Doing
<1>1. CASE End BY <1>0, <1>1, <1>i, EndsOwned
<1>2. CASE Advance
  <2>1. run' = run /\ pc' = After BY <1>2 DEF Advance, Goes
  <2>p. pc' = IF run.row \in {"leave", "leaveOn"} THEN "commitLeave"
              ELSE IF run.row = "arrive" THEN "commitArrive"
              ELSE IF run.row = "giveUp" THEN "givenUp"
              ELSE IF run.row = "start" THEN "started" ELSE "undone"
    BY <1>0, <2>1, AfterIs
  <2>m. Moving' = Moving BY <1>0 DEF Moving
  <2>2. OwnData' BY <1>0, <1>i, SameOwned
  <2>3. EnrollOwned' BY <1>0, <1>i, <2>1, EnrollStays
  <2>4. ReserveOwned' /\ BuildOwned' BY <2>p DEF ReserveOwned, BuildOwned
  <2>5. RowOwned' BY <2>p DEF RowOwned, Doing, Fallible
  <2>6. CommitOwned'
    <3>1. run.row \in {"leave", "leaveOn"} => NoLogin
      <4>1. SUFFICES ASSUME run.row \in {"leave", "leaveOn"} PROVE NoLogin OBVIOUS
      <4>2. Moving # NoMove /\ Whole(Moving.park, Moving.who, Moving.login)
        BY <1>0, <4>1, RowAt DEF OfLeave, OfLeaveOn
      <4>3. Moving.park \in Names /\ Moving.login \in Sessions BY <1>i, <4>2, MoveTyped
      <4>4. folders[Moving.park].has[Jar] = Moving.login BY <4>2 DEF Whole
      <4>5. root.has[Jar] # Moving.login BY <1>i, <4>3, <4>4 DEF OwnData, Kept
      <4>6. root.has[Jar] \in {Moving.login, None, NoSession} BY <1>0, <4>1, <1>i DEF RowOwned
      <4> QED BY <4>5, <4>6, SessionsApart DEF NoLogin
    <3>2. run.row = "arrive" => MovesLogin BY <1>0, <1>i DEF RowOwned
    <3>3. run.row = "keysBack" => MovesLogin BY <1>0, <1>i DEF RowOwned
    <3>4. run.row \in {"back", "backAside", "settingAside", "keysAside"} => Moving.half = "arrive"
      BY <1>0, RowAt DEF OfBack, OfKeysAside
    <3>5. run.row \in Rows BY <1>0, RowAt
    <3>6. pc' = "undone" => run.row \in {"keysBack", "back", "backAside", "settingAside", "keysAside"}
      BY <2>p, <3>5 DEF Rows
    <3> QED BY <1>0, <2>m, <2>p, <3>1, <3>2, <3>3, <3>4, <3>6 DEF CommitOwned, NoLogin, MovesLogin, NamedBy
  <2> QED BY <2>2, <2>3, <2>4, <2>5, <2>6 DEF Owned, OwnRun
<1> QED BY <1>1, <1>2 DEF Midway

-----------------------------------------------------------------------------
(* What a commit says of whose each folder is. *)

\* A commit whose save failed: of logins nothing is written.
LEMMA CommitFailsOwned ==
  ASSUME Inv, Owned, UNCHANGED <<root, saved, issued, ended, ran>>, End, ForgetsLeft \/ UNCHANGED folders
  PROVE  Owned'
<1>i. TypeOK /\ OwnData BY DEF Inv, Owned
<1>1. \A n \in Names : Alike(n) BY <1>i, ForgetsOf
<1>2. JarsStay /\ LabelsStay BY <1>1, AlikeOwned
<1>3. OwnData' BY <1>i, <1>2, OwnStays
<1> QED BY <1>3, EndOwned DEF Owned

\* A record with asides more, of folders whose owner they name, and no folder more that may go.
LEMMA RecordMore ==
  ASSUME NEW s, NEW t, RecordOwned(s),
         \A a \in Accounts : t.parked[a] = s.parked[a] \/ t.parked[a] = None \/ Owner[t.parked[a].login] = a,
         \A r \in t.aside : r \in s.aside \/ AsideOwned(r),
         \A d \in t.discarded : d \in s.discarded \/ d.forgotten = FALSE
  PROVE  RecordOwned(t)
<1>1. \A a \in Accounts : t.parked[a] # None => Owner[t.parked[a].login] = a BY DEF RecordOwned
<1>2. \A r \in t.aside : AsideOwned(r) BY DEF RecordOwned
<1>3. \A d \in t.discarded : d.forgotten => folders[d.name].has[Jar] \notin Sessions \ ended
  BY DEF RecordOwned
<1> QED BY <1>1, <1>2, <1>3 DEF RecordOwned

\* A park that no move holds is a folder of its account's login.
LEMMA ParkIsOwned ==
  ASSUME TypeOK, ParksWhole, RecordOwned(saved), NEW a \in Accounts, saved.parked[a] # None,
         ~MoveHolds(saved, saved.parked[a].name),
         NEW r, r = [name |-> saved.parked[a].name, account |-> a, login |-> saved.parked[a].login]
  PROVE  AsideOwned(r)
<1> PICK n, l : n = saved.parked[a].name /\ l = saved.parked[a].login OBVIOUS
<1>1. r.name = n /\ r.account = a /\ r.login = l OBVIOUS
<1>2. CanArrive(a) BY DEF ParksWhole
<1>3. folders[n].has[Jar] = l BY <1>2, CanArriveIs DEF Whole
<1>4. Owner[l] = a BY DEF RecordOwned
<1> QED BY <1>1, <1>3, <1>4 DEF AsideOwned

\* A move's end says of no folder more than is so: what it set aside is no login.
LEMMA SettledOwned ==
  ASSUME TypeOK, MoveOwned, Moving # NoMove, NEW s \in Records, RecordOwned(s),
         NEW x \in Accounts \cup {None},
         NEW t, t = Settled(s, Moving) \/ t = [Settled(s, Moving) EXCEPT !.awaiting = x]
  PROVE  t \in Records /\ RecordOwned(t) /\ t.moving = NoMove /\ t.inUse = s.inUse
<1>t. Moving \in Moves /\ Moving.asides \in SUBSET Names BY MoveTyped
<1>1. /\ t \in Records /\ t.moving = NoMove /\ t.parked = s.parked /\ t.discarded = s.discarded
      /\ t.aside = IndexAsides(s, Moving).aside
  BY <1>t, SettledOf
<1>q. PICK q : q = IndexAsides(s, Moving) OBVIOUS
<1>2. /\ q \in Records /\ q.inUse = s.inUse
      /\ \A r \in q.aside : r \in s.aside \/
              /\ r.name \in Moving.asides /\ r.login = None
              /\ r.account = IF folders[r.name].manifest = None THEN None
                             ELSE folders[r.name].manifest.account
  BY <1>t, <1>q, IndexAsidesOf
<1>3. t.inUse = s.inUse
  <2>1. t = [q EXCEPT !.moving = NoMove] \/ t = [[q EXCEPT !.moving = NoMove] EXCEPT !.awaiting = x]
    BY <1>q DEF Settled
  <2> QED BY <2>1, <1>2 DEF Records
<1>4. ASSUME NEW r \in t.aside PROVE r \in s.aside \/ AsideOwned(r)
  <2>1. r \in s.aside \/ (r.name \in Moving.asides /\ r.login = None) BY <1>1, <1>2, <1>q
  <2>2. r.name \in Moving.asides => folders[r.name].has[Jar] \notin Sessions BY DEF MoveOwned
  <2> QED BY <2>1, <2>2 DEF AsideOwned
<1>5. \A a \in Accounts : t.parked[a] = s.parked[a] BY <1>1
<1>6. \A d \in t.discarded : d \in s.discarded BY <1>1
<1>7. RecordOwned(t) BY <1>4, <1>5, <1>6, RecordMore
<1> QED BY <1>1, <1>3, <1>7

\* Whose the login in use is recorded to be, and what is in the app's folder.
UseIs(u, wrote) ==
  /\ u.login \in issued \cup {None}
  /\ u.who # None => u.login # None
  /\ u.who # None /\ ~wrote => root.has[Jar] = u.login /\ NamedBy(root.keys) = u.who
  /\ root.has[Jar] \in Sessions /\ NamedBy(root.keys) \notin {None, Owner[root.has[Jar]]} =>
       u.login # root.has[Jar]

\* A record saved with no move in it.
LEMMA CommitOwns ==
  ASSUME TypeOK, OwnData, saved' \in Records, saved'.moving = NoMove, RecordOwned(saved'),
         \A n \in Names : Alike(n), UNCHANGED <<root, issued, ended>>,
         UseIs(saved'.inUse, ran')
  PROVE  OwnData'
<1>1. JarsStay /\ LabelsStay BY AlikeOwned
<1>2. Kept' BY <1>1, KeptStays DEF OwnData
<1>3. RecordOwned(saved)' BY <1>1, RecordStays
<1>4. ManifestsOwned' BY <1>1, ManifestsStay DEF OwnData
<1>5. Moving' = NoMove BY DEF Moving
<1>6. MoveOwned' BY <1>5 DEF MoveOwned
<1>7. RootOwned' BY <1>5 DEF RootOwned, OwnData, UseIs
<1>8. UseOwned' BY <1>5 DEF UseOwned, UseIs
<1> QED BY <1>2, <1>3, <1>4, <1>6, <1>7, <1>8 DEF OwnData

\* One that names nobody.
LEMMA NobodyIs ==
  ASSUME NEW u, u.who = None, u.login = None
  PROVE  \A w : UseIs(u, w)
BY SessionsApart DEF UseIs

-----------------------------------------------------------------------------
(* A leave committed, of its login. *)

\* The folder of a move, whole, is of the account's login.
LEMMA MoveIsOwned ==
  ASSUME MoveOwned, Moving # NoMove, folders[Moving.park].has[Jar] = Moving.login,
         NEW r, r = [name |-> Moving.park, account |-> Moving.who, login |-> Moving.login]
  PROVE  AsideOwned(r)
<1>1. r.name = Moving.park /\ r.account = Moving.who /\ r.login = Moving.login OBVIOUS
<1>2. Owner[Moving.login] = Moving.who BY DEF MoveOwned
<1> QED BY <1>1, <1>2 DEF AsideOwned

\* A park replaced by a move's is owned where it goes.
LEMMA ParksOwned ==
  ASSUME TypeOK, Data, OwnData, Moving # NoMove, NEW g,
         folders[Moving.park].has[Jar] = Moving.login,
         \/ g = Park(saved, Moving.who, Moving.park, Moving.login)
            /\ (saved.parked[Moving.who] # None => ~MoveHolds(saved, saved.parked[Moving.who].name))
         \/ g = AddAside(saved, Moving.park, Moving.who, Moving.login)
  PROVE  RecordOwned(g) /\ g \in Records
<1> PICK a, n, l : a = Moving.who /\ n = Moving.park /\ l = Moving.login OBVIOUS
<1>b. a \in Accounts /\ n \in Names /\ l \in Sessions BY MoveTyped
<1>s. saved \in Records BY DEF TypeOK
<1>o. RecordOwned(saved) /\ MoveOwned BY DEF OwnData
<1>1. CASE g = Park(saved, a, n, l) /\ (saved.parked[a] # None => ~MoveHolds(saved, saved.parked[a].name))
  <2>1. /\ g \in Records
        /\ \A b \in Accounts : b # a => g.parked[b] = saved.parked[b]
        /\ g.parked[a] = [name |-> n, login |-> l]
        /\ g.discarded = saved.discarded
        /\ \A r \in g.aside : r \in saved.aside \/
              /\ saved.parked[a] # None /\ saved.parked[a].name # n
              /\ r = [name |-> saved.parked[a].name, account |-> a, login |-> saved.parked[a].login]
    BY <1>1, <1>b, <1>s, ParkOf
  <2>2. g.parked[a].login = l BY <2>1
  <2>3. Owner[l] = a BY <1>o DEF MoveOwned
  <2>4. ASSUME NEW r \in g.aside, r \notin saved.aside PROVE AsideOwned(r)
    BY <1>1, <1>b, <1>o, <2>1, <2>4, ParkIsOwned DEF Data
  <2>5. \A b \in Accounts : g.parked[b] = saved.parked[b] \/ g.parked[b] = None \/ Owner[g.parked[b].login] = b
    BY <2>1, <2>2, <2>3
  <2>6. RecordOwned(g) BY <1>o, <2>1, <2>4, <2>5, RecordMore
  <2> QED BY <2>1, <2>6
<1>2. CASE g = AddAside(saved, n, a, l)
  <2>1. /\ g.parked = saved.parked /\ g.discarded = saved.discarded
        /\ \A r \in g.aside : r \in saved.aside \/ r = [name |-> n, account |-> a, login |-> l]
    BY <1>2, <1>b, <1>s, AddAsideOf
  <2>2. ASSUME NEW r \in g.aside, r \notin saved.aside PROVE AsideOwned(r)
    BY <1>o, <2>1, <2>2, MoveIsOwned
  <2>3. g \in Records BY <1>2, <1>b, <1>s, RecordsKept
  <2>4. RecordOwned(g) BY <1>o, <2>1, <2>2, RecordMore
  <2> QED BY <2>3, <2>4
<1> QED BY <1>1, <1>2

\* A leave committed: nobody is in use, and what left is filed under whose it is.
LEMMA CommitLeaveOwned ==
  ASSUME Inv, Owned, CommitLeave
  PROVE  Owned'
<1>i. TypeOK /\ Data /\ OwnData /\ EnrollOwned BY DEF Inv, Owned, OwnRun
<1>p. pc = "commitLeave" BY DEF CommitLeave
<1>c. /\ Moving # NoMove /\ Moving.half = "leave" /\ Whole(Moving.park, Moving.who, Moving.login)
  BY <1>p DEF Inv, RunInv, Committing
<1>n. NoLogin BY <1>p DEF Owned, OwnRun, CommitOwned
<1>t. /\ Moving \in Moves /\ Moving.park \in Names /\ Moving.who \in Accounts
      /\ Moving.login \in Sessions
  BY <1>i, <1>c, MoveTyped
<1> DEFINE arrives == pc' = "record" /\ run' = [run EXCEPT !.half = "arrive", !.name = None, !.on = "forward"]
           kept == IF Moving.who \in saved.enrolled THEN Park(saved, Moving.who, Moving.park, Moving.login)
                   ELSE AddAside(saved, Moving.park, Moving.who, Moving.login)
           s == [Settled(Nobody(kept), Moving) EXCEPT !.awaiting = IF Moving.awaits THEN Moving.who ELSE @]
           then == IF run.on # "settle" /\ run.op = "switch" THEN arrives ELSE Continues
<1>0. Commits(s, TRUE, then) BY DEF CommitLeave
<1>u. UNCHANGED <<root, issued, ended>> BY <1>0 DEF Commits, app
<1>1. CASE UNCHANGED <<saved, ran>> /\ End /\ (ForgetsLeft \/ UNCHANGED folders)
  BY <1>1, <1>u, CommitFailsOwned
<1>2. CASE saved' = s /\ then /\ ran' = FALSE /\ ForgetsLeft
  <2>k. PICK g : g = kept OBVIOUS
  <2>1. RecordOwned(g) /\ g \in Records
    <3>1. folders[Moving.park].has[Jar] = Moving.login BY <1>c DEF Whole
    <3>3. saved.parked[Moving.who] # None => ~MoveHolds(saved, saved.parked[Moving.who].name)
      <4> SUFFICES ASSUME saved.parked[Moving.who] # None
                   PROVE  ~MoveHolds(saved, saved.parked[Moving.who].name) OBVIOUS
      <4> PICK n : n = saved.parked[Moving.who].name OBVIOUS
      <4>1. IsPark(saved, Moving.who, n) /\ n \in Names BY <1>t, <1>i DEF IsPark, TypeOK, Records
      <4> QED BY <4>1, <1>c, <1>t, <1>i DEF Data, Apart, Moving
    <3> QED BY <1>c, <1>i, <2>k, <3>1, <3>3, ParksOwned
  <2>q. PICK q : q = Nobody(g) OBVIOUS
  <2>3. /\ q \in Records /\ q.parked = g.parked /\ q.aside = g.aside /\ q.discarded = g.discarded
    BY <2>1, <2>q, NobodyOf
  <2>4. q.inUse = [who |-> None, login |-> None] BY <2>1, <2>q DEF Nobody, Identified, Records
  <2>5. RecordOwned(q) BY <2>1, <2>3 DEF RecordOwned
  <2>x. PICK x : x = IF Moving.awaits THEN Moving.who ELSE Settled(q, Moving).awaiting OBVIOUS
  <2>6. saved' = [Settled(q, Moving) EXCEPT !.awaiting = x] BY <1>2, <2>k, <2>q, <2>x
  <2>7. x \in Accounts \cup {None}
    <3>1. Settled(q, Moving) \in Records BY <2>3, <1>i, <1>t, SettledOf
    <3> QED BY <3>1, <2>x, <1>t DEF Records
  <2>8. saved' \in Records /\ RecordOwned(saved') /\ saved'.moving = NoMove /\ saved'.inUse = q.inUse
    BY <1>c, <1>i, <2>3, <2>5, <2>6, <2>7, SettledOwned DEF OwnData
  <2>9. \A n \in Names : Alike(n) BY <1>2, <1>i, ForgetsOf
  <2>u. UseIs(saved'.inUse, ran')
    <3> PICK use : use = saved'.inUse OBVIOUS
    <3>1. use.who = None /\ use.login = None BY <2>4, <2>8
    <3> QED BY <3>1, NobodyIs
  <2>10. OwnData' BY <1>i, <1>u, <2>8, <2>9, <2>u, CommitOwns
  <2>11. CASE Continues
    <3>1. OwnRun' BY <1>i, <1>u, <2>11, ContinuesOwned
    <3> QED BY <2>10, <3>1 DEF Owned
  <2>12. CASE arrives
    <3>1. pc' = "record" /\ run'.half = "arrive" /\ run'.on = "forward"
      BY <2>12, <1>i DEF TypeOK, Runs
    <3>2. NoLogin' BY <1>n, <1>u DEF NoLogin
    <3>3. ReserveOwned' BY <3>1, <3>2 DEF ReserveOwned
    <3>4. EnrollOwned' /\ BuildOwned' /\ CommitOwned' BY <3>1 DEF EnrollOwned, BuildOwned, CommitOwned
    <3>5. RowOwned' BY <3>1 DEF RowOwned, Doing, Fallible
    <3> QED BY <2>10, <3>3, <3>4, <3>5 DEF Owned, OwnRun
  <2> HIDE DEF arrives, s, kept
  <2> QED BY <1>2, <2>11, <2>12
<1> HIDE DEF s, then, arrives, kept
<1> QED BY <1>0, <1>1, <1>2 DEF Commits

-----------------------------------------------------------------------------
(* An arrive committed or a move undone, of its login. *)

\* The park of a move kept aside or discarded.
LEMMA LeavesOwned ==
  ASSUME TypeOK, Data, OwnData, Moving # NoMove, NEW g,
         g = KeepAside(saved, Moving.park, Moving.who, None) \/ g = Discard(saved, Moving.park)
  PROVE  RecordOwned(g) /\ g \in Records /\ g.inUse = saved.inUse
<1> PICK a, n : a = Moving.who /\ n = Moving.park OBVIOUS
<1>b. a \in Accounts /\ n \in Names BY MoveTyped
<1>s. saved \in Records BY DEF TypeOK
<1>o. RecordOwned(saved) /\ MoveOwned /\ MovePark BY DEF OwnData, Data
<1>1. CASE g = KeepAside(saved, n, a, None)
  <2>1. /\ \A b \in Accounts : g.parked[b] = saved.parked[b] \/ g.parked[b] = None
        /\ g.discarded = saved.discarded /\ g.inUse = saved.inUse
        /\ \A r \in g.aside : r \in saved.aside \/ r = [name |-> n, account |-> a, login |-> None]
    <3> PICK l : l = None OBVIOUS
    <3>1. l \in Sessions \cup {None} /\ a \in Accounts \cup {None} /\ g = KeepAside(saved, n, a, l)
      BY <1>1, <1>b
    <3>2. /\ \A b \in Accounts : g.parked[b] = IF IsPark(saved, b, n) THEN None ELSE saved.parked[b]
          /\ g.discarded = saved.discarded /\ g.inUse = saved.inUse
          /\ \A r \in g.aside : r \in saved.aside \/ r = [name |-> n, account |-> a, login |-> l]
      BY <3>1, <1>b, <1>s, KeepAsideOf
    <3> QED BY <3>2
  <2>2. ASSUME NEW r \in g.aside, r \notin saved.aside PROVE AsideOwned(r)
    <3>1. r.name = n /\ r.account = a /\ r.login = None BY <2>1, <2>2
    <3>2. folders[n].has[Jar] \in Sessions => Owner[folders[n].has[Jar]] = a
      BY <1>o, SessionsApart DEF MovePark, MoveOwned
    <3> QED BY <3>1, <3>2 DEF AsideOwned
  <2>3. g \in Records BY <1>1, <1>b, <1>s, RecordsKept
  <2>4. RecordOwned(g) BY <1>o, <2>1, <2>2, RecordMore
  <2> QED BY <2>1, <2>3, <2>4
<1>2. CASE g = Discard(saved, n)
  <2>1. /\ \A b \in Accounts : g.parked[b] = IF IsPark(saved, b, n) THEN None ELSE saved.parked[b]
        /\ g.aside = saved.aside /\ g.inUse = saved.inUse
        /\ \A d \in g.discarded : d \in saved.discarded \/ d = [name |-> n, forgotten |-> FALSE]
    BY <1>2, <1>b, <1>s, DiscardOf
  <2>2. \A b \in Accounts : g.parked[b] = saved.parked[b] \/ g.parked[b] = None BY <2>1
  <2>3. \A d \in g.discarded : d \in saved.discarded \/ d.forgotten = FALSE BY <2>1
  <2>4. g \in Records BY <1>2, <1>b, <1>s, RecordsKept
  <2>5. \A r \in g.aside : r \in saved.aside BY <2>1
  <2>6. RecordOwned(g) BY <1>o, <2>2, <2>3, <2>5, RecordMore
  <2> QED BY <2>1, <2>4, <2>6
<1> QED BY <1>1, <1>2

\* What follows a commit that ends a move is of no login.
LEMMA PurgeNextOwned ==
  ASSUME EnrollOwned, Goes("purge"), UNCHANGED root
  PROVE  OwnRun'
<1>1. EnrollOwned' BY EnrollStays DEF Goes
<1>2. pc' \in Plain BY DEF Goes, Plain
<1> QED BY <1>1, <1>2, PlainOwned

\* An arrive committed: the account is in use whose login the app's folder holds.
LEMMA CommitArriveOwned ==
  ASSUME Inv, Owned, CommitArrive
  PROVE  Owned'
<1>i. TypeOK /\ Data /\ OwnData /\ EnrollOwned /\ MoveOwned BY DEF Inv, Owned, OwnRun, OwnData
<1>p. pc = "commitArrive" BY DEF CommitArrive
<1>c. Moving # NoMove BY <1>p DEF Inv, RunInv, Committing
<1>n. MovesLogin BY <1>p DEF Owned, OwnRun, CommitOwned
<1>t. Moving \in Moves /\ Moving.who \in Accounts /\ Moving.login \in Sessions
  BY <1>i, <1>c, MoveTyped
<1> DEFINE gone == IF KeysAre(Moving) = "named" THEN KeepAside(saved, Moving.park, Moving.who, None)
                   ELSE Discard(saved, Moving.park)
           who == IF Moving.who \in saved.enrolled THEN Moving.who ELSE None
           s == [Settled(Identified(gone, who, Moving.login), Moving) EXCEPT !.awaiting = None]
<1>0. Commits(s, FALSE, Goes("purge")) BY DEF CommitArrive
<1>u. UNCHANGED <<root, issued, ended>> BY <1>0 DEF Commits, app
<1>1. CASE UNCHANGED <<saved, ran>> /\ End /\ UNCHANGED folders
  BY <1>1, <1>u, CommitFailsOwned
<1>2. CASE saved' = s /\ Goes("purge") /\ ran' = FALSE /\ UNCHANGED folders
  <2>k. PICK g, a, l : g = gone /\ a = who /\ l = Moving.login OBVIOUS
  <2>1. RecordOwned(g) /\ g \in Records BY <1>c, <1>i, <2>k, LeavesOwned
  <2>2. a \in {Moving.who, None} /\ l \in Sessions BY <2>k, <1>t
  <2>b. a \in Accounts \cup {None} /\ l \in Sessions \cup {None} BY <2>2, <1>t
  <2>q. PICK q : q = Identified(g, a, l) OBVIOUS
  <2>3. /\ q \in Records /\ q.parked = g.parked /\ q.aside = g.aside /\ q.discarded = g.discarded
    BY <2>1, <2>b, <2>q, IdentifiedOf
  <2>4. q.inUse = [who |-> a, login |-> l] BY <2>1, <2>q DEF Identified, Records
  <2>5. RecordOwned(q) BY <2>1, <2>3 DEF RecordOwned
  <2>6. saved' = [Settled(q, Moving) EXCEPT !.awaiting = None] BY <1>2, <2>k, <2>q
  <2>8. saved' \in Records /\ RecordOwned(saved') /\ saved'.moving = NoMove /\ saved'.inUse = q.inUse
    BY <1>c, <1>i, <2>3, <2>5, <2>6, SettledOwned
  <2>9. \A n \in Names : Alike(n) BY <1>2, <1>i, ForgetsOf
  <2>u. UseIs(saved'.inUse, ran')
    <3> PICK use : use = saved'.inUse OBVIOUS
    <3>1. use.who \in {Moving.who, None} /\ use.login = Moving.login BY <2>2, <2>4, <2>8, <2>k
    <3>2. root.has[Jar] = Moving.login /\ NamedBy(root.keys) = Moving.who BY <1>n DEF MovesLogin
    <3>3. Moving.login \in issued /\ Owner[Moving.login] = Moving.who BY <1>c, <1>i DEF MoveOwned
    <3>4. Moving.login # None BY <1>t, SessionsApart
    <3> QED BY <3>1, <3>2, <3>3, <3>4 DEF UseIs
  <2>10. OwnData' BY <1>i, <1>u, <2>8, <2>9, <2>u, CommitOwns
  <2>11. OwnRun' BY <1>2, <1>i, <1>u, PurgeNextOwned
  <2> QED BY <2>10, <2>11 DEF Owned
<1> HIDE DEF s, gone, who
<1> QED BY <1>0, <1>1, <1>2 DEF Commits

\* A move undone: an arrive leaves nobody recorded, a leave whom it found.
LEMMA UndoneOwned ==
  ASSUME Inv, Owned, Undone
  PROVE  Owned'
<1>i. TypeOK /\ Data /\ OwnData /\ EnrollOwned /\ MoveOwned BY DEF Inv, Owned, OwnRun, OwnData
<1>p. pc = "undone" BY DEF Undone
<1>c. Moving # NoMove BY <1>p DEF Inv, RunInv, Committing
<1>n. Moving.half = "leave" => MovesLogin BY <1>p DEF Owned, OwnRun, CommitOwned
<1>t. Moving \in Moves /\ Moving.who \in Accounts /\ Moving.login \in Sessions
  BY <1>i, <1>c, MoveTyped
<1>s. saved \in Records /\ RecordOwned(saved) BY <1>i DEF TypeOK, OwnData
<1> DEFINE s == CASE Moving.half = "arrive" -> Nobody(saved)
             [] Moving.half = "leave" /\ KeysAre(Moving) = "named" /\ folders[Moving.park].made ->
                  KeepAside(saved, Moving.park, Moving.who, None)
             [] OTHER -> Discard(saved, Moving.park)
<1>u. UNCHANGED <<root, folders, issued, ended>> BY DEF Undone, app
<1>1. CASE UNCHANGED <<saved, ran>> /\ End
  BY <1>1, <1>u, CommitFailsOwned
<1>2. CASE saved' = Settled(s, Moving) /\ Goes("purge") /\ ran' = (ran /\ Moving.half # "arrive")
  <2>k. PICK q : q = s OBVIOUS
  <2>1. RecordOwned(q) /\ q \in Records /\ UseIs(q.inUse, ran')
    <3>1. CASE Moving.half = "arrive"
      <4>1. q = Nobody(saved) BY <2>k, <3>1
      <4>2. /\ q \in Records /\ q.parked = saved.parked /\ q.aside = saved.aside
            /\ q.discarded = saved.discarded
        BY <4>1, <1>s, NobodyOf
      <4>3. q.inUse = [who |-> None, login |-> None] BY <4>1, <1>s DEF Nobody, Identified, Records
      <4>4. RecordOwned(q) BY <1>s, <4>2 DEF RecordOwned
      <4>5. UseIs(q.inUse, ran')
        <5> PICK use : use = q.inUse OBVIOUS
        <5>1. use.who = None /\ use.login = None BY <4>3
        <5> QED BY <5>1, NobodyIs
      <4> QED BY <4>2, <4>4, <4>5
    <3>2. CASE Moving.half = "leave"
      <4>1. \/ q = KeepAside(saved, Moving.park, Moving.who, None)
            \/ q = Discard(saved, Moving.park)
        BY <2>k, <3>2
      <4>2. RecordOwned(q) /\ q \in Records /\ q.inUse = saved.inUse BY <4>1, <1>c, <1>i, LeavesOwned
      <4>3. root.has[Jar] = Moving.login /\ NamedBy(root.keys) = Moving.who
        BY <1>n, <3>2 DEF MovesLogin
      <4>4. Moving.login \in issued /\ Owner[Moving.login] = Moving.who BY <1>c, <1>i DEF MoveOwned
      <4>5. ~ran => saved.inUse.who = Moving.who /\ saved.inUse.login = Moving.login
        BY <1>c, <1>i, <3>2 DEF MoveOwned
      <4>6. ~ran' => ~ran BY <1>2, <3>2
      <4>7. saved.inUse.login \in issued \cup {None} /\ (saved.inUse.who # None => saved.inUse.login # None)
        BY <1>i DEF OwnData, UseOwned
      <4> QED BY <4>2, <4>3, <4>4, <4>5, <4>6, <4>7 DEF UseIs
    <3>3. Moving.half \in {"leave", "arrive"} BY <1>t DEF Moves
    <3> QED BY <3>1, <3>2, <3>3
  <2>4. saved' = Settled(q, Moving) BY <1>2, <2>k
  <2>8. saved' \in Records /\ RecordOwned(saved') /\ saved'.moving = NoMove /\ saved'.inUse = q.inUse
    BY <1>c, <1>i, <2>1, <2>4, SettledOwned
  <2>9. \A n \in Names : Alike(n) BY <1>u, <1>i, ForgetsOf
  <2>u. UseIs(saved'.inUse, ran') BY <2>1, <2>8
  <2>10. OwnData' BY <1>i, <1>u, <2>8, <2>9, <2>u, CommitOwns
  <2>11. OwnRun' BY <1>2, <1>i, <1>u, PurgeNextOwned
  <2> QED BY <2>10, <2>11 DEF Owned
<1>3. \/ saved' = Settled(s, Moving) /\ Goes("purge") /\ ran' = (ran /\ Moving.half # "arrive")
      \/ UNCHANGED <<saved, ran>> /\ End
  BY Zenon DEF Undone
<1> HIDE DEF s
<1> QED BY <1>1, <1>2, <1>3, Zenon

-----------------------------------------------------------------------------
(* A start committed, or a move given up, of nobody. *)

\* A start committed: nobody is in use, and what is set aside is nobody's.
LEMMA StartedOwned ==
  ASSUME Inv, Owned, Started
  PROVE  Owned'
<1>i. TypeOK /\ OwnData BY DEF Inv, Owned
<1>p. pc = "started" BY DEF Started
<1>c. Moving = NoMove /\ run.name \in Names
  BY <1>p DEF Inv, RunInv, RowInv, Committing, OfStart
<1>s. saved \in Records /\ RecordOwned(saved) BY <1>i DEF TypeOK, OwnData
<1>q. PICK q : q = Nobody(saved) OBVIOUS
<1>n. PICK n, none : n = run.name /\ none = None OBVIOUS
<1>t. PICK t : t = AddAside(q, n, none, none) OBVIOUS
<1>0. Commits(t, FALSE, End) BY <1>q, <1>n, <1>t DEF Started
<1>u. UNCHANGED <<root, issued, ended>> BY <1>0 DEF Commits, app
<1>1. CASE UNCHANGED <<saved, ran>> /\ End /\ UNCHANGED folders
  BY <1>1, <1>u, CommitFailsOwned
<1>2. CASE saved' = t /\ End /\ ran' = FALSE /\ UNCHANGED folders
  <2>1. /\ q \in Records /\ q.parked = saved.parked /\ q.aside = saved.aside
        /\ q.discarded = saved.discarded /\ q.moving = saved.moving
    BY <1>q, <1>s, NobodyOf
  <2>2. q.inUse = [who |-> None, login |-> None] BY <1>q, <1>s DEF Nobody, Identified, Records
  <2>3. RecordOwned(q) BY <1>s, <2>1 DEF RecordOwned
  <2>b. n \in Names /\ none \in Accounts \cup {None} /\ none \in Sessions \cup {None} BY <1>n, <1>c
  <2>4. /\ t.parked = q.parked /\ t.discarded = q.discarded /\ t.moving = q.moving /\ t.inUse = q.inUse
        /\ \A r \in t.aside : r \in q.aside \/ r = [name |-> n, account |-> none, login |-> none]
    BY <2>1, <2>b, <1>t, AddAsideOf
  <2>5. t \in Records BY <2>1, <2>b, <1>t, RecordsKept
  <2>6. ASSUME NEW r \in t.aside, r \notin q.aside PROVE AsideOwned(r)
    <3>1. r.account = None /\ r.login = None BY <2>4, <2>6, <1>n
    <3> QED BY <3>1 DEF AsideOwned
  <2>7. RecordOwned(t) BY <2>3, <2>4, <2>6, RecordMore
  <2>8. saved' \in Records /\ RecordOwned(saved') /\ saved'.moving = NoMove
    BY <1>2, <1>c, <2>1, <2>4, <2>5, <2>7 DEF Moving
  <2>9. \A o \in Names : Alike(o) BY <1>2, <1>i, ForgetsOf
  <2>u. UseIs(saved'.inUse, ran')
    <3> PICK use : use = saved'.inUse OBVIOUS
    <3>1. use.who = None /\ use.login = None BY <1>2, <2>2, <2>4
    <3> QED BY <3>1, NobodyIs
  <2>10. OwnData' BY <1>i, <1>u, <2>8, <2>9, <2>u, CommitOwns
  <2> QED BY <1>2, <2>10, EndOwned DEF Owned
<1> QED BY <1>0, <1>1, <1>2 DEF Commits

\* What is made of a park given up.
LEMMA GivenUpOwns ==
  ASSUME TypeOK, Data, OwnData, Moving # NoMove, NEW g, g = GivenUpPark(Moving)
  PROVE  RecordOwned(g) /\ g \in Records
<1> PICK a, n, l, jar : a = Moving.who /\ n = Moving.park /\ l = Moving.login
                        /\ jar = folders[Moving.park].has[Jar] OBVIOUS
<1>b. a \in Accounts /\ n \in Names /\ l \in Sessions BY MoveTyped
<1>s. saved \in Records BY DEF TypeOK
<1>o. RecordOwned(saved) /\ MoveOwned /\ MovePark BY DEF OwnData, Data
<1>1. CASE jar = l /\ a \in saved.enrolled /\ saved.parked[a] = None
  <2>1. g = Park(saved, a, n, l) BY <1>1 DEF GivenUpPark
  <2> QED BY <1>1, <2>1, ParksOwned
<1>2. CASE jar = l /\ a \in saved.enrolled /\ saved.parked[a] # None /\ saved.parked[a].name = n
  <2>1. g = saved BY <1>2 DEF GivenUpPark
  <2> QED BY <2>1, <1>o, <1>s
<1>3. CASE jar = l /\ ~(a \in saved.enrolled /\ saved.parked[a] = None)
              /\ ~(a \in saved.enrolled /\ saved.parked[a].name = n)
  <2>1. g = KeepAside(saved, n, a, l) BY <1>3 DEF GivenUpPark
  <2>2. a \in Accounts \cup {None} /\ l \in Sessions \cup {None} BY <1>b
  <2>3. /\ \A b \in Accounts : g.parked[b] = IF IsPark(saved, b, n) THEN None ELSE saved.parked[b]
        /\ g.discarded = saved.discarded
        /\ \A r \in g.aside : r \in saved.aside \/ r = [name |-> n, account |-> a, login |-> l]
    BY <2>1, <2>2, <1>b, <1>s, KeepAsideOf
  <2>4. \A b \in Accounts : g.parked[b] = saved.parked[b] \/ g.parked[b] = None BY <2>3
  <2>5. ASSUME NEW r \in g.aside, r \notin saved.aside PROVE AsideOwned(r)
    BY <1>o, <1>3, <2>3, <2>5, MoveIsOwned
  <2>6. g \in Records BY <2>1, <2>2, <1>b, <1>s, RecordsKept
  <2>7. RecordOwned(g) BY <1>o, <2>3, <2>4, <2>5, RecordMore
  <2> QED BY <2>6, <2>7
<1>4. CASE jar # l
  <2>1. jar = None BY <1>4, <1>o DEF MovePark
  <2>2. \/ g = KeepAside(saved, Moving.park, Moving.who, None)
        \/ g = Discard(saved, Moving.park)
    BY <1>4, <2>1 DEF GivenUpPark
  <2> QED BY <2>2, LeavesOwned
<1> QED BY <1>1, <1>2, <1>3, <1>4

\* A move given up: nobody is recorded as in use.
LEMMA GivenUpOwned ==
  ASSUME Inv, Owned, GivenUp
  PROVE  Owned'
<1>i. TypeOK /\ Data /\ OwnData /\ EnrollOwned /\ MoveOwned BY DEF Inv, Owned, OwnRun, OwnData
<1>p. pc = "givenUp" BY DEF GivenUp
<1>c. Moving # NoMove BY <1>p DEF Inv, RunInv, Committing
<1>g. PICK g : g = GivenUpPark(Moving) OBVIOUS
<1>q. PICK q : q = Nobody(g) OBVIOUS
<1>t. PICK t : t = [Settled(q, Moving) EXCEPT !.awaiting = None] OBVIOUS
<1>0. Commits(t, FALSE, Goes("purge")) BY <1>g, <1>q, <1>t DEF GivenUp
<1>u. UNCHANGED <<root, issued, ended>> BY <1>0 DEF Commits, app
<1>1. CASE UNCHANGED <<saved, ran>> /\ End /\ UNCHANGED folders
  BY <1>1, <1>u, CommitFailsOwned
<1>2. CASE saved' = t /\ Goes("purge") /\ ran' = FALSE /\ UNCHANGED folders
  <2>1. RecordOwned(g) /\ g \in Records BY <1>i, <1>c, <1>g, GivenUpOwns
  <2>2. /\ q \in Records /\ q.parked = g.parked /\ q.aside = g.aside /\ q.discarded = g.discarded
    BY <2>1, <1>q, NobodyOf
  <2>3. q.inUse = [who |-> None, login |-> None] BY <1>q, <2>1 DEF Nobody, Identified, Records
  <2>4. RecordOwned(q) BY <2>1, <2>2 DEF RecordOwned
  <2>5. saved' \in Records /\ RecordOwned(saved') /\ saved'.moving = NoMove /\ saved'.inUse = q.inUse
    BY <1>2, <1>t, <1>c, <1>i, <2>2, <2>4, SettledOwned
  <2>6. \A n \in Names : Alike(n) BY <1>2, <1>i, ForgetsOf
  <2>7. UseIs(saved'.inUse, ran')
    <3> PICK use : use = saved'.inUse OBVIOUS
    <3>1. use.who = None /\ use.login = None BY <2>3, <2>5
    <3> QED BY <3>1, NobodyIs
  <2>8. OwnData' BY <1>i, <1>u, <2>5, <2>6, <2>7, CommitOwns
  <2>9. OwnRun' BY <1>2, <1>i, <1>u, PurgeNextOwned
  <2> QED BY <2>8, <2>9 DEF Owned
<1> QED BY <1>0, <1>1, <1>2 DEF Commits

\* Parks superseded are set aside as the account's they were.
LEMMA SupersededOwned ==
  ASSUME TypeOK, Data, OwnData, Moving = NoMove, NEW a \in Accounts, NEW gone \in SUBSET Accounts,
         NEW s, s.parked = saved.parked, s.aside = saved.aside, s.discarded = saved.discarded, s \in Records,
         \A b \in gone : s.parked[b] # None,
         NEW t, t = Superseding(s, a, gone)
  PROVE  RecordOwned(t)
<1> PICK p : p = [b \in Accounts |-> IF b \in gone THEN None ELSE s.parked[b]] OBVIOUS
<1> PICK q : q = s.aside \cup {[name |-> s.parked[b].name, account |-> b, login |-> s.parked[b].login] : b \in gone}
  OBVIOUS
<1>1. t.parked = p /\ t.aside = q /\ t.discarded = saved.discarded BY DEF Superseding, Records
<1>o. RecordOwned(saved) /\ ParksWhole BY DEF OwnData, Data
<1>2. ASSUME NEW r \in t.aside, r \notin saved.aside PROVE AsideOwned(r)
  <2>1. PICK b \in gone : r = [name |-> saved.parked[b].name, account |-> b, login |-> saved.parked[b].login]
    BY <1>1, <1>2
  <2>2. saved.parked[b] # None /\ ~MoveHolds(saved, saved.parked[b].name) /\ b \in Accounts
    BY DEF MoveHolds, Moving
  <2> QED BY <1>o, <2>1, <2>2, ParkIsOwned
<1>3. \A b \in Accounts : t.parked[b] = saved.parked[b] \/ t.parked[b] = None BY <1>1
<1> QED BY <1>1, <1>2, <1>3, <1>o, RecordMore

-----------------------------------------------------------------------------
(* An account enrolled, of the login in use. *)

\* The login the app holds, filed: the account is in use whose it is.
LEMMA EnrollIsOwned ==
  ASSUME Inv, Owned, Enroll
  PROVE  Owned'
<1>i. TypeOK /\ Data /\ OwnData BY DEF Inv, Owned
<1>p. pc = "enrol" BY DEF Enroll
<1>c. /\ Moving = NoMove /\ run.who \in Accounts /\ run.session \in Sessions
      /\ run.on = "giveUp" /\ run.op = "enroll"
  BY <1>p DEF Inv, RunInv, Ops
<1>r. /\ root.has[Jar] = run.session /\ NamedBy(root.keys) = run.who
      /\ Owner[run.session] = run.who
  BY <1>c DEF Owned, OwnRun, EnrollOwned
<1>s. saved \in Records BY <1>i DEF TypeOK
<1>a. PICK a : a = run.who OBVIOUS
<1>g. PICK added : added = [saved EXCEPT !.enrolled = @ \cup {a}] OBVIOUS
<1>d. PICK gone : gone = {b \in Accounts : /\ added.parked[b] # None
                                           /\ \/ added.parked[b].name = run.also
                                              \/ b = a /\ added.parked[b].login # run.session} OBVIOUS
<1>e. PICK u : u = [added EXCEPT
        !.parked = [b \in Accounts |-> IF b \in gone THEN None ELSE added.parked[b]],
        !.aside = @ \cup {[name |-> added.parked[b].name, account |-> b,
                           login |-> added.parked[b].login] : b \in gone}] OBVIOUS
<1>t. PICK t : t = [Identified(u, a, run.session) EXCEPT !.awaiting = None] OBVIOUS
<1>0. Commits(t, TRUE, End)
  <2> DEFINE Sup(r) == {b \in Accounts : /\ r.parked[b] # None
                                         /\ \/ r.parked[b].name = run.also
                                            \/ b = run.who /\ r.parked[b].login # run.session}
             add == [saved EXCEPT !.enrolled = @ \cup {run.who}]
             Put(r, g) == [r EXCEPT
               !.parked = [b \in Accounts |-> IF b \in g THEN None ELSE r.parked[b]],
               !.aside = @ \cup {[name |-> r.parked[b].name, account |-> b,
                                  login |-> r.parked[b].login] : b \in g}]
             put == Put(add, Sup(add))
             all == [Identified(put, run.who, run.session) EXCEPT !.awaiting = None]
  <2>1. Commits(all, TRUE, End) BY DEF Enroll
  <2>2. add = added BY <1>a, <1>g
  <2>3. Sup(add) = gone BY <2>2, <1>a, <1>d
  <2>4. put = u
    <3>1. u = Put(added, gone) BY <1>e
    <3> HIDE DEF Put, Sup, add
    <3> QED BY <3>1, <2>2, <2>3
  <2>5. all = t
    <3> HIDE DEF put
    <3> QED BY <2>4, <1>a, <1>t
  <2> HIDE DEF all
  <2> QED BY <2>1, <2>5, Zenon
<1>u. UNCHANGED <<root, issued, ended>> BY <1>0 DEF Commits, app
<1>1. CASE UNCHANGED <<saved, ran>> /\ End /\ (ForgetsLeft \/ UNCHANGED folders)
  BY <1>1, <1>u, CommitFailsOwned
<1>2. CASE saved' = t /\ End /\ ran' = FALSE /\ ForgetsLeft
  <2>0. a \in Accounts BY <1>a, <1>c
  <2>v. /\ added \in Records /\ added.parked = saved.parked /\ added.aside = saved.aside
        /\ added.discarded = saved.discarded /\ added.moving = saved.moving
        /\ added.enrolled = saved.enrolled \cup {a}
    BY <1>g, <1>s, <2>0 DEF Records
  <2>1. gone \in SUBSET Accounts /\ \A b \in gone : added.parked[b] # None BY <1>d
  <2>w. Once(added) /\ added.moving = NoMove
    BY <2>v, <1>i, <1>c, FilesIs DEF Data, Moving
  <2>x. u = Superseding(added, a, gone)
    <3>p. PICK p, r : /\ p = [b \in Accounts |-> IF b \in gone THEN None ELSE added.parked[b]]
                      /\ r = added.aside \cup {[name |-> added.parked[b].name, account |-> b,
                                                login |-> added.parked[b].login] : b \in gone} OBVIOUS
    <3>1. u = [added EXCEPT !.parked = p, !.aside = r] BY <1>e, <3>p
    <3>2. added.enrolled \cup {a} = added.enrolled BY <2>v
    <3>3. [added EXCEPT !.enrolled = added.enrolled \cup {a}, !.parked = p, !.aside = r] = u
      BY <3>1, <3>2, <2>v DEF Records
    <3> QED BY <3>3, <3>p DEF Superseding
  <2>2. u \in Records /\ u.moving = NoMove
    BY <2>0, <2>1, <2>v, <2>w, <2>x, SupersededOf
  <2>3. RecordOwned(u) BY <1>i, <1>c, <2>0, <2>1, <2>v, <2>x, SupersededOwned
  <2>q. PICK q, l : q = Identified(u, a, l) /\ l = run.session OBVIOUS
  <2>4. /\ q \in Records /\ q.parked = u.parked /\ q.aside = u.aside /\ q.discarded = u.discarded
        /\ q.moving = u.moving
    BY <2>0, <2>2, <2>q, <1>c, IdentifiedOf
  <2>5. q.inUse = [who |-> a, login |-> l] BY <2>2, <2>q DEF Identified, Records
  <2>6. t = [q EXCEPT !.awaiting = None] BY <1>t, <2>q
  <2>7. /\ t \in Records /\ t.parked = u.parked /\ t.aside = u.aside /\ t.discarded = u.discarded
        /\ t.moving = u.moving /\ t.inUse = q.inUse
    BY <2>4, <2>6 DEF Records
  <2>8. saved' \in Records /\ saved'.moving = NoMove /\ RecordOwned(saved') /\ saved'.inUse = q.inUse
    BY <1>2, <2>2, <2>3, <2>7 DEF RecordOwned
  <2>9. \A n \in Names : Alike(n) BY <1>2, <1>i, ForgetsOf
  <2>10. UseIs(saved'.inUse, ran')
    <3> PICK use : use = saved'.inUse OBVIOUS
    <3>1. use.who = run.who /\ use.login = run.session BY <1>a, <2>5, <2>8, <2>q
    <3>2. run.session \in issued BY <1>c, <1>r, <1>i DEF OwnData, Kept
    <3>3. run.session # None BY <1>c, SessionsApart
    <3> QED BY <1>r, <3>1, <3>2, <3>3 DEF UseIs
  <2>11. OwnData' BY <1>i, <1>u, <2>8, <2>9, <2>10, CommitOwns
  <2> QED BY <1>2, <2>11, EndOwned DEF Owned
<1> QED BY <1>0, <1>1, <1>2 DEF Commits

\* Each commit.
LEMMA CommitIsOwned ==
  ASSUME Inv, Owned, Commit
  PROVE  Owned'
BY CommitLeaveOwned, CommitArriveOwned, UndoneOwned, StartedOwned, GivenUpOwned, EnrollIsOwned DEF Commit

\* Folders deleted that hold no session, or one that is over: no session is lost.
LEMMA EmptyOwned ==
  ASSUME TypeOK, OwnData, NEW ns \in SUBSET Names, folders' = Emptying(ns),
         \A n \in ns : folders[n].has[Jar] \notin Sessions \ ended,
         UNCHANGED <<root, issued, ended, ran>>,
         saved' \in Records, RecordOwned(saved'), \A r \in saved'.aside : r.name \in ns => r.login = None,
         saved'.moving = saved.moving, saved'.inUse = saved.inUse
  PROVE  OwnData'
<1>0. \A n \in Names : folders'[n] = IF n \in ns THEN NoFolder ELSE folders[n] BY DEF Emptying
<1>n. NoFolder.has[Jar] = None /\ NoFolder.manifest = None /\ None \notin Sessions
  BY Constant, SessionsApart DEF NoFolder, Nothing
<1>1. \A n \in Names : \/ folders'[n].has[Jar] = None /\ folders'[n].manifest = None
                       \/ folders'[n] = folders[n] /\ n \notin ns
  BY <1>0, <1>n
<1>2. NoSessionLost'
  <2> SUFFICES ASSUME NEW x \in issued' \ ended'
               PROVE  root'.has[Jar] = x \/ \E n \in Names : folders'[n].has[Jar] = x
    BY DEF NoSessionLost
  <2>1. root.has[Jar] = x \/ \E n \in Names : folders[n].has[Jar] = x BY DEF OwnData, Kept, NoSessionLost
  <2>2. ASSUME NEW n \in Names, folders[n].has[Jar] = x PROVE folders'[n] = folders[n]
    BY <1>0, <2>2 DEF TypeOK
  <2> QED BY <2>1, <2>2
<1>3. Kept' BY <1>1, <1>2, <1>n DEF OwnData, Kept
<1>4. RecordOwned(saved)'
  <2>1. ASSUME NEW r \in saved'.aside PROVE AsideOwned(r)'
    <3>1. r.name \in Names BY DEF Records
    <3>2. CASE r.name \in ns BY <1>0, <1>n, <3>1, <3>2 DEF AsideOwned
    <3>3. CASE r.name \notin ns
      <4>1. folders'[r.name] = folders[r.name] BY <1>0, <3>1, <3>3
      <4> QED BY <4>1 DEF RecordOwned, AsideOwned
    <3> QED BY <3>2, <3>3
  <2>2. ASSUME NEW d \in saved'.discarded, d.forgotten PROVE folders'[d.name].has[Jar] \notin Sessions \ ended'
    <3>1. d.name \in Names BY DEF Records
    <3> QED BY <1>1, <1>n, <2>2, <3>1 DEF RecordOwned
  <2>3. \A a \in Accounts : saved'.parked[a] # None => Owner[saved'.parked[a].login] = a BY DEF RecordOwned
  <2> QED BY <2>1, <2>2, <2>3 DEF RecordOwned
<1>5. ManifestsOwned' BY <1>1 DEF OwnData, ManifestsOwned
<1>m. Moving' = Moving BY DEF Moving
<1>6. MoveOwned'
  <2>1. CASE Moving = NoMove BY <1>m, <2>1 DEF MoveOwned
  <2>2. CASE Moving # NoMove
    <3>1. Moving.asides \in SUBSET Names BY <2>2, MoveTyped
    <3> QED BY <1>1, <1>n, <1>m, <2>2, <3>1 DEF OwnData, MoveOwned
  <2> QED BY <2>1, <2>2
<1>7. RootOwned' BY <1>m DEF OwnData, RootOwned
<1>8. UseOwned' BY <1>m DEF OwnData, UseOwned
<1> QED BY <1>3, <1>4, <1>5, <1>6, <1>7, <1>8 DEF OwnData

-----------------------------------------------------------------------------
(* What is deleted or forgotten is over. *)

\* The folders listed are deleted: none that holds a session of an account not forgotten.
LEMMA PurgeOwned ==
  ASSUME Inv, Owned, Purge
  PROVE  Owned'
<1>i. TypeOK /\ Data /\ OwnData /\ EnrollOwned BY DEF Inv, Owned, OwnRun
<1>s. saved \in Records /\ Once(saved) /\ RecordOwned(saved) BY <1>i DEF TypeOK, Data, OwnData
<1>u. UNCHANGED <<root, issued, ended, ran>> BY DEF Purge, Still, app
<1>r. PICK ds : ds = Removable OBVIOUS
<1>n. PICK ns : ns = {d.name : d \in ds} OBVIOUS
<1>1. ds \in SUBSET saved.discarded BY <1>r DEF Removable
<1>2. ns \in SUBSET Names BY <1>1, <1>n, <1>s DEF Records
<1>3. \A n \in ns : folders[n].has[Jar] \notin Sessions \ ended
  <2> TAKE n \in ns
  <2>1. PICK d \in ds : d.name = n BY <1>n
  <2>2. d.forgotten \/ \A i \in ItemSet : ~InFolder(d.name, i) BY <1>r DEF Removable
  <2>3. CASE d.forgotten BY <1>1, <1>s, <2>1, <2>3 DEF RecordOwned
  <2>4. CASE \A i \in ItemSet : ~InFolder(d.name, i)
    BY <2>1, <2>4, Constant, SessionsApart DEF InFolder
  <2> QED BY <2>2, <2>3, <2>4
<1>4. \A r \in saved.aside : r.name \notin ns
  <2> TAKE r \in saved.aside
  <2>1. r.name \in Names /\ Aside(saved, r.name) BY <1>s DEF Records, Aside
  <2>2. r.name \in ns => Listed(saved, r.name) BY <1>1, <1>n DEF Listed
  <2> QED BY <2>1, <2>2, <1>s DEF Once
<1>5. OwnData'
  <2>1. CASE folders' = Emptying(ns) /\ saved' = [saved EXCEPT !.discarded = @ \ ds]
    <3>1. /\ saved' \in Records /\ saved'.parked = saved.parked /\ saved'.aside = saved.aside
          /\ saved'.discarded = saved.discarded \ ds
          /\ saved'.moving = saved.moving /\ saved'.inUse = saved.inUse
      BY <2>1, <1>s DEF Records
    <3>2. RecordOwned(saved') BY <1>s, <3>1, RecordMore
    <3> QED BY <1>i, <1>2, <1>3, <1>4, <1>u, <2>1, <3>1, <3>2, EmptyOwned
  <2>2. CASE folders' = Emptying(ns) /\ UNCHANGED saved
    <3>1. RecordOwned(saved') BY <1>s, <2>2
    <3> QED BY <1>i, <1>s, <1>2, <1>3, <1>4, <1>u, <2>2, <3>1, EmptyOwned
  <2>3. CASE UNCHANGED <<folders, saved>> BY <2>3, <1>i, <1>u, SameOwned
  <2> QED BY <2>1, <2>2, <2>3, <1>r, <1>n DEF Purge
<1>6. OwnRun'
  <2>1. End \/ Continues BY DEF Purge
  <2> QED BY <2>1, <1>i, <1>u, EndOwned, ContinuesOwned
<1> QED BY <1>5, <1>6 DEF Owned

\* An account forgotten: the sessions it ends are its own, and all that its folders hold.
LEMMA ForgetOwned ==
  ASSUME Inv, Owned, Forget
  PROVE  Owned'
<1>i. TypeOK /\ Data /\ OwnData /\ Ops BY DEF Inv, RunInv, Owned
<1>p. pc = "forget" BY DEF Forget
<1>c. Moving = NoMove /\ run.who \in Accounts /\ run.op = "forget" BY <1>p, <1>i DEF Ops
<1>s. saved \in Records /\ Once(saved) /\ RecordOwned(saved) /\ ParksWhole
  BY <1>i DEF TypeOK, Data, OwnData
<1>u. UNCHANGED <<root, folders, issued, ran>> BY DEF Forget, app, Refused, disk
<1>1. CASE Refused /\ UNCHANGED ended
  BY <1>1, <1>u, <1>i, EndsOwned DEF Refused, disk
<1>2. CASE /\ saved' = Removed(saved, run.who)
           /\ pc' = "purge" /\ run' = [run EXCEPT !.half = "done"]
           /\ ended' = ended \cup {s \in Sessions : /\ Owner[s] = run.who
                                   /\ \E n \in Names : folders[n].has[Jar] = s}
  <2>a. PICK a, t : a = run.who /\ t = Removed(saved, a) OBVIOUS
  <2>1. Removes(saved, a, t) /\ a \in Accounts
    <3>1. a \in Accounts /\ saved.moving = NoMove BY <1>c, <2>a DEF Moving
    <3> QED BY <1>s, <3>1, <2>a, RemovedOf
  <2>2. saved' = t /\ saved' \in Records /\ saved'.moving = NoMove /\ saved'.inUse = saved.inUse
    BY <1>2, <2>a, <2>1 DEF Removes
  <2>e. ended \subseteq ended' BY <1>2
  <2>o. \A n \in Names : folders[n].has[Jar] \in Sessions /\ Owner[folders[n].has[Jar]] = a =>
          folders[n].has[Jar] \in ended'
    BY <1>2, <2>a
  <2>3. JarsStay /\ LabelsStay BY <1>u, FoldersStay
  <2>4. Kept' BY <1>i, <1>u, <2>3, <2>e, KeptStays DEF OwnData
  <2>5. RecordOwned(saved)'
    <3>1. \A b \in Accounts : t.parked[b] # None => Owner[t.parked[b].login] = b
      BY <1>s, <2>1 DEF Removes, RecordOwned
    <3>2. \A r \in t.aside : AsideOwned(r)' BY <1>s, <1>u, <2>1 DEF Removes, RecordOwned, AsideOwned
    <3>3. ASSUME NEW d \in t.discarded, d.forgotten
          PROVE  folders[d.name].has[Jar] \notin Sessions \ ended'
      <4>n. d.name \in Names BY <2>2 DEF Records
      <4>1. \/ d \in saved.discarded
            \/ IsPark(saved, a, d.name)
            \/ \E r \in saved.aside : r.name = d.name /\ r.account = a
        BY <2>1 DEF Removes
      <4>2. CASE d \in saved.discarded BY <3>3, <4>2, <1>s, <2>e DEF RecordOwned
      <4>3. CASE IsPark(saved, a, d.name)
        <5> PICK p : p = saved.parked[a] OBVIOUS
        <5>1. p # None /\ p.name = d.name BY <4>3 DEF IsPark
        <5>2. ~MoveHolds(saved, p.name) BY <1>c DEF MoveHolds, Moving
        <5>3. CanArrive(a) BY <1>s, <2>1, <5>1, <5>2 DEF ParksWhole
        <5>4. folders[d.name].has[Jar] = p.login BY <5>1, <5>3, CanArriveIs DEF Whole
        <5>5. Owner[p.login] = a BY <1>s, <2>1, <5>1 DEF RecordOwned
        <5> QED BY <2>o, <4>n, <5>4, <5>5
      <4>4. CASE \E r \in saved.aside : r.name = d.name /\ r.account = a
        <5>1. PICK r \in saved.aside : r.name = d.name /\ r.account = a BY <4>4
        <5>2. a # None BY <2>1, NoneApart
        <5>3. folders[d.name].has[Jar] \in Sessions => Owner[folders[d.name].has[Jar]] = a
          BY <1>s, <5>1, <5>2 DEF RecordOwned, AsideOwned
        <5> QED BY <2>o, <4>n, <5>3
      <4> QED BY <4>1, <4>2, <4>3, <4>4
    <3> QED BY <1>u, <2>2, <3>1, <3>2, <3>3 DEF RecordOwned
  <2>6. ManifestsOwned' BY <1>i, <2>3, ManifestsStay DEF OwnData
  <2>7. Moving' = NoMove BY <2>2 DEF Moving
  <2>8. MoveOwned' BY <2>7 DEF MoveOwned
  <2>9. RootOwned' BY <1>i, <1>u, <2>2, <2>7 DEF OwnData, RootOwned
  <2>10. UseOwned' BY <1>i, <1>c, <1>u, <2>2, <2>7 DEF OwnData, UseOwned
  <2>11. OwnData' BY <2>4, <2>5, <2>6, <2>8, <2>9, <2>10 DEF OwnData
  <2>12. run'.on = run.on /\ run'.op = run.op BY <1>2, <1>i DEF TypeOK, Runs
  <2>13. EnrollOwned' BY <1>c, <2>12 DEF EnrollOwned
  <2>14. pc' \in Plain BY <1>2 DEF Plain
  <2> QED BY <2>11, <2>13, <2>14, PlainOwned DEF Owned
<1> QED BY <1>1, <1>2 DEF Forget

-----------------------------------------------------------------------------
(* Names and asides resolved, of whose they say. *)

\* A folder given to an account is of its login.
LEMMA ClaimOwned ==
  ASSUME TypeOK, ManifestsOwned, NEW a \in Accounts, NEW ns \in SUBSET Names, NEW n \in Claims(a, ns),
         NEW p, p = [name |-> n, login |-> folders[n].manifest.login]
  PROVE  Owner[p.login] = a
<1>1. p.login = folders[n].manifest.login OBVIOUS
<1>2. /\ n \in Names /\ folders[n].manifest # None
      /\ folders[n].manifest.account = a /\ folders[n].manifest.login \in Sessions
  BY ClaimsOf
<1> QED BY <1>1, <1>2, SessionsApart DEF ManifestsOwned

\* What resolving makes of a record says whose each folder is.
LEMMA ResolvesOwns ==
  ASSUME TypeOK, ManifestsOwned, NEW s, RecordOwned(s), NEW ns \in SUBSET Names, NEW u, ResolvesTo(s, ns, u)
  PROVE  RecordOwned(u)
<1>1. ASSUME NEW a \in Accounts
      PROVE  u.parked[a] = s.parked[a] \/ u.parked[a] = None \/ Owner[u.parked[a].login] = a
  <2>1. ASSUME NEW n \in Claims(a, ns), u.parked[a] = [name |-> n, login |-> folders[n].manifest.login]
        PROVE  Owner[u.parked[a].login] = a
    BY <2>1, ClaimOwned
  <2> QED BY <2>1 DEF ResolvesTo
<1>2. ASSUME NEW r \in u.aside, r \notin s.aside PROVE AsideOwned(r)
  <2>1. /\ r.name \in ns
        /\ r.account = IF AgreesOn(r.name) THEN folders[r.name].manifest.account ELSE None
        /\ r.login = IF AgreesOn(r.name) THEN folders[r.name].manifest.login ELSE None
    BY <1>2 DEF ResolvesTo
  <2>2. CASE AgreesOn(r.name)
    <3>1. /\ folders[r.name].manifest # None /\ folders[r.name].manifest.login # None
          /\ folders[r.name].has[Jar] = folders[r.name].manifest.login
      BY <2>2 DEF AgreesOn
    <3>2. Owner[folders[r.name].manifest.login] = folders[r.name].manifest.account
      BY <2>1, <3>1 DEF ManifestsOwned
    <3> QED BY <2>1, <2>2, <3>1, <3>2 DEF AsideOwned
  <2>3. CASE ~AgreesOn(r.name) BY <2>1, <2>3 DEF AsideOwned
  <2> QED BY <2>2, <2>3
<1>3. \A d \in u.discarded : d \in s.discarded \/ d.forgotten = FALSE BY DEF ResolvesTo
<1> QED BY <1>1, <1>2, <1>3, RecordMore

\* Giving back does too.
LEMMA GivesOwns ==
  ASSUME TypeOK, ManifestsOwned, NEW s, RecordOwned(s), NEW ns \in SUBSET Names, NEW t, GivesBack(s, ns, t)
  PROVE  RecordOwned(t)
<1>1. ASSUME NEW a \in Accounts
      PROVE  t.parked[a] = s.parked[a] \/ t.parked[a] = None \/ Owner[t.parked[a].login] = a
  <2>1. ASSUME NEW n \in Claims(a, ns), t.parked[a] = [name |-> n, login |-> folders[n].manifest.login]
        PROVE  Owner[t.parked[a].login] = a
    BY <2>1, ClaimOwned
  <2> QED BY <2>1 DEF GivesBack
<1>2. \A r \in t.aside : r \in s.aside BY DEF GivesBack
<1>3. \A d \in t.discarded : d \in s.discarded \/ d.forgotten = FALSE BY DEF GivesBack
<1> QED BY <1>1, <1>2, <1>3, RecordMore

\* The names that nothing names are resolved: what is deleted held nothing.
LEMMA ResolvesOwned ==
  ASSUME Inv, Owned, NEW names \in SUBSET Names, NEW next \in Plain, Resolves(names, next), Still
  PROVE  Owned'
<1>i. TypeOK /\ Data /\ OwnData /\ EnrollOwned /\ ManifestsOwned BY DEF Inv, Owned, OwnRun, OwnData
<1>s. saved \in Records /\ Once(saved) /\ Apart(saved) /\ RecordOwned(saved)
  BY <1>i DEF TypeOK, Data, OwnData
<1>u. UNCHANGED <<root, issued, ended, ran>> BY DEF Still, app
<1> PICK unread \in SUBSET {n \in names : folders[n].made} :
    LET todo    == {n \in names \ unread : ~Named(saved, n)}
        empties == {n \in todo : ~HoldsAnything(n)}
        s       == Resolved(saved, todo)
    IN \/ /\ folders' = Emptying(empties) /\ saved' = s /\ pending' = unread \cap pending
          /\ Goes(next) /\ IF unread = {} THEN Works ELSE Faults
       \/ /\ todo # {} /\ unread = {}
          /\ folders' = Emptying(empties) /\ saved' \in {saved, s} /\ UNCHANGED pending
          /\ End /\ Faults
  BY DEF Resolves
<1>t. PICK todo : todo = {n \in names \ unread : ~Named(saved, n)} OBVIOUS
<1>e. PICK empties : empties = {n \in todo : ~HoldsAnything(n)} OBVIOUS
<1>r. PICK s : s = Resolved(saved, todo) OBVIOUS
<1>0. /\ folders' = Emptying(empties)
      /\ saved' \in {saved, s}
      /\ Goes(next) \/ End
  BY <1>t, <1>e, <1>r
<1>1. todo \in SUBSET Names /\ empties \in SUBSET Names /\ \A n \in todo : ~Named(saved, n)
  BY <1>t, <1>e
<1>2. ResolvesTo(saved, todo, s) BY <1>i, <1>s, <1>1, <1>r, ResolvedOf
<1>3. RecordOwned(s) BY <1>i, <1>s, <1>1, <1>2, ResolvesOwns
<1>4. s \in Records /\ s.moving = saved.moving /\ s.inUse = saved.inUse BY <1>2, Zenon DEF ResolvesTo
<1>5. \A n \in empties : folders[n].has[Jar] \notin Sessions \ ended
  BY <1>e, Constant, SessionsApart DEF HoldsAnything, InFolder
<1>6. \A r \in saved.aside : r.name \notin empties
  <2> TAKE r \in saved.aside
  <2>1. Named(saved, r.name) BY DEF Named
  <2> QED BY <2>1, <1>1, <1>e
<1>7. ASSUME NEW r \in s.aside, r.name \in empties PROVE r.login = None
  <2>1. r \notin saved.aside BY <1>6, <1>7
  <2>2. r.login = IF AgreesOn(r.name) THEN folders[r.name].manifest.login ELSE None
    BY <1>2, <2>1 DEF ResolvesTo
  <2>3. ~AgreesOn(r.name)
    <3>1. folders[r.name].has[Jar] = None BY <1>7, <1>e, Constant DEF HoldsAnything, InFolder
    <3> QED BY <3>1 DEF AgreesOn
  <2> QED BY <2>2, <2>3
<1>8. OwnData'
  <2>1. /\ saved' \in Records /\ RecordOwned(saved') /\ saved'.moving = saved.moving
        /\ saved'.inUse = saved.inUse
    BY <1>0, <1>s, <1>3, <1>4
  <2>2. \A r \in saved'.aside : r.name \in empties => r.login = None BY <1>0, <1>6, <1>7
  <2> QED BY <1>0, <1>i, <1>1, <1>5, <1>u, <2>1, <2>2, EmptyOwned
<1>9. OwnRun'
  <2>1. CASE End BY <2>1, EndOwned
  <2>2. CASE Goes(next)
    <3>1. pc' \in Plain /\ run' = run BY <2>2 DEF Goes
    <3>2. EnrollOwned' BY <3>1, <1>i, <1>u, EnrollStays
    <3> QED BY <3>1, <3>2, PlainOwned
  <2> QED BY <1>0, <2>1, <2>2
<1> QED BY <1>8, <1>9 DEF Owned

\* Names written down, swept.
LEMMA SweepOwned ==
  ASSUME Inv, Owned, Sweep
  PROVE  Owned'
<1>1. pending \subseteq Names BY DEF Inv, TypeOK
<1>n. PICK names : names = {n \in pending : ~Named(saved, n)} OBVIOUS
<1>x. PICK next : next = IF run.op = "repair" /\ Moving = NoMove THEN "reclaim" ELSE "begin" OBVIOUS
<1>2. Resolves(names, next) /\ Still BY <1>n, <1>x DEF Sweep
<1>3. names \in SUBSET Names BY <1>1, <1>n
<1>4. next \in Plain BY <1>x DEF Plain
<1> QED BY <1>2, <1>3, <1>4, ResolvesOwned

\* Every folder nothing names, reclaimed.
LEMMA ReclaimOwned ==
  ASSUME Inv, Owned, Reclaim
  PROVE  Owned'
<1>n. PICK names : names = {n \in Names : (n \in pending \/ folders[n].made) /\ ~Named(saved, n)} OBVIOUS
<1>x. PICK next : next = "giveBack" OBVIOUS
<1>2. Resolves(names, next) /\ Still BY <1>n, <1>x DEF Reclaim
<1>3. names \in SUBSET Names BY <1>n
<1>4. next \in Plain BY <1>x DEF Plain
<1> QED BY <1>2, <1>3, <1>4, ResolvesOwned

\* What is set aside and can be told, given back to whose it is.
LEMMA GiveBackAsidesOwned ==
  ASSUME Inv, Owned, GiveBackAsides
  PROVE  Owned'
<1>i. TypeOK /\ Data /\ OwnData /\ EnrollOwned /\ ManifestsOwned BY DEF Inv, Owned, OwnRun, OwnData
<1>s. saved \in Records /\ Once(saved) /\ Apart(saved) /\ RecordOwned(saved)
  BY <1>i DEF TypeOK, Data, OwnData
<1>u. UNCHANGED <<root, folders, issued, ended, ran>> BY DEF GiveBackAsides, Still, app
<1>1. CASE UNCHANGED saved /\ End BY <1>1, <1>u, <1>i, EndsOwned
<1>2. CASE /\ saved' = GivenBack(saved, {r.name : r \in saved.aside})
           /\ pc' = "purge" /\ run' = [run EXCEPT !.half = "done"]
  <2>n. PICK ns : ns = {r.name : r \in saved.aside} OBVIOUS
  <2>1. ns \in SUBSET Names /\ \A n \in ns : Aside(saved, n) BY <2>n, <1>s DEF Records, Aside
  <2>2. \A n \in ns : ~IsParked(saved, n) /\ ~Listed(saved, n) /\ ~MoveHolds(saved, n)
    BY <2>1, <1>s DEF Once, Apart, MoveHolds
  <2>t. PICK t : t = GivenBack(saved, ns) OBVIOUS
  <2>3. GivesBack(saved, ns, t) BY <2>1, <2>2, <2>t, <1>i, <1>s, GivenBackOf
  <2>4. RecordOwned(t) BY <1>i, <1>s, <2>1, <2>3, GivesOwns
  <2>5. t \in Records /\ t.moving = saved.moving /\ t.inUse = saved.inUse BY <2>3, Zenon DEF GivesBack
  <2>6. saved' = t BY <1>2, <2>n, <2>t
  <2>7. OwnData'
    <3>1. folders' = Emptying({}) BY <1>u, <1>i DEF Emptying, TypeOK
    <3>2. /\ saved' \in Records /\ RecordOwned(saved') /\ saved'.moving = saved.moving
          /\ saved'.inUse = saved.inUse
      BY <2>4, <2>5, <2>6
    <3> QED BY <1>i, <1>u, <3>1, <3>2, EmptyOwned
  <2>8. /\ run'.on = run.on /\ run'.op = run.op /\ run'.who = run.who /\ run'.session = run.session
    BY <1>2, <1>i DEF TypeOK, Runs
  <2>9. EnrollOwned' BY <1>i, <1>u, <2>8, EnrollStays
  <2>10. pc' \in Plain BY <1>2 DEF Plain
  <2> QED BY <2>7, <2>9, <2>10, PlainOwned DEF Owned
<1> QED BY <1>1, <1>2 DEF GiveBackAsides

-----------------------------------------------------------------------------
(* Whose each login is, all through. *)

\* An instance starts with what is in use in the app's folder, and what is parked whole.
LEMMA InitOwned ==
  ASSUME Init
  PROVE  Owned
<1>v. Inv BY InitInv
<1>i. TypeOK /\ ParksWhole BY <1>v DEF Inv, Data
<1>a. PICK a, b : a = Owner[InUse] /\ b = Owner[Parked] OBVIOUS
<1>1. a \in Accounts /\ b \in Accounts /\ a # b /\ InUse \in Sessions /\ Parked \in Sessions /\ InUse # Parked
  BY <1>a, SessionsOwned, StartsWith
<1>2. 1 \in Names BY FolderBounds DEF Names
<1>k. PICK ka, kb : ka = [who |-> a, tok |-> "t1"] /\ kb = [who |-> b, tok |-> "t1"] OBVIOUS
<1>3. ka # None /\ ka.who = a /\ NamedBy(ka) = a
  <2>1. ka \in [who : Accounts \cup {None}, tok : Tokens \cup {Emptied}] BY <1>k, <1>1 DEF Tokens
  <2>2. ka # None /\ ka.who = a BY <2>1, <1>k, NoneApart
  <2> QED BY <2>2 DEF NamedBy
<1>h. PICK ha, hb : /\ ha = [i \in ItemSet |-> IF i = Jar THEN InUse ELSE a]
                    /\ hb = [i \in ItemSet |-> IF i = Jar THEN Parked ELSE b] OBVIOUS
<1>4. ha[Jar] = InUse /\ hb[Jar] = Parked BY <1>h, Constant
<1>m. PICK m : m = [account |-> b, login |-> Parked, items |-> ItemSet, keys |-> kb, left |-> {}] OBVIOUS
<1>f. PICK f : f = [made |-> TRUE, keys |-> {kb}, has |-> hb, manifest |-> m] OBVIOUS
<1>p. PICK p : p = [name |-> 1, login |-> Parked] OBVIOUS
<1>r. PICK parked : parked = [o \in Accounts |-> IF o = b THEN p ELSE None] OBVIOUS
<1>u. PICK use : use = [who |-> a, login |-> InUse] OBVIOUS
<1>0. /\ root = [has |-> ha, keys |-> ka]
      /\ folders = [n \in Names |-> IF n = 1 THEN f ELSE NoFolder]
      /\ saved = [enrolled |-> {a, b}, parked |-> parked, aside |-> {}, discarded |-> {},
                  inUse |-> use, moving |-> NoMove, awaiting |-> None]
      /\ pc = "idle" /\ run = NoRun
      /\ issued = {InUse, Parked} /\ ended = {} /\ ran = FALSE
  BY <1>a, <1>k, <1>h, <1>m, <1>f, <1>p, <1>r, <1>u DEF Init
<1>5. root.has[Jar] = InUse /\ root.keys = ka BY <1>0, <1>4
<1>6. /\ folders[1].has[Jar] = Parked /\ folders[1].manifest = m
      /\ \A n \in Names : n # 1 => folders[n].has[Jar] = None /\ folders[n].manifest = None
  <2>1. NoFolder.has[Jar] = None /\ NoFolder.manifest = None BY Constant DEF NoFolder, Nothing
  <2> QED BY <1>0, <1>2, <1>4, <1>f, <2>1
<1>7. None \notin Sessions BY SessionsApart
<1>8. Kept
  <2>1. NoSessionLost BY <1>0, <1>2, <1>5, <1>6 DEF NoSessionLost
  <2> QED BY <1>0, <1>1, <1>5, <1>6, <1>7, <2>1 DEF Kept
<1>9. RecordOwned(saved)
  <2>1. \A o \in Accounts : saved.parked[o] # None => Owner[saved.parked[o].login] = o
    <3>1. saved.parked = parked BY <1>0
    <3>2. p.login = Parked BY <1>p
    <3> QED BY <3>1, <3>2, <1>r, <1>a
  <2> QED BY <1>0, <2>1 DEF RecordOwned
<1>10. ManifestsOwned
  <2>1. m.login = Parked /\ m.account = b BY <1>m
  <2> QED BY <1>6, <1>a, <2>1 DEF ManifestsOwned
<1>11. Moving = NoMove BY <1>0 DEF Moving
<1>12. MoveOwned BY <1>11 DEF MoveOwned
<1>13. RootOwned BY <1>3, <1>5, <1>a DEF RootOwned
<1>14. UseOwned
  <2>1. saved.inUse.who = a /\ saved.inUse.login = InUse BY <1>0, <1>u
  <2> QED BY <2>1, <1>0, <1>1, <1>3, <1>5, <1>7 DEF UseOwned
<1>15. OwnData BY <1>8, <1>9, <1>10, <1>12, <1>13, <1>14 DEF OwnData
<1>16. run.on = "forward" BY <1>0 DEF NoRun
<1>17. EnrollOwned /\ ReserveOwned /\ BuildOwned /\ CommitOwned
  BY <1>0, <1>16 DEF EnrollOwned, ReserveOwned, BuildOwned, CommitOwned
<1>18. RowOwned BY <1>0 DEF RowOwned, Doing, Fallible
<1> QED BY <1>15, <1>17, <1>18 DEF Owned, OwnRun

\* Nothing changed.
LEMMA StutterOwned ==
  ASSUME Owned, UNCHANGED vars
  PROVE  Owned'
<1>1. UNCHANGED <<root, folders, saved, issued, ended, ran, pc, run>> BY DEF vars, disk, app
<1>2. OwnData'
  BY <1>1 DEF Owned, OwnData, Kept, NoSessionLost, RecordOwned, AsideOwned, ManifestsOwned, MoveOwned, Moving,
              RootOwned, UseOwned, NamedBy
<1>3. OwnRun'
  BY <1>1 DEF Owned, OwnRun, EnrollOwned, ReserveOwned, BuildOwned, RowOwned, CommitOwned, NoLogin,
              MovesLogin, NamedBy, Moving
<1> QED BY <1>2, <1>3 DEF Owned

\* Every step of a run, of the app and of the machine keeps whose each session is.
LEMMA NextOwned ==
  ASSUME Inv, Owned, [Next]_vars
  PROVE  Owned'
<1>i. Inv' BY NextInv
<1>1. CASE \E op \in Commands, who \in Accounts \cup {None} : Start(op, who) BY <1>1, StartOwned
<1>2. CASE Working
  BY <1>i, <1>2, SweepOwned, BeginOwned, SettleOwned, LookAtItOwned, ReserveOwns, RecordIsOwned, WorkStepOwned,
     StepFailsOwned, MidwayOwned, ListLeftOwned, HoldOwned, CommitIsOwned, PurgeOwned, GiveUpOwned,
     ForgetOwned, ReclaimOwned, GiveBackAsidesOwned DEF Working
<1>3. CASE App BY <1>3, AppOwned
<1>4. CASE Crash BY <1>4, CrashOwned
<1>5. CASE UNCHANGED vars BY <1>5, StutterOwned
<1> QED BY <1>1, <1>2, <1>3, <1>4, <1>5 DEF Next

\* Where each session is and whose, all through.
THEOREM OwnedHolds == Spec => [](Inv /\ Owned)
<1>1. Init => Inv /\ Owned BY InitInv, InitOwned
<1>2. (Inv /\ Owned) /\ [Next]_vars => (Inv /\ Owned)' BY NextInv, NextOwned
<1> QED BY <1>1, <1>2, PTL DEF Spec

\* No session is lost: one is where something reads it until it is replaced or forgotten (moves.rs).
THEOREM NoSessionIsLost == Spec => []NoSessionLost
<1>1. Inv /\ Owned => NoSessionLost BY DEF Owned, OwnData, Kept
<1> QED BY <1>1, OwnedHolds, PTL

\* At rest the account recorded as in use is the one the data folder is signed in as (verdict.rs).
THEOREM InUseIsTrue == Spec => []InUseTrue
<1>1. Inv /\ Owned => InUseTrue BY DEF Owned, OwnData, UseOwned, InUseTrue
<1> QED BY <1>1, OwnedHolds, PTL

-----------------------------------------------------------------------------
(* Whose what lies beside each login is. *)

\* What may lie beside an account's login: its own, what the app made, and what is left of one that is over.
Beside(a) == {None, Fresh, a} \cup {Owner[s] : s \in ended}
Unowned == {None, Fresh} \cup {Owner[s] : s \in ended}

\* What lies in the app's folder beside a session is of its account.
RootUnmixed == root.has[Jar] \in Sessions =>
  \A i \in Rest : root.has[i] \in Beside(Owner[root.has[Jar]])

\* What a manifest that names a login lists is of the account it names.
FolderUnmixed(n) ==
  LET f == folders[n]
  IN f.manifest # None /\ f.manifest.login # None =>
       \A i \in Rest : i \in f.manifest.items => f.has[i] \in Beside(f.manifest.account)

\* What a move is of is its account's: in its park, and, with no session there, in the app's folder.
MoveUnmixed == Moving # NoMove => \A i \in Rest : i \in Moving.items =>
  /\ folders[Moving.park].has[i] \in Beside(Moving.who)
  /\ NoLogin /\ folders[Moving.park].has[i] = None => root.has[i] \in Beside(Moving.who)

MixData == RootUnmixed /\ (\A n \in Names : FolderUnmixed(n)) /\ MoveUnmixed

\* What is moved in an arrive meets nothing of another account's.
ArriveUnmixed ==
  /\ pc = "record" /\ run.half = "arrive" /\ run.name = None => \A i \in Rest : root.has[i] \in Unowned
  /\ pc \in {"held", "forgetLeft"} /\ run.row = "arrive" => \A i \in Rest : root.has[i] \in Unowned
  /\ pc = "out" /\ run.row = "arrive" => \A i \in Rest :
       IF i \in run.items THEN folders[run.to].has[i] = None ELSE root.has[i] \in Unowned
  /\ pc \in {"clear", "setAside"} /\ run.row = "arrive" => folders[run.to].has = Nothing
  /\ pc = "in" /\ run.row = "arrive" => /\ run.items \subseteq Moving.items
                                        /\ \A i \in Rest : root.has[i] \in Beside(Moving.who)

\* What is moved into the park of a move is what the move is of.
OutUnmixed ==
  /\ pc \in Built /\ run.row \in {"leave", "leaveOn", "back", "backAside", "keysAside"} =>
       run.items \subseteq Moving.items
  /\ pc = "out" /\ run.row = "back" => root.has[Jar] \in {None, NoSession, Moving.login}

\* What a leave leaves in the app's folder before a switch arrives: nothing that is an account's
\* but what it is still to move.
LeaveUnmixed ==
  /\ pc \in Doing \cup {"settle", "commitLeave"} /\ run.op = "switch" /\ run.half = "leave"
  /\ Moving # NoMove
  => \A i \in Rest : \/ root.has[i] \in Unowned
                     \/ /\ i \in Moving.items /\ folders[Moving.park].has[i] = None
                        /\ pc # "commitLeave"
                        /\ ~(pc = "midway" /\ run.row \in {"leave", "leaveOn"})

MixRun == ArriveUnmixed /\ OutUnmixed /\ LeaveUnmixed

\* The inductive invariant, beside Inv and Owned.
Mix == MixData /\ MixRun

-----------------------------------------------------------------------------
(* What keeps it. *)

\* What a session that is over left may lie anywhere.
LEMMA BesideMore ==
  ASSUME ended \subseteq ended'
  PROVE  /\ Unowned \subseteq Unowned'
         /\ \A a : Beside(a) \subseteq Beside(a)' /\ Unowned \subseteq Beside(a)
<1>1. {Owner[s] : s \in ended} \subseteq {Owner[s] : s \in ended'} OBVIOUS
<1>2. Unowned \subseteq Unowned' BY <1>1 DEF Unowned
<1>3. ASSUME NEW a PROVE Beside(a) \subseteq Beside(a)' /\ Unowned \subseteq Beside(a)
  BY <1>1 DEF Unowned, Beside
<1> QED BY <1>2, <1>3

\* A folder of what it was of, that lists no more.
Stays(n) ==
  LET f == folders[n]
      g == folders'[n]
  IN /\ g.has = f.has
     /\ g.manifest # None /\ g.manifest.login # None =>
          /\ f.manifest # None /\ f.manifest.login # None
          /\ g.manifest.account = f.manifest.account
          /\ g.manifest.items \subseteq f.manifest.items

\* What lies in it is still of the account its manifest names.
LEMMA FolderStays ==
  ASSUME NEW n, FolderUnmixed(n), Stays(n), ended \subseteq ended'
  PROVE  FolderUnmixed(n)'
<1>1. SUFFICES ASSUME folders'[n].manifest # None, folders'[n].manifest.login # None,
                      NEW i \in Rest, i \in folders'[n].manifest.items
               PROVE  (folders[n].has[i] \in Beside(folders[n].manifest.account))'
  BY DEF FolderUnmixed
<1>2. /\ folders[n].manifest # None /\ folders[n].manifest.login # None
      /\ folders'[n].manifest.account = folders[n].manifest.account
      /\ i \in folders[n].manifest.items /\ folders'[n].has = folders[n].has
  BY <1>1 DEF Stays
<1>3. folders[n].has[i] \in Beside(folders[n].manifest.account) BY <1>2 DEF FolderUnmixed
<1> PICK a : a = folders[n].manifest.account OBVIOUS
<1>4. folders[n].has[i] \in Beside(a)' BY <1>3, BesideMore
<1> QED BY <1>2, <1>4 DEF Beside

\* A folder as it was, but for what a give-up left behind.
LEMMA AlikeStays ==
  ASSUME NEW n, Alike(n)
  PROVE  Stays(n)
BY DEF Alike, Stays

\* One with nothing in it, or that names no login.
LEMMA FolderPlain ==
  ASSUME NEW n, \/ folders'[n].has = Nothing
                \/ folders'[n].manifest = None
                \/ folders'[n].manifest.login = None
  PROVE  FolderUnmixed(n)'
BY Constant DEF FolderUnmixed, Beside, Nothing

\* The app's folder as it was, and each folder of what it is of.
LEMMA MixStays ==
  ASSUME MixData, root'.has = root.has, ended \subseteq ended',
         \A n \in Names : Stays(n) \/ FolderUnmixed(n)',
         \/ Moving' = NoMove
         \/ /\ Moving # NoMove /\ Moving'.who = Moving.who /\ Moving'.park = Moving.park
            /\ Moving'.items = Moving.items
            /\ folders'[Moving.park].has = folders[Moving.park].has
  PROVE  MixData'
<1>1. RootUnmixed'
  <2>1. SUFFICES ASSUME root.has[Jar] \in Sessions, NEW i \in Rest
                 PROVE  (root.has[i] \in Beside(Owner[root.has[Jar]]))'
    BY DEF RootUnmixed
  <2>2. root.has[i] \in Beside(Owner[root.has[Jar]]) BY <2>1 DEF MixData, RootUnmixed
  <2> PICK a : a = Owner[root.has[Jar]] OBVIOUS
  <2>3. root.has[i] \in Beside(a)' BY <2>2, BesideMore
  <2> QED BY <2>3 DEF Beside
<1>2. \A n \in Names : FolderUnmixed(n)' BY FolderStays DEF MixData
<1>3. MoveUnmixed'
  <2>1. SUFFICES ASSUME Moving' # NoMove, NEW i \in Rest, i \in Moving'.items
                 PROVE  (/\ folders[Moving.park].has[i] \in Beside(Moving.who)
                         /\ NoLogin /\ folders[Moving.park].has[i] = None =>
                              root.has[i] \in Beside(Moving.who))'
    BY DEF MoveUnmixed
  <2>2. /\ Moving # NoMove /\ Moving'.who = Moving.who /\ Moving'.park = Moving.park
        /\ i \in Moving.items /\ folders'[Moving.park].has = folders[Moving.park].has
    BY <2>1
  <2>3. /\ folders[Moving.park].has[i] \in Beside(Moving.who)
        /\ NoLogin /\ folders[Moving.park].has[i] = None => root.has[i] \in Beside(Moving.who)
    BY <2>2 DEF MixData, MoveUnmixed
  <2> PICK a : a = Moving.who OBVIOUS
  <2>4. Beside(a) \subseteq Beside(a)' BY BesideMore
  <2>5. NoLogin' <=> NoLogin BY DEF NoLogin
  <2>6. (Beside(Moving.who))' = Beside(a)' BY <2>2 DEF Beside
  <2> QED BY <2>2, <2>3, <2>4, <2>5, <2>6
<1> QED BY <1>1, <1>2, <1>3 DEF MixData

\* Nothing written but of the record, and there not the move.
LEMMA MixSame ==
  ASSUME MixData, UNCHANGED <<root, folders>>, ended \subseteq ended', saved'.moving = saved.moving
  PROVE  MixData'
<1>1. \A n \in Names : Stays(n) BY DEF Stays
<1>2. Moving' = Moving BY DEF Moving
<1> QED BY <1>1, <1>2, MixStays

\* Folders as they were, but for what a give-up left behind, and the move as it was or done.
LEMMA MixAlike ==
  ASSUME TypeOK, MixData, root'.has = root.has, ended \subseteq ended', \A n \in Names : Alike(n),
         Moving' = NoMove \/ Moving' = Moving
  PROVE  MixData'
<1>1. \A n \in Names : Stays(n) BY AlikeStays
<1>2. Moving # NoMove => folders'[Moving.park].has = folders[Moving.park].has
  BY MoveTyped DEF Alike
<1> QED BY <1>1, <1>2, MixStays

\* Steps that are of no move, and the ones that say nothing of what lies where.
LEMMA MixElsewhere ==
  ASSUME pc' \notin Doing \cup {"record", "settle", "commitLeave"}
  PROVE  MixRun'
<1>1. pc' \notin Built \cup {"held", "forgetLeft", "out", "clear", "setAside", "in", "record"}
  BY DEF Doing, Fallible, Built
<1> QED BY <1>1 DEF MixRun, ArriveUnmixed, OutUnmixed, LeaveUnmixed

\* A run that ends.
LEMMA EndMixes ==
  ASSUME End
  PROVE  MixRun'
BY MixElsewhere DEF End, Doing, Fallible

\* A leave that moves out more, or looks.
LEMMA LeaveStays ==
  ASSUME LeaveUnmixed, pc \in Doing \cup {"settle"}, run'.op = run.op, run'.half = run.half,
         Moving' = Moving, ended \subseteq ended',
         \A i \in Rest : \/ root'.has[i] \in {None, Fresh}
                         \/ /\ root'.has[i] = root.has[i]
                            /\ folders'[Moving.park].has[i] = folders[Moving.park].has[i],
         pc' # "commitLeave", ~(pc' = "midway" /\ run'.row \in {"leave", "leaveOn"})
  PROVE  LeaveUnmixed'
<1>1. SUFFICES ASSUME run.op = "switch", run.half = "leave", Moving # NoMove, NEW i \in Rest
               PROVE  \/ root'.has[i] \in Unowned'
                      \/ i \in Moving.items /\ folders'[Moving.park].has[i] = None
  BY DEF LeaveUnmixed
<1>2. CASE root'.has[i] \in {None, Fresh} BY <1>2 DEF Unowned
<1>3. CASE root'.has[i] = root.has[i] /\ folders'[Moving.park].has[i] = folders[Moving.park].has[i]
  <2>1. root.has[i] \in Unowned \/ (i \in Moving.items /\ folders[Moving.park].has[i] = None)
    BY <1>1 DEF LeaveUnmixed
  <2> QED BY <1>3, <2>1, BesideMore
<1> QED BY <1>2, <1>3

\* What is in folders as they were.
LEMMA LeaveAlike ==
  ASSUME TypeOK, LeaveUnmixed, pc \in Doing \cup {"settle"}, run'.op = run.op, run'.half = run.half,
         Moving' = Moving, ended \subseteq ended', root'.has = root.has,
         Moving # NoMove => folders'[Moving.park].has = folders[Moving.park].has,
         pc' # "commitLeave", ~(pc' = "midway" /\ run'.row \in {"leave", "leaveOn"})
  PROVE  LeaveUnmixed'
<1>1. CASE Moving = NoMove BY <1>1 DEF LeaveUnmixed
<1>2. CASE Moving # NoMove BY <1>2, LeaveStays
<1> QED BY <1>1, <1>2

\* A step that failed.
LEMMA FailedMixes ==
  ASSUME TypeOK, Mix, Failed, pc \in Doing, UNCHANGED <<root, folders, saved>>, ended' = ended
  PROVE  Mix'
<1>1. MixData' BY MixSame DEF Mix
<1>2. CASE Undetermined
  <2>1. pc' \in {"look", "giveUp", "reclaim", "idle"} BY <1>2 DEF Undetermined, Goes, End
  <2>2. MixRun' BY <2>1, MixElsewhere DEF Doing, Fallible
  <2> QED BY <1>1, <2>2 DEF Mix
<1>3. CASE pc' = "settle" /\ run' = [run EXCEPT !.on = "after"]
  <2>1. run'.op = run.op /\ run'.half = run.half BY <1>3 DEF TypeOK, Runs
  <2>2. Moving' = Moving BY DEF Moving
  <2>3. LeaveUnmixed' BY <1>3, <2>1, <2>2, LeaveAlike DEF Mix, MixRun
  <2>4. ArriveUnmixed' /\ OutUnmixed' BY <1>3 DEF ArriveUnmixed, OutUnmixed, Built
  <2> QED BY <1>1, <2>3, <2>4 DEF Mix, MixRun
<1> QED BY <1>2, <1>3 DEF Failed

-----------------------------------------------------------------------------
(* Steps that move nothing. *)

\* A step of no move, the disk as it was.
LEMMA PlainMixes ==
  ASSUME Mix, UNCHANGED <<root, folders>>, ended \subseteq ended', saved'.moving = saved.moving,
         pc' \in Plain \cup {"reserve", "commitArrive", "undone", "started", "givenUp"}
  PROVE  Mix'
<1>1. MixData' BY MixSame DEF Mix
<1>2. MixRun' BY MixElsewhere DEF Plain, Doing, Fallible
<1> QED BY <1>1, <1>2 DEF Mix

\* A run that ends, or dies, the disk as it was.
LEMMA EndsMix ==
  ASSUME Mix, UNCHANGED <<root, folders>>, ended \subseteq ended', saved'.moving = saved.moving, End
  PROVE  Mix'
<1>1. pc' \in Plain BY DEF End, Plain
<1> QED BY <1>1, PlainMixes

\* A command's first steps.
LEMMA StartMixes ==
  ASSUME Mix, NEW op \in Commands, NEW who \in Accounts \cup {None}, Start(op, who)
  PROVE  Mix'
<1>1. pc' \in Plain /\ UNCHANGED <<root, folders, saved, ended>> BY DEF Start, Still, disk, Plain
<1> QED BY <1>1, PlainMixes

\* What a run settles first is of a command alone.
LEMMA BeginMixes ==
  ASSUME Inv, Mix, Begin
  PROVE  Mix'
<1>0. pc = "begin" /\ UNCHANGED <<root, folders, saved, ended>> BY DEF Begin, Still, disk
<1>1. \/ pc' = "settle" /\ run' = [run EXCEPT !.on = "settle"]
      \/ pc' \in Plain
  BY DEF Begin, Goes, End, Plain
<1>2. CASE pc' \in Plain BY <1>0, <1>2, PlainMixes
<1>3. CASE pc' = "settle" /\ run' = [run EXCEPT !.on = "settle"]
  <2>1. MixData' BY <1>0, MixSame DEF Mix
  <2>2. run'.half = None
    <3>1. run.half = None BY <1>0 DEF Inv, RunInv, Ops
    <3> QED BY <1>3, <3>1 DEF Inv, TypeOK, Runs
  <2>3. LeaveUnmixed' BY <2>2, NoneApart DEF LeaveUnmixed, Stages
  <2>4. ArriveUnmixed' /\ OutUnmixed' BY <1>3 DEF ArriveUnmixed, OutUnmixed, Built
  <2> QED BY <2>1, <2>3, <2>4 DEF Mix, MixRun
<1> QED BY <1>1, <1>2, <1>3

\* A run that dies.
LEMMA CrashMixes ==
  ASSUME Mix, Crash
  PROVE  Mix'
<1>1. UNCHANGED <<root, folders, saved, ended>> /\ End BY DEF Crash, disk
<1> QED BY <1>1, EndsMix

\* A move to be given up.
LEMMA GiveUpMixes ==
  ASSUME Inv, Mix, GiveUp
  PROVE  Mix'
<1>0. pc = "giveUp" /\ UNCHANGED <<root, folders, saved, ended>> BY DEF GiveUp, Still, disk
<1>o. run.op \in {"enroll", "abandon"} BY <1>0 DEF Inv, RunInv, Ops
<1>l. PICK left : left = Left(Moving) OBVIOUS
<1>1. \/ /\ pc' \in {"hold", "left"}
         /\ run' = [run EXCEPT !.on = "giveUp", !.row = "giveUp", !.list = left]
      \/ End
      \/ pc' = "reserve"
  BY <1>l, <1>o DEF GiveUp
<1>2. CASE End BY <1>0, <1>2, EndsMix
<1>3. CASE pc' = "reserve" BY <1>0, <1>3, PlainMixes
<1>4. CASE pc' \in {"hold", "left"} /\ run' = [run EXCEPT !.on = "giveUp", !.row = "giveUp", !.list = left]
  <2>1. MixData' BY <1>0, MixSame DEF Mix
  <2>2. run'.op = run.op BY <1>4 DEF Inv, TypeOK, Runs
  <2>3. LeaveUnmixed' BY <1>o, <2>2 DEF LeaveUnmixed
  <2>4. ArriveUnmixed' /\ OutUnmixed' BY <1>4 DEF ArriveUnmixed, OutUnmixed, Built
  <2> QED BY <2>1, <2>3, <2>4 DEF Mix, MixRun
<1> QED BY <1>1, <1>2, <1>3, <1>4

\* A name reserved: what is set aside has a folder.
LEMMA ReserveMixes ==
  ASSUME Inv, Mix, Reserve
  PROVE  Mix'
<1>0. pc = "reserve" /\ UNCHANGED <<root, folders, saved, ended>>
  BY DEF Reserve, Refused, Still, disk
<1>1. CASE End BY <1>0, <1>1, EndsMix
<1>2. CASE pc' = "record" /\ run' = [run EXCEPT !.name = Least(Free)] /\ Free # {}
  <2>1. MixData' BY <1>0, MixSame DEF Mix
  <2>2. run'.name # None
    <3>1. Free \in SUBSET Names BY DEF Free
    <3>2. Least(Free) \in Free BY <1>2, <3>1, Constant, LeastIs DEF Least
    <3>3. run'.name = Least(Free) BY <1>2 DEF Inv, TypeOK, Runs
    <3> QED BY <3>1, <3>2, <3>3, NoneApart
  <2>3. ArriveUnmixed' /\ OutUnmixed' /\ LeaveUnmixed'
    BY <1>2, <2>2 DEF ArriveUnmixed, OutUnmixed, LeaveUnmixed, Built, Doing, Fallible
  <2> QED BY <2>1, <2>3 DEF Mix, MixRun
<1> QED BY <1>1, <1>2 DEF Reserve, Refused

\* A find of nobody with nothing left of anybody is of an app's folder with nothing in it.
LEMMA LookClean ==
  ASSUME NEW v, v = Look, v.is = "nobody", v.leftovers = FALSE
  PROVE  \A i \in Rest : root.has[i] = None
<1>1. Present = {} BY DEF Look, Says
<1> QED BY <1>1, Constant DEF Present, InRoot

\* The look, and what each command makes of it.
LEMMA LookAtItMixes ==
  ASSUME Inv, Mix, LookAtIt
  PROVE  Mix'
<1>0. pc = "look" /\ UNCHANGED <<root, ended>> BY DEF LookAtIt, Still
<1>i. TypeOK /\ Ops BY DEF Inv, RunInv
<1>s. saved \in Records BY <1>i DEF TypeOK
<1>v. PICK v : v = Look OBVIOUS
<1>c. \/ run.op = "switch" /\ LookForSwitch(v)
      \/ run.op = "start" /\ LookForStart(v)
      \/ Refused
      \/ run.op = "forget" /\ LookForForget(v)
      \/ run.op = "enroll" /\ LookForEnroll(v)
  <2>1. run.op \in Commands /\ run.op \notin {"repair", "abandon"}
    BY <1>0, <1>i DEF Ops, TypeOK, Runs
  <2> QED BY <1>v, <2>1 DEF LookAtIt, Commands
<1>n. UNCHANGED folders /\ saved'.moving = saved.moving
  <2>1. Nobody(saved).moving = saved.moving BY <1>s, NobodyOf
  <2> QED BY <1>c, <2>1 DEF LookForSwitch, LookForStart, LookForForget, LookForEnroll, Begins, Refused, disk
<1>1. CASE pc' \in Plain \cup {"reserve"} BY <1>0, <1>n, <1>1, PlainMixes
<1>2. CASE /\ v.is = "nobody" /\ v.leftovers = FALSE
           /\ pc' = "record" /\ run' = [run EXCEPT !.half = "arrive", !.on = "forward", !.name = None]
  <2>1. MixData' BY <1>0, <1>n, MixSame DEF Mix
  <2>2. \A i \in Rest : root'.has[i] \in Unowned' BY <1>0, <1>2, <1>v, LookClean DEF Unowned
  <2>3. ArriveUnmixed' /\ OutUnmixed' /\ LeaveUnmixed'
    BY <1>2, <2>2 DEF ArriveUnmixed, OutUnmixed, LeaveUnmixed, Built, Doing, Fallible
  <2> QED BY <2>1, <2>3 DEF Mix, MixRun
<1>3. CASE run.op = "switch" /\ LookForSwitch(v)
  <2>1. CASE Begins("leave", FALSE) BY <1>1, <2>1 DEF Begins
  <2>2. CASE v.is = "nobody" /\ Begins("arrive", v.leftovers)
    <3>1. v.leftovers \in BOOLEAN BY <1>v, <2>2 DEF Look, Says
    <3> QED BY <1>1, <1>2, <2>2, <3>1 DEF Begins
  <2>3. CASE Refused BY <1>1, <2>3 DEF Refused, End, Plain
  <2> QED BY <1>3, <2>1, <2>2, <2>3 DEF LookForSwitch
<1>4. CASE run.op = "start" /\ LookForStart(v)
  BY <1>1, <1>4 DEF LookForStart, Begins, Refused, End, Plain
<1>5. CASE Refused BY <1>1, <1>5 DEF Refused, End, Plain
<1>6. CASE LookForForget(v) \/ LookForEnroll(v)
  BY <1>1, <1>6 DEF LookForForget, LookForEnroll, Refused, End, Plain
<1> QED BY <1>c, <1>3, <1>4, <1>5, <1>6

-----------------------------------------------------------------------------
(* A settling. *)

\* What follows a settling is of no move.
LEMMA ContinuesMix ==
  ASSUME Continues
  PROVE  MixRun'
<1>1. pc' \in Plain BY DEF Continues, End, Goes, Plain
<1> QED BY <1>1, MixElsewhere DEF Plain, Doing, Fallible

\* What a move goes on with, or back, is of what it is of.
LEMMA RowUnmixed ==
  ASSUME NEW m \in Moves, NEW r, r = Row(m)
  PROVE  /\ r.step \in {"clear", "out"} => /\ r.row \in {"leaveOn", "back", "backAside"}
                                           /\ r.items \subseteq m.items
         /\ r.row = "back" /\ r.step = "out" => root.has[Jar] \in {None, NoSession, m.login}
         /\ r.step \in {"undone", "put", "clear", "out", "commitArrive", "reserve", "stop"}
<1> DEFINE here == JarIs(root.has[Jar], m.login)
           To(step, line, items) == [step |-> step, row |-> line, items |-> items]
<1>1. RowIs(m, r) BY RowOf
<1>2. here \in {"none", "noSession", "mine"} => root.has[Jar] \in {None, NoSession, m.login} BY DEF JarIs
<1>3. ASSUME r.row = "back", r.step = "out" PROVE here \in {"none", "noSession", "mine"}
  <2>1. CASE m.half = "leave"
    <3>1. r.row # "back"
      BY <1>1, <1>3, <2>1 DEF RowIs
    <3> QED BY <1>3, <3>1
  <2>2. CASE m.half = "arrive"
    <3>1. \/ r = To("commitArrive", None, {})
          \/ here = "mine" /\ r = To("out", "back", m.items)
          \/ r = To("reserve", "keysAside", m.items)
          \/ here \in {"none", "noSession"}
          \/ r = To("stop", None, {})
      BY <2>2 DEF Row
    <3> HIDE DEF here
    <3> QED BY <1>3, <3>1
  <2> QED BY <2>1, <2>2 DEF Moves
<1>4. r.step \in {"clear", "out"} => /\ r.row \in {"leaveOn", "back", "backAside"}
                                     /\ r.items \subseteq m.items
  BY <1>1 DEF RowIs
<1>5. r.step \in {"undone", "put", "clear", "out", "commitArrive", "reserve", "stop"} BY <1>1 DEF RowIs
<1> HIDE DEF here
<1> QED BY <1>2, <1>3, <1>4, <1>5

\* A move settled.
LEMMA SettleMixes ==
  ASSUME Inv, Mix, Settle
  PROVE  Mix'
<1>0. pc = "settle" /\ UNCHANGED <<root, folders, saved, ended>> BY DEF Settle, Still, disk
<1>i. TypeOK BY DEF Inv
<1>d. MixData' BY <1>0, MixSame DEF Mix
<1>1. CASE Moving = NoMove
  <2>1. Continues BY <1>1 DEF Settle
  <2> QED BY <1>d, <2>1, ContinuesMix DEF Mix
<1>2. CASE Moving # NoMove
  <2> PICK m : m = Moving OBVIOUS
  <2> PICK r : r = Row(m) OBVIOUS
  <2>m. m \in Moves BY <1>2, <1>i, MoveTyped
  <2>r. /\ r.step \in {"clear", "out"} => /\ r.row \in {"leaveOn", "back", "backAside"}
                                          /\ r.items \subseteq m.items
        /\ r.row = "back" /\ r.step = "out" => root.has[Jar] \in {None, NoSession, m.login}
        /\ r.step \in {"undone", "put", "clear", "out", "commitArrive", "reserve", "stop"}
    BY <2>m, RowUnmixed
  <2>s. \/ Undetermined
        \/ r.step = "reserve" /\ pc' = "reserve"
        \/ r.step \notin {"stop", "reserve"} /\ Starts(r.step, run.on, r.row, r.items, m.park)
    BY <1>2 DEF Settle
  <2>n. Moving' = m BY <1>0 DEF Moving
  <2>1. CASE Undetermined
    <3>1. pc' \in Plain BY <2>1 DEF Undetermined, Goes, End, Plain
    <3> QED BY <1>0, <3>1, PlainMixes
  <2>2. CASE pc' = "reserve" BY <1>0, <2>2, PlainMixes
  <2>3. CASE Starts(r.step, run.on, r.row, r.items, m.park) /\ r.step \notin {"stop", "reserve"}
    <3>0. pc' = r.step /\ run' = [run EXCEPT !.on = run.on, !.row = r.row, !.items = r.items, !.to = m.park]
      BY <2>3 DEF Starts
    <3>1. run'.op = run.op /\ run'.half = run.half /\ run'.row = r.row /\ run'.items = r.items
      BY <3>0, <1>i DEF TypeOK, Runs
    <3>2. pc' \in {"undone", "put", "clear", "out", "commitArrive"} BY <2>3, <2>r, <3>0
    <3>3. ArriveUnmixed' BY <2>r, <3>0, <3>1, <3>2 DEF ArriveUnmixed
    <3>4. OutUnmixed' BY <1>0, <2>n, <2>r, <3>0, <3>1, <3>2 DEF OutUnmixed, Built
    <3>5. LeaveUnmixed' BY <1>0, <1>i, <2>n, <3>1, <3>2, LeaveAlike DEF Mix, MixRun
    <3> QED BY <1>d, <3>3, <3>4, <3>5 DEF Mix, MixRun
  <2> QED BY <2>s, <2>1, <2>2, <2>3
<1> QED BY <1>1, <1>2

-----------------------------------------------------------------------------
(* The app. *)

\* The app opened: it makes what is missing.
LEMMA OpensMix ==
  ASSUME Inv, Mix, Opens
  PROVE  Mix'
<1>0. UNCHANGED <<folders, saved, ended, pc, run>> BY DEF Opens, disk
<1>1. /\ root'.has[Jar] = root.has[Jar]
      /\ \A i \in Rest : root'.has[i] \in {root.has[i], Fresh}
  <2>1. root' = [root EXCEPT !.has = [i \in ItemSet |->
                   IF i \in Rest /\ ~InRoot(i) THEN Fresh ELSE root.has[i]]]
    BY DEF Opens
  <2> QED BY <2>1, Constant DEF Inv, TypeOK
<1>m. Moving' = Moving BY <1>0 DEF Moving
<1>2. \A a : Beside(a)' = Beside(a) /\ Fresh \in Beside(a) BY <1>0 DEF Beside
<1>3. Unowned' = Unowned /\ Fresh \in Unowned BY <1>0 DEF Unowned
<1>l. NoLogin' <=> NoLogin BY <1>1 DEF NoLogin
<1>4. RootUnmixed'
  <2> PICK a : a = Owner[root.has[Jar]] OBVIOUS
  <2>1. root.has[Jar] \in Sessions => \A i \in Rest : root.has[i] \in Beside(a)
    BY DEF Mix, MixData, RootUnmixed
  <2>2. root'.has[Jar] \in Sessions => \A i \in Rest : root'.has[i] \in Beside(a)' BY <1>1, <1>2, <2>1
  <2> QED BY <1>1, <2>2 DEF RootUnmixed
<1>5. \A n \in Names : FolderUnmixed(n)'
  <2>1. \A n \in Names : Stays(n) BY <1>0 DEF Stays
  <2> QED BY <1>0, <2>1, FolderStays DEF Mix, MixData
<1>6. MoveUnmixed'
  <2> PICK a, p : a = Moving.who /\ p = folders[Moving.park].has OBVIOUS
  <2>1. Moving # NoMove => \A i \in Rest : i \in Moving.items =>
          /\ p[i] \in Beside(a)
          /\ NoLogin /\ p[i] = None => root.has[i] \in Beside(a)
    BY DEF Mix, MixData, MoveUnmixed
  <2>2. Moving # NoMove => \A i \in Rest : i \in Moving.items =>
          /\ p[i] \in Beside(a)'
          /\ NoLogin' /\ p[i] = None => root'.has[i] \in Beside(a)'
    BY <1>1, <1>2, <1>l, <2>1
  <2> QED BY <1>0, <1>m, <2>2 DEF MoveUnmixed
<1>7. ArriveUnmixed'
  <2>a. ArriveUnmixed BY DEF Mix, MixRun
  <2>1. \A i \in Rest : root.has[i] \in Unowned => root'.has[i] \in Unowned' BY <1>1, <1>3
  <2>2. \A a : \A i \in Rest : root.has[i] \in Beside(a) => root'.has[i] \in Beside(a)' BY <1>1, <1>2
  <2> PICK a : a = Moving.who OBVIOUS
  <2>3. pc = "in" /\ run.row = "arrive" => \A i \in Rest : root'.has[i] \in Beside(a)'
    BY <2>2, <2>a DEF ArriveUnmixed
  <2> QED BY <1>0, <1>m, <2>a, <2>1, <2>3 DEF ArriveUnmixed
<1>8. OutUnmixed' BY <1>0, <1>1, <1>m DEF Mix, MixRun, OutUnmixed
<1>9. LeaveUnmixed'
  <2>a. LeaveUnmixed BY DEF Mix, MixRun
  <2>1. \A i \in Rest : root.has[i] \in Unowned => root'.has[i] \in Unowned' BY <1>1, <1>3
  <2> QED BY <1>0, <1>m, <2>a, <2>1 DEF LeaveUnmixed
<1> QED BY <1>4, <1>5, <1>6, <1>7, <1>8, <1>9 DEF Mix, MixData, MixRun

\* The app gone as it was.
LEMMA DiesMixes ==
  ASSUME Mix, Dies
  PROVE  Mix'
<1>1. UNCHANGED <<root, folders, saved, ended, pc, run>> BY DEF Dies, disk
<1>2. MixData' BY <1>1, MixSame DEF Mix
<1>3. MixRun'
  BY <1>1 DEF Mix, MixRun, ArriveUnmixed, OutUnmixed, LeaveUnmixed, Moving, Unowned, Beside
<1> QED BY <1>2, <1>3 DEF Mix

\* The app quit: what it finds beside the session it writes becomes that session's, and what it
\* leaves beside none is of the session that is over.
LEMMA WritesMix ==
  ASSUME Inv, Mix, NEW jar \in Jars, NEW keys \in Keys, NEW is, Writes(jar, keys, is),
         jar \in Sessions => is = Owner[jar], jar \notin Sessions => is = Fresh
  PROVE  Mix'
<1>0. /\ pc' = "idle" /\ UNCHANGED <<folders, saved>>
      /\ ended' = ended \cup ({root.has[Jar]} \cap (Sessions \ {jar}))
  BY DEF Writes, disk
<1>1. /\ root'.has[Jar] = jar
      /\ \A i \in Rest : root'.has[i] = IF root.has[i] # None /\ is # Fresh THEN is ELSE root.has[i]
  <2>1. root'.has = [i \in ItemSet |-> IF i = Jar THEN jar
                                       ELSE IF InRoot(i) /\ is # Fresh THEN is ELSE root.has[i]]
    BY DEF Writes
  <2> QED BY <2>1, Constant DEF InRoot
<1>m. Moving' = Moving BY <1>0 DEF Moving
<1>e. ended \subseteq ended' BY <1>0
<1>2. RootUnmixed'
  <2>1. SUFFICES ASSUME jar \in Sessions PROVE \A i \in Rest : root'.has[i] \in Beside(Owner[jar])'
    BY <1>1 DEF RootUnmixed
  <2>2. is = Owner[jar] /\ is # Fresh BY <2>1, SessionsOwned, FreshApart
  <2>3. \A i \in Rest : root'.has[i] \in {None, is} BY <1>1, <2>2
  <2> QED BY <2>2, <2>3 DEF Beside
<1>3. \A n \in Names : FolderUnmixed(n)'
  <2>1. \A n \in Names : Stays(n) BY <1>0 DEF Stays
  <2> QED BY <1>e, <2>1, FolderStays DEF Mix, MixData
<1>4. MoveUnmixed'
  <2> PICK a, p : a = Moving.who /\ p = folders[Moving.park].has OBVIOUS
  <2>0. Beside(a) \subseteq Beside(a)' BY <1>e, BesideMore
  <2>1. Moving # NoMove => \A i \in Rest : i \in Moving.items =>
          /\ p[i] \in Beside(a)
          /\ NoLogin /\ p[i] = None => root.has[i] \in Beside(a)
    BY DEF Mix, MixData, MoveUnmixed
  <2>2. ASSUME Moving # NoMove, NEW i \in Rest, i \in Moving.items
        PROVE  /\ p[i] \in Beside(a)'
               /\ NoLogin' /\ p[i] = None => root'.has[i] \in Beside(a)'
    <3>1. p[i] \in Beside(a)' BY <2>0, <2>1, <2>2
    <3>2. ASSUME NoLogin', p[i] = None PROVE root'.has[i] \in Beside(a)'
      <4>1. root'.has[i] = root.has[i] /\ jar \notin Sessions BY <1>1, <3>2 DEF NoLogin
      <4>2. CASE NoLogin BY <4>1, <4>2, <2>0, <2>1, <2>2, <3>2
      <4>3. CASE ~NoLogin
        <5> PICK s : s = root.has[Jar] OBVIOUS
        <5>1. s \in Sessions /\ s \in ended' BY <1>0, <4>1, <4>3 DEF NoLogin
        <5>2. root.has[i] \in Beside(Owner[s]) BY <5>1 DEF Mix, MixData, RootUnmixed
        <5>3. root.has[i] \in {None, Fresh, Owner[s]} \cup {Owner[t] : t \in ended} BY <5>2 DEF Beside
        <5>4. {Owner[t] : t \in ended} \subseteq {Owner[t] : t \in ended'} BY <1>e
        <5>5. Owner[s] \in {Owner[t] : t \in ended'} BY <5>1
        <5> QED BY <4>1, <5>3, <5>4, <5>5 DEF Beside
      <4> QED BY <4>2, <4>3
    <3> QED BY <3>1, <3>2
  <2> QED BY <1>0, <1>m, <2>2 DEF MoveUnmixed
<1>5. MixRun' BY <1>0, MixElsewhere DEF Doing, Fallible
<1> QED BY <1>2, <1>3, <1>4, <1>5 DEF Mix, MixData

\* Each way the app opens, goes or quits.
LEMMA AppMixes ==
  ASSUME Inv, Mix, App
  PROVE  Mix'
<1>k. root.keys \in Keys BY DEF Inv, TypeOK
<1>n. NamedBy(root.keys) \in Accounts \cup {None} BY <1>k DEF NamedBy, Keys
<1>o. \A s \in Sessions : Owner[s] \in Accounts BY SessionsOwned
<1>s. NoSession \notin Sessions BY SessionsApart
<1>e. \A w \in Accounts \cup {None}, t \in Tokens \cup {Emptied} : [who |-> w, tok |-> t] \in Keys
  BY DEF Keys
<1>c. \A s, w : \A t \in CachesOf(s, w) : t \in Tokens \cup {Emptied} BY DEF CachesOf
<1>j. NoSession \in Jars /\ \A s \in Sessions : s \in Jars BY DEF Jars
<1>1. CASE Opens BY <1>1, OpensMix
<1>2. CASE Dies BY <1>2, DiesMixes
<1>3. CASE QuitsAsItWas
  <2>1. CASE Writes(NoSession, [who |-> NamedBy(root.keys), tok |-> Emptied], Fresh)
    <3>1. [who |-> NamedBy(root.keys), tok |-> Emptied] \in Keys BY <1>e, <1>n
    <3> QED BY <2>1, <3>1, <1>j, <1>s, WritesMix
  <2>2. CASE Writes(NoSession, root.keys, Fresh)
    BY <2>2, <1>k, <1>j, <1>s, WritesMix
  <2>3. ASSUME root.has[Jar] \in Sessions, root.keys # None, NEW t \in CachesOf(root.has[Jar], root.keys.who),
               Writes(root.has[Jar], [root.keys EXCEPT !.tok = t], Owner[root.has[Jar]])
        PROVE  Mix'
    <3> PICK s : s = root.has[Jar] OBVIOUS
    <3> PICK k : k = [root.keys EXCEPT !.tok = t] OBVIOUS
    <3>1. s \in Sessions /\ Writes(s, k, Owner[s]) BY <2>3
    <3>2. t \in Tokens \cup {Emptied} BY <1>c
    <3>3. k \in Keys BY <2>3, <3>2, <1>k DEF Keys
    <3> QED BY <3>1, <3>3, <1>j, WritesMix
  <2> QED BY <1>3, <2>1, <2>2, <2>3 DEF QuitsAsItWas
<1>4. CASE QuitsLoggedOut
  <2>1. [who |-> NamedBy(root.keys), tok |-> Emptied] \in Keys BY <1>e, <1>n
  <2> QED BY <1>4, <2>1, <1>j, <1>s, WritesMix DEF QuitsLoggedOut
<1>5. ASSUME NEW s \in Sessions, QuitsSignedIn(s) PROVE Mix'
  <2>1. PICK w \in {Owner[s], NamedBy(root.keys)} : \E t \in CachesOf(s, w) :
          Writes(s, [who |-> w, tok |-> t], Owner[s])
    BY <1>5 DEF QuitsSignedIn
  <2>2. PICK t \in CachesOf(s, w) : Writes(s, [who |-> w, tok |-> t], Owner[s]) BY <2>1
  <2>3. w \in Accounts \cup {None} BY <1>n, <1>o
  <2>4. t \in Tokens \cup {Emptied} BY <1>c
  <2>5. [who |-> w, tok |-> t] \in Keys BY <2>3, <2>4, <1>e
  <2> QED BY <2>2, <2>5, <1>j, WritesMix
<1> QED BY <1>1, <1>2, <1>3, <1>4, <1>5 DEF App

-----------------------------------------------------------------------------
(* A move is recorded. *)

\* A record of a leave: what is beside the session that goes is its account's, and in no park yet.
LEMMA RecordLeaveMixes ==
  ASSUME Inv, Owned, Mix, pc = "record", RecordLeave, Still
  PROVE  Mix'
<1>i. TypeOK /\ OwnRun /\ Reserving /\ Halves /\ MixData BY DEF Inv, RunInv, Owned, Mix
<1>0. UNCHANGED <<root, folders, ended>> /\ run.half = "leave"
  BY DEF RecordLeave, Recorded, Still
<1>h. /\ root.has[Jar] \in Sessions /\ Moving = NoMove
      /\ Owner[root.has[Jar]] = NamedBy(root.keys)
      /\ run.name \in Names /\ ~folders[run.name].made
  BY <1>0, <1>i, NoneApart DEF Reserving, Halves, OwnRun, ReserveOwned
<1>1. CASE End /\ UNCHANGED saved
  BY <1>0, <1>1, EndsMix
<1>2. CASE ~(End /\ UNCHANGED saved)
  <2>v. PICK who, n, login, items, keys, b : /\ who = NamedBy(root.keys) /\ n = run.name /\ login = root.has[Jar]
                                          /\ items = Present /\ keys = root.keys /\ b = (run.op = "start")
    OBVIOUS
  <2>m. PICK m : m = [half |-> "leave", who |-> who, park |-> n, login |-> login, items |-> items,
                      keys |-> keys, asides |-> {}, awaits |-> b] OBVIOUS
  <2>k. PICK kept : kept = [account |-> who, login |-> login, items |-> items, keys |-> keys, left |-> {}] OBVIOUS
  <2>0. /\ saved' = [saved EXCEPT !.moving = m]
        /\ pc' = "make"
        /\ run' = [run EXCEPT !.on = "forward", !.row = "leave", !.kept = kept, !.to = n, !.items = items]
    BY <1>2, <2>v, <2>m, <2>k DEF RecordLeave, Recorded
  <2>2. m.who = who /\ m.park = n /\ m.items = items BY <2>m
  <2>7. run'.row = "leave" /\ run'.items = items /\ run'.half = "leave"
    <3>1. run' = [run EXCEPT !.on = "forward", !.row = "leave", !.kept = kept, !.to = n, !.items = items]
      BY <2>0
    <3>2. run \in Runs BY <1>i DEF TypeOK
    <3> QED BY <1>0, <3>1, <3>2 DEF Runs
  <2>9. Moving' = m BY <2>0, <1>i DEF Moving, TypeOK, Records
  <2>n. \A i \in Rest : folders[n].has[i] = None BY <1>h, <1>i, <2>v, NotMade, Constant
  <2>d. RootUnmixed' /\ \A o \in Names : FolderUnmixed(o)'
    <3>1. RootUnmixed' BY <1>0, <1>i DEF MixData, RootUnmixed, Beside
    <3>2. \A o \in Names : Stays(o) BY <1>0 DEF Stays
    <3> QED BY <1>0, <1>i, <3>1, <3>2, FolderStays DEF MixData
  <2>e. MoveUnmixed'
    <3>1. \A i \in Rest : folders'[n].has[i] \in Beside(who)' BY <1>0, <2>n DEF Beside
    <3>2. ~NoLogin' BY <1>0, <1>h DEF NoLogin
    <3> QED BY <2>2, <2>9, <3>1, <3>2 DEF MoveUnmixed
  <2>a. ArriveUnmixed' BY <2>0, <2>7 DEF ArriveUnmixed
  <2>o. OutUnmixed' BY <2>0, <2>2, <2>7, <2>9 DEF OutUnmixed
  <2>l. LeaveUnmixed'
    <3>1. ASSUME NEW i \in Rest
          PROVE  root'.has[i] \in Unowned' \/ (i \in items /\ folders'[n].has[i] = None)
      <4>1. CASE root.has[i] = None BY <1>0, <4>1 DEF Unowned
      <4>2. CASE root.has[i] # None
        <5>1. i \in items BY <2>v, <4>2, Constant DEF Present, InRoot
        <5> QED BY <1>0, <2>n, <5>1
      <4> QED BY <4>1, <4>2
    <3> QED BY <2>0, <2>2, <2>9, <3>1 DEF LeaveUnmixed
  <2> QED BY <2>d, <2>e, <2>a, <2>o, <2>l DEF Mix, MixData, MixRun
<1> QED BY <1>1, <1>2

\* A record of an arrive: what its park holds is all its account's, and all of it there.
LEMMA RecordArriveMixes ==
  ASSUME Inv, Owned, Mix, pc = "record", RecordArrive, Still
  PROVE  Mix'
<1>i. TypeOK /\ Ops /\ OwnRun /\ Reserving /\ Halves /\ MixData /\ ArriveUnmixed
  BY DEF Inv, RunInv, Owned, Mix, MixRun
<1>0. UNCHANGED <<root, folders, ended>> /\ run.half = "arrive"
  BY DEF RecordArrive, Recorded, Still
<1>h. CanArrive(run.who) /\ run.op = "switch" /\ run.who \in Accounts
  BY <1>0, <1>i DEF Reserving, Halves, Ops
<1>1. CASE End
  <2>1. saved'.moving = saved.moving
    <3>1. CASE UNCHANGED saved BY <3>1
    <3>2. CASE ~UNCHANGED saved
      <4>1. pc' \in {"keep", "held"} BY <3>2 DEF RecordArrive, Recorded, Starts
      <4> QED BY <1>1, <4>1 DEF End
    <3> QED BY <3>1, <3>2
  <2> QED BY <1>0, <1>1, <2>1, EndsMix
<1>2. CASE ~End
  <2>v. PICK who, n, login, items, keys, asides, step :
          /\ who = run.who /\ n = saved.parked[who].name /\ login = saved.parked[who].login
          /\ items = folders[n].manifest.items /\ keys = folders[n].manifest.keys
          /\ asides = IF run.name # None THEN {run.name} ELSE {}
          /\ step = IF run.name # None THEN "keep" ELSE "held"
    OBVIOUS
  <2>m. PICK m : m = [half |-> "arrive", who |-> who, park |-> n, login |-> login, items |-> items,
                      keys |-> keys, asides |-> asides, awaits |-> FALSE] OBVIOUS
  <2>0. /\ saved' = [Nobody(saved) EXCEPT !.moving = m]
        /\ Starts(step, "forward", "arrive", {}, run.name)
    BY <1>2, <2>v, <2>m DEF RecordArrive, Recorded
  <2>q. saved' = [Nobody(saved) EXCEPT !.moving = m] BY <2>0
  <2>r. run' = [run EXCEPT !.on = "forward", !.row = "arrive", !.items = {}, !.to = run.name]
    BY <2>0 DEF Starts
  <2>p. pc' = step BY <2>0 DEF Starts
  <2>b. step \in {"keep", "held"} /\ (step = "held" => run.name = None) BY <2>v
  <2>a. saved.parked[who] # None /\ Whole(n, who, login) BY <1>h, <2>v, CanArriveIs
  <2>t. n \in Names /\ login \in Sessions /\ login # None
    <3>1. saved.parked[who] \in [name : Names, login : Sessions]
      BY <1>h, <2>v, <2>a, <1>i DEF TypeOK, Records
    <3> QED BY <2>v, <3>1, SessionsApart
  <2>2. m.who = who /\ m.park = n /\ m.items = items BY <2>m
  <2>s. PICK u : u = Nobody(saved) OBVIOUS
  <2>u. u \in Records BY <2>s, <1>i, NobodyOf DEF TypeOK
  <2>9. Moving' = m BY <2>q, <2>s, <2>u DEF Moving, Records
  <2>7. run'.row = "arrive" /\ run'.half = "arrive" BY <2>r, <1>0, <1>i DEF TypeOK, Runs
  <2>d. RootUnmixed' /\ \A o \in Names : FolderUnmixed(o)'
    <3>1. RootUnmixed' BY <1>0, <1>i DEF MixData, RootUnmixed, Beside
    <3>2. \A o \in Names : Stays(o) BY <1>0 DEF Stays
    <3> QED BY <1>0, <1>i, <3>1, <3>2, FolderStays DEF MixData
  <2>e. MoveUnmixed'
    <3>1. /\ folders[n].manifest # None /\ folders[n].manifest.account = who
          /\ folders[n].manifest.login = login /\ HeldItems(n, items) = items
      BY <2>a, <2>v DEF Whole
    <3>2. \A i \in Rest : i \in items => folders[n].has[i] \in Beside(who)
      BY <1>i, <2>t, <2>v, <3>1 DEF MixData, FolderUnmixed
    <3>3. \A i \in Rest : i \in items => folders[n].has[i] # None BY <3>1 DEF HeldItems, InFolder
    <3>4. (Beside(who))' = Beside(who) BY <1>0 DEF Beside
    <3> QED BY <1>0, <2>2, <2>9, <3>2, <3>3, <3>4 DEF MoveUnmixed
  <2>c. ArriveUnmixed'
    <3>1. step = "held" => \A i \in Rest : root'.has[i] \in Unowned'
      BY <1>0, <1>i, <2>b DEF ArriveUnmixed, Unowned
    <3> QED BY <2>p, <2>b, <2>7, <3>1 DEF ArriveUnmixed
  <2>o. OutUnmixed' BY <2>p, <2>b, <2>7 DEF OutUnmixed
  <2>l. LeaveUnmixed' BY <2>7 DEF LeaveUnmixed
  <2> QED BY <2>d, <2>e, <2>c, <2>o, <2>l DEF Mix, MixData, MixRun
<1> QED BY <1>1, <1>2

\* One folder more to set aside in.
LEMMA RecordAsideMixes ==
  ASSUME Inv, Mix, pc = "record", RecordAside, Still
  PROVE  Mix'
<1>i. TypeOK /\ Reserving /\ Halves /\ MixData BY DEF Inv, RunInv, Mix
<1>0. UNCHANGED <<root, folders, ended>> /\ run.half \in {"keysAside", "giveUp"}
  BY DEF RecordAside, Recorded, Still
<1>h. run.name \in Names /\ Moving # NoMove
  BY <1>0, <1>i, NoneApart DEF Reserving, Halves
<1>1. CASE End /\ UNCHANGED saved BY <1>0, <1>1, EndsMix
<1>2. CASE ~(End /\ UNCHANGED saved)
  <2>v. PICK n, o, asides : n = run.name /\ o = Moving /\ asides = Moving.asides \cup {run.name}
    OBVIOUS
  <2>m. PICK m : m = [o EXCEPT !.asides = asides] OBVIOUS
  <2>t. o \in Moves BY <1>h, <1>i, <2>v, MoveTyped
  <2>2. /\ m.who = o.who /\ m.park = o.park /\ m.items = o.items
    BY <2>m, <2>t DEF Moves
  <2>x. saved' = [saved EXCEPT !.moving = m]
    <3>1. saved' = [saved EXCEPT !.moving.asides = @ \cup {run.name}]
      BY <1>2 DEF RecordAside, Recorded
    <3> QED BY <3>1, <2>m, <2>v DEF Moving
  <2>9. Moving' = m BY <2>x, <1>i DEF Moving, TypeOK, Records
  <2>d. MixData'
    <3>1. \A q \in Names : Stays(q) BY <1>0 DEF Stays
    <3> QED BY <1>0, <1>h, <1>i, <2>v, <2>2, <2>9, <3>1, MixStays
  <2>a. CASE run.half = "keysAside"
    <3>0. Starts("keep", run.on, "keysAside", Moving.items, Moving.park)
      BY <1>2, <2>a DEF RecordAside, Recorded
    <3>7. run'.row = "keysAside" /\ run'.half = "keysAside" /\ run'.items = o.items /\ pc' = "keep"
      BY <3>0, <2>a, <2>v, <1>i DEF TypeOK, Runs, Starts
    <3>8. ArriveUnmixed' /\ LeaveUnmixed' BY <3>7 DEF ArriveUnmixed, LeaveUnmixed
    <3>9. OutUnmixed' BY <2>2, <2>9, <3>7 DEF OutUnmixed
    <3> QED BY <2>d, <3>8, <3>9 DEF Mix, MixRun
  <2>b. CASE run.half = "giveUp"
    <3>k. PICK kept : kept = AsideManifest(o.who, run.list, None) OBVIOUS
    <3>0. /\ pc' = "make"
          /\ run' = [run EXCEPT !.on = "giveUp", !.row = "giveUp", !.to = n, !.items = run.list, !.kept = kept]
      BY <1>2, <2>b, <2>v, <3>k DEF RecordAside, Recorded
    <3>7. run'.row = "giveUp" /\ run'.half = "giveUp" /\ pc' = "make"
      BY <3>0, <2>b, <1>i DEF TypeOK, Runs
    <3>8. ArriveUnmixed' /\ LeaveUnmixed' /\ OutUnmixed' BY <3>7 DEF ArriveUnmixed, LeaveUnmixed, OutUnmixed
    <3> QED BY <2>d, <3>8 DEF Mix, MixRun
  <2> QED BY <1>0, <2>a, <2>b
<1> QED BY <1>1, <1>2

\* A start records no move.
LEMMA RecordStartMixes ==
  ASSUME Inv, Mix, pc = "record", RecordStart, Still
  PROVE  Mix'
<1>i. TypeOK BY DEF Inv
<1>0. UNCHANGED <<root, folders, saved, ended>> /\ pc' = "keep" /\ run.half = "start"
  BY DEF RecordStart, Still, disk, Starts
<1>1. MixData' BY <1>0, MixSame DEF Mix
<1>2. run'.row = "start" /\ run'.half = "start" BY <1>0, <1>i DEF RecordStart, Starts, TypeOK, Runs
<1>3. MixRun' BY <1>0, <1>2 DEF MixRun, ArriveUnmixed, LeaveUnmixed, OutUnmixed
<1> QED BY <1>1, <1>3 DEF Mix

\* Each way a move is recorded, or is not.
LEMMA RecordMixes ==
  ASSUME Inv, Owned, Mix, Record
  PROVE  Mix'
<1>0. pc = "record" /\ Still BY DEF Record
<1>1. CASE RecordRefused
  <2>1. End /\ UNCHANGED <<root, folders, saved, ended>>
    BY <1>0, <1>1 DEF RecordRefused, Refused, disk, Still
  <2> QED BY <2>1, EndsMix
<1> QED BY <1>0, <1>1, RecordLeaveMixes, RecordArriveMixes, RecordAsideMixes, RecordStartMixes DEF Record

-----------------------------------------------------------------------------
(* The steps of a move that move no item. *)

\* Those that go on to another, what is in the app's folder and in the park as it was.
LEMMA WorkMixes ==
  ASSUME TypeOK, Mix, pc \in Doing, pc' \in Doing, root'.has = root.has, UNCHANGED <<saved, ended>>,
         \A n \in Names : Stays(n) \/ FolderUnmixed(n)',
         Moving # NoMove => folders'[Moving.park].has = folders[Moving.park].has,
         run'.op = run.op, run'.half = run.half,
         ~(pc' = "midway" /\ run'.row \in {"leave", "leaveOn"}), ArriveUnmixed', OutUnmixed'
  PROVE  Mix'
<1>1. Moving' = Moving BY DEF Moving
<1>2. MixData' BY <1>1, MixStays DEF Mix
<1>3. LeaveUnmixed'
  <2>1. pc' # "commitLeave" BY DEF Doing, Fallible
  <2> QED BY <1>1, <2>1, LeaveAlike DEF Mix, MixRun
<1> QED BY <1>2, <1>3 DEF Mix, MixRun

\* Those that write nothing.
LEMMA QuietMixes ==
  ASSUME TypeOK, Mix, pc \in Doing, pc' \in Doing, root'.has = root.has, UNCHANGED <<folders, saved, ended>>,
         run'.op = run.op, run'.half = run.half,
         ~(pc' = "midway" /\ run'.row \in {"leave", "leaveOn"}), ArriveUnmixed', OutUnmixed'
  PROVE  Mix'
<1>1. \A n \in Names : Stays(n) BY DEF Stays
<1> QED BY <1>1, WorkMixes

\* A folder made, and its manifest and keys written, before anything is in it.
LEMMA BuildsMix ==
  ASSUME Inv, Mix, Make \/ WriteManifest \/ WriteKeys, UNCHANGED ended
  PROVE  Mix'
<1>i. TypeOK /\ Building /\ OutUnmixed BY DEF Inv, RunInv, Mix, MixRun
<1>0. pc \in {"make", "manifest", "keys"} /\ pc \in Doing
  BY DEF Make, WriteManifest, WriteKeys, Doing, Fallible
<1>n. PICK n : n = run.name OBVIOUS
<1>w. n \in Names /\ run.row \in {"leave", "arrive", "keysAside", "giveUp", "start"}
  BY <1>0, <1>n, BuildsWhere
<1>1. CASE Failed /\ Unmoved
  BY <1>0, <1>1, <1>i, FailedMixes DEF Unmoved, disk
<1>2. ASSUME Advance, NEW f, InFolders(n, f), f.has = Nothing, folders[n].has = Nothing
      PROVE  Mix'
  <2>1. folders' = [folders EXCEPT ![n] = f] /\ UNCHANGED <<root, saved>> BY <1>2 DEF InFolders
  <2>2. folders'[n] = f /\ \A o \in Names : o # n => folders'[o] = folders[o]
    BY <2>1, <1>w, <1>i DEF TypeOK
  <2>3. \A o \in Names : Stays(o) \/ FolderUnmixed(o)'
    <3>1. FolderUnmixed(n)' BY <1>2, <2>2, FolderPlain
    <3>2. \A o \in Names : o # n => Stays(o) BY <2>2 DEF Stays
    <3> QED BY <3>1, <3>2
  <2>4. Moving # NoMove => folders'[Moving.park].has = folders[Moving.park].has
    BY <1>2, <1>i, <2>2, MoveTyped
  <2>6. run' = run /\ pc' = After BY <1>2 DEF Advance, Goes
  <2>p. /\ pc' \in {"manifest", "keys", "out", "setAside", "clear"}
        /\ pc' = "out" => run.row = "giveUp"
    BY <1>0, <2>6, AfterIs
  <2>7. ArriveUnmixed'
    <3>1. run.row = "arrive" => run.to = n BY <1>0, <1>n, RowAt DEF OfArrive, Built
    <3>2. folders'[n].has = Nothing BY <1>2, <2>2
    <3> QED BY <2>6, <2>p, <3>1, <3>2 DEF ArriveUnmixed
  <2>8. OutUnmixed'
    <3>1. Moving' = Moving BY <2>1 DEF Moving
    <3> QED BY <1>0, <1>w, <1>i, <2>6, <2>p, <3>1 DEF OutUnmixed, Built
  <2>9. pc' \in Doing BY <2>p DEF Doing, Fallible
  <2> QED BY <1>0, <1>i, <2>1, <2>3, <2>4, <2>6, <2>7, <2>8, <2>9, <2>p, WorkMixes
<1>e. PICK e : e = [NoFolder EXCEPT !.made = TRUE] OBVIOUS
<1>f. e \in Folders /\ e.has = Nothing
  <2>1. NoFolder \in Folders BY EmptyTyped
  <2> QED BY <1>e, <2>1 DEF Folders, NoFolder
<1>3. CASE Make
  <2>1. CASE folders[n].made BY <1>1, <1>3, <1>n, <2>1 DEF Make
  <2>2. CASE ~folders[n].made
    <3>1. folders[n] = NoFolder BY <1>i, <1>w, <2>2, NotMade
    <3>2. folders[n].has = Nothing BY <3>1 DEF NoFolder
    <3>3. Advance /\ InFolders(n, e) BY <1>3, <1>n, <1>e, <2>2 DEF Make
    <3> QED BY <1>2, <1>f, <3>2, <3>3
  <2> QED BY <2>1, <2>2
<1>4. CASE WriteManifest
  <2>1. pc = "manifest" BY <1>4 DEF WriteManifest
  <2> PICK f : f = [folders[n] EXCEPT !.manifest = run.kept] OBVIOUS
  <2>2. Advance /\ InFolders(n, f) BY <1>4, <1>n DEF WriteManifest
  <2>3. folders[n] = e BY <1>n, <1>e, <2>1, <1>i DEF Building
  <2>6. f.has = folders[n].has BY <1>f, <2>3 DEF Folders
  <2> QED BY <1>2, <1>f, <2>2, <2>3, <2>6
<1>5. CASE WriteKeys
  <2>1. pc = "keys" BY <1>5 DEF WriteKeys
  <2> PICK f : f = [folders[n] EXCEPT !.keys = {run.kept.keys}] OBVIOUS
  <2>2. Advance /\ InFolders(n, f) BY <1>5, <1>n DEF WriteKeys
  <2>3. folders[n] = [NoFolder EXCEPT !.made = TRUE, !.manifest = run.kept] BY <1>n, <2>1, <1>i DEF Building
  <2>4. folders[n].has = Nothing
    <3>1. folders[n] = [e EXCEPT !.manifest = run.kept] BY <1>e, <2>3
    <3> QED BY <1>f, <3>1 DEF Folders
  <2>5. folders[n] \in Folders BY <1>w, <1>i DEF TypeOK
  <2>6. f.has = folders[n].has BY <2>5 DEF Folders
  <2> QED BY <1>2, <2>2, <2>4, <2>6
<1> QED BY <1>3, <1>4, <1>5

\* What the settings hold now, read before a folder is made for it.
LEMMA KeepMixes ==
  ASSUME Inv, Mix, KeepSettings, UNCHANGED ended
  PROVE  Mix'
<1>i. TypeOK /\ OutUnmixed BY DEF Inv, Mix, MixRun
<1>0. pc = "keep" /\ pc' = "make" /\ UNCHANGED <<root, folders, saved>>
  BY AfterIs DEF KeepSettings, Unmoved, disk
<1>a. pc \in Doing /\ pc' \in Doing BY <1>0 DEF Doing, Fallible
<1>p. PICK account, is : run' = [run EXCEPT !.kept = AsideManifest(account, is, root.keys)]
  BY DEF KeepSettings
<1>1. /\ run'.op = run.op /\ run'.half = run.half /\ run'.row = run.row /\ run'.items = run.items
  BY <1>p, <1>i DEF TypeOK, Runs
<1>2. ArriveUnmixed' BY <1>0 DEF ArriveUnmixed
<1>3. OutUnmixed'
  <2>1. Moving' = Moving BY <1>0 DEF Moving
  <2> QED BY <1>0, <1>i, <1>1, <2>1 DEF OutUnmixed, Built
<1> QED BY <1>0, <1>a, <1>i, <1>1, <1>2, <1>3, QuietMixes

\* The settings' keys taken out.
LEMMA ClearMixes ==
  ASSUME Inv, Mix, ClearKeys, UNCHANGED ended
  PROVE  Mix'
<1>i. TypeOK /\ ArriveUnmixed /\ OutUnmixed BY DEF Inv, Mix, MixRun
<1>0. pc = "clear" /\ pc' = After /\ run' = run /\ UNCHANGED <<folders, saved>>
  BY DEF ClearKeys, Advance, Goes, disk
<1>1. root'.has = root.has BY <1>i DEF ClearKeys, TypeOK
<1>a. pc \in Doing BY <1>0 DEF Doing, Fallible
<1>r. run.row \in {"leave", "arrive", "leaveOn", "keysAside", "start"}
  BY <1>0, <1>a, RowAt DEF OfLeave, OfArrive, OfKeysBack, OfLeaveOn, OfBack, OfKeysAside, OfGiveUp, OfStart, Rows, Built
<1>p. pc' = IF run.row = "arrive" THEN "setAside" ELSE IF run.row = "start" THEN "midway" ELSE "out"
  BY <1>0, AfterIs
<1>m. Moving' = Moving BY <1>0 DEF Moving
<1>2. ArriveUnmixed' BY <1>0, <1>p, <1>i DEF ArriveUnmixed
<1>3. OutUnmixed' BY <1>0, <1>p, <1>r, <1>m, <1>i DEF OutUnmixed, Built
<1>4. pc' \in Doing /\ ~(pc' = "midway" /\ run'.row \in {"leave", "leaveOn"})
  BY <1>0, <1>p, <1>r DEF Doing, Fallible
<1> QED BY <1>0, <1>1, <1>a, <1>i, <1>2, <1>3, <1>4, QuietMixes

\* The settings' keys put back.
LEMMA PutMixes ==
  ASSUME Inv, Mix, PutKeys, UNCHANGED ended
  PROVE  Mix'
<1>i. TypeOK BY DEF Inv
<1>0. pc = "put" /\ pc' = After /\ run' = run /\ UNCHANGED <<folders, saved>>
  BY DEF PutKeys, Advance, Goes, disk
<1>1. root'.has = root.has BY <1>i DEF PutKeys, TypeOK
<1>a. pc \in Doing BY <1>0 DEF Doing, Fallible
<1>r. run.row \in {"arrive", "keysBack"}
  BY <1>0, <1>a, RowAt DEF OfLeave, OfArrive, OfKeysBack, OfLeaveOn, OfBack, OfKeysAside, OfGiveUp, OfStart, Rows
<1>p. pc' \in {"arrived", "midway"} BY <1>0, AfterIs
<1>2. ArriveUnmixed' /\ OutUnmixed' BY <1>p DEF ArriveUnmixed, OutUnmixed, Built
<1>4. pc' \in Doing /\ ~(pc' = "midway" /\ run'.row \in {"leave", "leaveOn"})
  BY <1>0, <1>p, <1>r DEF Doing, Fallible
<1> QED BY <1>0, <1>1, <1>a, <1>i, <1>2, <1>4, QuietMixes

\* Looks at what is there.
LEMMA LooksMix ==
  ASSUME Inv, Mix, HeldKeys \/ VerifyArrived \/ SetAside \/ FinishAside, UNCHANGED ended
  PROVE  Mix'
<1>i. TypeOK /\ ArriveUnmixed BY DEF Inv, Mix, MixRun
<1>0. /\ pc \in {"held", "arrived", "setAside", "finishAside"} /\ pc \in Doing
      /\ UNCHANGED <<root, folders, saved>>
  BY DEF HeldKeys, VerifyArrived, SetAside, FinishAside, Unmoved, disk, Doing, Fallible
<1>r. /\ pc = "finishAside" => run.row = "backAside"
      /\ pc # "finishAside" => run.row = "arrive"
  BY <1>0, RowAt DEF OfLeave, OfArrive, OfKeysBack, OfLeaveOn, OfBack, OfKeysAside, OfGiveUp, OfStart, Rows, Built
<1>1. CASE Failed
  BY <1>0, <1>1, <1>i, FailedMixes
<1>3. ASSUME run'.op = run.op, run'.half = run.half,
             \/ pc = "held" /\ pc' = "forgetLeft" /\ run'.row = "arrive"
             \/ pc = "arrived" /\ pc' = "midway" /\ run'.row = "arrive"
             \/ /\ pc = "setAside" /\ pc' = "out" /\ run'.row = "arrive"
                /\ run'.items = Present /\ run'.to = run.to
             \/ pc = "finishAside" /\ run'.row = "backAside" /\ pc' = "midway"
             \/ pc = "finishAside" /\ run'.row = "settingAside" /\ pc' = "out"
      PROVE  Mix'
  <2>1. pc' \in Doing /\ ~(pc' = "midway" /\ run'.row \in {"leave", "leaveOn"})
    BY <1>3 DEF Doing, Fallible
  <2>2. OutUnmixed' BY <1>3 DEF OutUnmixed, Built
  <2>3. ArriveUnmixed'
    <3>1. CASE pc = "held"
      <4>1. \A i \in Rest : root'.has[i] \in Unowned' BY <1>0, <1>i, <1>r, <3>1 DEF ArriveUnmixed, Unowned
      <4> QED BY <1>3, <3>1, <4>1 DEF ArriveUnmixed
    <3>2. CASE pc \in {"arrived", "finishAside"} BY <1>3, <3>2 DEF ArriveUnmixed
    <3>3. CASE pc = "setAside"
      <4>1. folders'[run'.to].has = Nothing BY <1>0, <1>3, <1>i, <1>r, <3>3 DEF ArriveUnmixed
      <4>2. \A i \in Rest : IF i \in run'.items THEN folders'[run'.to].has[i] = None
                            ELSE root'.has[i] \in Unowned'
        BY <1>0, <1>3, <3>3, <4>1, Constant DEF Present, InRoot, Nothing, Unowned
      <4> QED BY <1>3, <3>3, <4>2 DEF ArriveUnmixed
    <3> QED BY <1>0, <3>1, <3>2, <3>3
  <2> QED BY <1>0, <1>3, <1>i, <2>1, <2>2, <2>3, QuietMixes
<1>4. CASE HeldKeys
  <2>1. CASE Advance
    <3>1. pc = "held" /\ run' = run /\ pc' = "forgetLeft" BY <1>4, <2>1, AfterIs DEF HeldKeys, Advance, Goes
    <3> QED BY <1>3, <1>r, <3>1
  <2> QED BY <1>1, <1>4, <2>1 DEF HeldKeys
<1>5. CASE VerifyArrived
  <2>1. CASE Advance
    <3>1. pc = "arrived" /\ run' = run /\ pc' = "midway" BY <1>5, <2>1, AfterIs DEF VerifyArrived, Advance, Goes
    <3> QED BY <1>3, <1>r, <3>1
  <2> QED BY <1>1, <1>5, <2>1 DEF VerifyArrived
<1>6. CASE SetAside
  <2>1. pc = "setAside" /\ pc' = "out" /\ run' = [run EXCEPT !.items = Present]
    BY <1>6, AfterIs DEF SetAside
  <2>2. run'.op = run.op /\ run'.half = run.half /\ run'.row = run.row /\ run'.items = Present /\ run'.to = run.to
    BY <2>1, <1>i DEF TypeOK, Runs
  <2> QED BY <1>3, <1>r, <2>1, <2>2
<1>7. CASE FinishAside
  <2>0. pc = "finishAside" BY <1>7 DEF FinishAside
  <2>1. CASE Advance
    <3>1. run' = run /\ pc' = "midway" BY <2>0, <2>1, AfterIs DEF Advance, Goes
    <3> QED BY <1>3, <1>r, <2>0, <3>1
  <2>2. ASSUME NEW n, Starts("out", run.on, "settingAside", Present, n)
        PROVE  Mix'
    <3>1. run'.op = run.op /\ run'.half = run.half /\ run'.row = "settingAside" /\ pc' = "out"
      BY <2>2, <1>i DEF TypeOK, Runs, Starts
    <3> QED BY <1>3, <2>0, <3>1
  <2> QED BY <1>7, <2>1, <2>2 DEF FinishAside
<1> QED BY <1>4, <1>5, <1>6, <1>7

\* What a give-up left behind forgotten: an arrive then has nothing but its own to move in.
LEMMA ForgetLeftMixes ==
  ASSUME Inv, Mix, ForgetLeft, UNCHANGED ended
  PROVE  Mix'
<1>i. TypeOK /\ ArriveUnmixed BY DEF Inv, Mix, MixRun
<1>0. pc = "forgetLeft" /\ pc' = After /\ UNCHANGED <<root, saved>> BY DEF ForgetLeft
<1>d. pc \in Doing BY <1>0 DEF Doing, Fallible
<1>r. run.row \in {"arrive", "settingAside"}
  BY <1>0, <1>d, RowAt DEF Rows, OfLeave, OfArrive, OfKeysBack, OfLeaveOn, OfBack, OfGiveUp, OfKeysAside, OfStart
<1>p. pc' = IF run.row = "arrive" THEN "in" ELSE "midway" BY <1>0, AfterIs
<1>1. \A n \in Names : Alike(n) BY <1>i, ForgetsOf DEF ForgetLeft
<1>x. PICK is : is = IF run.row = "arrive" THEN Moving.items ELSE {} OBVIOUS
<1>2. run'.op = run.op /\ run'.half = run.half /\ run'.row = run.row /\ run'.items = is
  BY <1>x, <1>i DEF ForgetLeft, TypeOK, Runs
<1>3. \A n \in Names : Stays(n) BY <1>1, AlikeStays
<1>4. Moving # NoMove => folders'[Moving.park].has = folders[Moving.park].has
  BY <1>1, <1>i, MoveTyped DEF Alike
<1>5. pc' \in Doing /\ ~(pc' = "midway" /\ run'.row \in {"leave", "leaveOn"})
  BY <1>p, <1>r, <1>2 DEF Doing, Fallible
<1>6. OutUnmixed' BY <1>p DEF OutUnmixed, Built
<1>7. ArriveUnmixed'
  <2>1. CASE run.row = "arrive"
    <3>1. Moving' = Moving BY <1>0 DEF Moving
    <3> PICK a : a = Moving.who OBVIOUS
    <3>2. \A i \in Rest : root.has[i] \in Unowned BY <1>0, <1>i, <2>1 DEF ArriveUnmixed
    <3>3. \A i \in Rest : root'.has[i] \in Beside(a)' BY <1>0, <3>2, BesideMore
    <3>4. (Beside(Moving.who))' = Beside(a)' BY <3>1 DEF Beside
    <3> QED BY <1>2, <1>p, <1>x, <2>1, <3>1, <3>3, <3>4 DEF ArriveUnmixed
  <2>2. CASE run.row = "settingAside" BY <1>p, <1>2, <2>2 DEF ArriveUnmixed
  <2> QED BY <1>r, <2>1, <2>2
<1> QED BY <1>0, <1>d, <1>i, <1>2, <1>3, <1>4, <1>5, <1>6, <1>7, WorkMixes

\* A park whose manifest lists what it holds of a move.
LEMMA HoldsUnmixed ==
  ASSUME TypeOK, MovePark, MixData, Moving # NoMove, folders[Moving.park].manifest # None,
         HoldsWhatIsThere(Moving.park, Moving.items), UNCHANGED <<saved, ended>>
  PROVE  /\ \A n \in Names : Stays(n) \/ FolderUnmixed(n)'
         /\ folders'[Moving.park].has = folders[Moving.park].has
<1>t. Moving.park \in Names BY MoveTyped
<1> PICK n, is, a : n = Moving.park /\ is = HeldItems(Moving.park, Moving.items) /\ a = Moving.who OBVIOUS
<1>g. PICK g : g = folders[n] OBVIOUS
<1>1. g \in Folders /\ g.manifest \in Manifests
  <2>1. g \in Folders BY <1>t, <1>g DEF TypeOK
  <2> QED BY <1>g, <2>1 DEF Folders
<1>k. PICK k : k = [g.manifest EXCEPT !.items = is] OBVIOUS
<1>3. k.account = a /\ k.items = is
  <2>1. g.manifest.account = a BY <1>g DEF MovePark
  <2> QED BY <1>1, <1>k, <2>1 DEF Manifests
<1>f. PICK f : f = [g EXCEPT !.manifest = k] OBVIOUS
<1>5. f.manifest = k /\ f.has = g.has BY <1>1, <1>f DEF Folders
<1>6. folders' = [folders EXCEPT ![n] = f]
  <2>1. folders' = [folders EXCEPT ![n].manifest.items = is] BY DEF HoldsWhatIsThere
  <2> QED BY <2>1, <1>f, <1>k, <1>g
<1>7. folders'[n] = f /\ \A o \in Names : o # n => folders'[o] = folders[o] BY <1>6, <1>t DEF TypeOK
<1>8. FolderUnmixed(n)'
  <2>1. \A i \in Rest : i \in is => f.has[i] \in Beside(a)
    BY <1>5, <1>g DEF MixData, MoveUnmixed, HeldItems
  <2>2. (Beside(a))' = Beside(a) BY DEF Beside
  <2>3. (Beside(folders[n].manifest.account))' = Beside(a) BY <1>3, <1>5, <1>7, <2>2 DEF Beside
  <2> QED BY <1>3, <1>5, <1>7, <2>1, <2>3 DEF FolderUnmixed
<1>9. \A o \in Names : o # n => Stays(o) BY <1>7 DEF Stays
<1> QED BY <1>5, <1>7, <1>8, <1>9, <1>g

\* A park checked: what is still in the app's folder is in none of what was to be moved.
LEMMA VerifyMixes ==
  ASSUME Inv, Mix, Verify, UNCHANGED ended
  PROVE  Mix'
<1>i. TypeOK /\ MovePark /\ MixData /\ LeaveUnmixed BY DEF Inv, Data, Mix, MixRun
<1>0. pc = "verify" /\ UNCHANGED <<root, saved>> BY DEF Verify, Unmoved, disk
<1>d. pc \in Doing BY <1>0 DEF Doing, Fallible
<1>r. Moving # NoMove
  BY <1>0, <1>d, RowAt DEF Rows, OfLeave, OfArrive, OfKeysBack, OfLeaveOn, OfBack, OfGiveUp, OfKeysAside, OfStart, Built
<1>1. CASE Failed /\ Unmoved BY <1>1, <1>i, <1>d, FailedMixes DEF Unmoved, disk
<1>2. CASE /\ Advance /\ folders[Moving.park].manifest # None /\ HoldsWhatIsThere(Moving.park, Moving.items)
           /\ (Moving.items \ {Jar}) \cap Present \subseteq HeldItems(Moving.park, Moving.items \ {Jar})
  <2>1. run' = run /\ pc' \in {"finishAside", "midway"}
    BY <1>0, <1>2, AfterIs DEF Advance, Goes
  <2>2. /\ \A n \in Names : Stays(n) \/ FolderUnmixed(n)'
        /\ folders'[Moving.park].has = folders[Moving.park].has
    BY <1>0, <1>2, <1>i, <1>r, HoldsUnmixed
  <2>m. Moving' = Moving BY <1>0 DEF Moving
  <2>3. MixData' BY <1>0, <1>i, <1>r, <2>2, <2>m, MixStays
  <2>4. ArriveUnmixed' /\ OutUnmixed' BY <2>1 DEF ArriveUnmixed, OutUnmixed, Built
  <2>5. LeaveUnmixed'
    <3>1. SUFFICES ASSUME run.op = "switch", run.half = "leave", NEW i \in Rest
                   PROVE  root.has[i] \in Unowned
      BY <1>0, <2>1 DEF LeaveUnmixed, Unowned
    <3>2. root.has[i] \in Unowned \/ (i \in Moving.items /\ folders[Moving.park].has[i] = None)
      BY <1>d, <1>i, <1>r, <3>1 DEF LeaveUnmixed
    <3>3. ASSUME i \in Moving.items, folders[Moving.park].has[i] = None PROVE root.has[i] = None
      <4>1. i \notin HeldItems(Moving.park, Moving.items \ {Jar}) BY <3>3 DEF HeldItems, InFolder
      <4>2. i \notin Present BY <1>2, <3>3, <4>1 DEF Rest
      <4> QED BY <4>2, Constant DEF Present, InRoot
    <3> QED BY <3>2, <3>3 DEF Unowned
  <2> QED BY <2>3, <2>4, <2>5 DEF Mix, MixRun
<1> QED BY <1>1, <1>2 DEF Verify

\* The park of a move given up.
LEMMA HoldMixes ==
  ASSUME Inv, Mix, Hold
  PROVE  Mix'
<1>i. TypeOK /\ MovePark /\ MixData BY DEF Inv, Data, Mix
<1>0. pc = "hold" /\ UNCHANGED <<root, saved, ended>> BY DEF Hold
<1>d. pc \in Doing BY <1>0 DEF Doing, Fallible
<1>r. run.row = "giveUp" /\ Moving # NoMove
  BY <1>0, <1>d, RowAt DEF Rows, OfLeave, OfArrive, OfKeysBack, OfLeaveOn, OfBack, OfGiveUp, OfKeysAside, OfStart, Built
<1> PICK n : n = Moving.park OBVIOUS
<1>s. \/ Failed /\ UNCHANGED folders
      \/ Advance /\ UNCHANGED folders
      \/ Advance /\ folders[n].manifest # None /\ HoldsWhatIsThere(n, Moving.items)
  <2> PICK m, f : m = Moving /\ f = folders[m.park] OBVIOUS
  <2>1. CASE f.has[Jar] # m.login BY <2>1 DEF Hold
  <2>2. CASE f.has[Jar] = m.login /\ f.manifest # None BY <2>2 DEF Hold
  <2>3. CASE f.has[Jar] = m.login /\ f.manifest = None BY <2>3 DEF Hold
  <2> QED BY <2>1, <2>2, <2>3
<1>1. CASE Failed /\ UNCHANGED folders BY <1>0, <1>d, <1>1, <1>i, FailedMixes
<1>2. ASSUME Advance, \A o \in Names : Stays(o) \/ FolderUnmixed(o)', folders'[n].has = folders[n].has
      PROVE Mix'
  <2>1. run' = run /\ pc' = "midway" BY <1>0, <1>2, AfterIs DEF Advance, Goes
  <2>2. ArriveUnmixed' /\ OutUnmixed' BY <2>1 DEF ArriveUnmixed, OutUnmixed, Built
  <2>3. pc' \in Doing BY <2>1 DEF Doing
  <2> QED BY <1>0, <1>d, <1>i, <1>r, <1>2, <2>1, <2>2, <2>3, WorkMixes
<1>3. CASE Advance /\ UNCHANGED folders
  <2>1. \A o \in Names : Stays(o) BY <1>3 DEF Stays
  <2> QED BY <1>2, <1>3, <2>1
<1>4. CASE Advance /\ folders[n].manifest # None /\ HoldsWhatIsThere(n, Moving.items)
  BY <1>0, <1>2, <1>4, <1>i, <1>r, HoldsUnmixed
<1> QED BY <1>s, <1>1, <1>3, <1>4

\* What stays in the app's folder listed.
LEMMA ListLeftMixes ==
  ASSUME Inv, Mix, ListLeft
  PROVE  Mix'
<1>i. TypeOK BY DEF Inv
<1>0. pc = "left" /\ UNCHANGED <<root, saved, ended>>
  BY DEF ListLeft, Unmoved, disk, InFolders
<1>d. pc \in Doing BY <1>0 DEF Doing, Fallible
<1>r. run.row = "giveUp" /\ Moving # NoMove
  BY <1>0, <1>d, RowAt DEF Rows, OfLeave, OfArrive, OfKeysBack, OfLeaveOn, OfBack, OfGiveUp, OfKeysAside, OfStart, Built
<1> PICK n : n = Moving.park OBVIOUS
<1>1. CASE Failed /\ Unmoved BY <1>0, <1>d, <1>1, <1>i, FailedMixes DEF Unmoved, disk
<1>2. CASE /\ Advance /\ folders[n].manifest # None
           /\ InFolders(n, [folders[n] EXCEPT !.manifest.left = run.list])
  <2>1. run' = run /\ pc' = "hold" BY <1>0, <1>2, AfterIs DEF Advance, Goes
  <2>t. n \in Names BY <1>i, <1>r, MoveTyped
  <2> PICK g, left : g = folders[n] /\ left = run.list OBVIOUS
  <2> PICK k : k = [g.manifest EXCEPT !.left = left] OBVIOUS
  <2> PICK f : f = [g EXCEPT !.manifest = k] OBVIOUS
  <2>g. g \in Folders /\ g.manifest \in Manifests
    <3>1. g \in Folders BY <2>t, <1>i DEF TypeOK
    <3> QED BY <1>2, <3>1 DEF Folders
  <2>k. k.account = g.manifest.account /\ k.login = g.manifest.login /\ k.items = g.manifest.items
    BY <2>g DEF Manifests
  <2>f. f.manifest = k /\ f.has = g.has BY <2>g DEF Folders
  <2>2. folders' = [folders EXCEPT ![n] = f] BY <1>2 DEF InFolders
  <2>3. folders'[n] = f /\ \A o \in Names : o # n => folders'[o] = folders[o]
    BY <2>2, <2>t, <1>i DEF TypeOK
  <2>4. \A o \in Names : Stays(o)
    <3>1. Stays(n) BY <1>2, <2>k, <2>f, <2>3 DEF Stays
    <3>2. \A o \in Names : o # n => Stays(o) BY <2>3 DEF Stays
    <3> QED BY <3>1, <3>2
  <2>5. folders'[n].has = folders[n].has BY <2>f, <2>3
  <2>6. ArriveUnmixed' /\ OutUnmixed' BY <2>1 DEF ArriveUnmixed, OutUnmixed, Built
  <2>7. pc' \in Doing BY <2>1 DEF Doing, Fallible
  <2> QED BY <1>0, <1>d, <1>i, <1>r, <2>1, <2>4, <2>5, <2>6, <2>7, WorkMixes
<1> QED BY <1>1, <1>2 DEF ListLeft

\* Any step, failed.
LEMMA StepFailsMix ==
  ASSUME Inv, Mix, StepFails
  PROVE  Mix'
<1>1. /\ TypeOK /\ Failed /\ UNCHANGED <<root, folders, saved>> /\ ended' = ended
      /\ pc \in Doing
  BY DEF StepFails, Unmoved, disk, Inv, Doing
<1> QED BY <1>1, FailedMixes

\* The look after the last write.
LEMMA MidwayMixes ==
  ASSUME Inv, Mix, Midway
  PROVE  Mix'
<1>i. TypeOK /\ LeaveUnmixed BY DEF Inv, Mix, MixRun
<1>0. pc = "midway" /\ pc \in Doing /\ UNCHANGED <<root, folders, saved, ended>>
  BY DEF Midway, disk, Doing
<1>1. CASE End BY <1>0, <1>1, EndsMix
<1>2. CASE Advance
  <2>1. run' = run /\ pc' = After BY <1>2 DEF Advance, Goes
  <2>p. pc' = IF run.row \in {"leave", "leaveOn"} THEN "commitLeave"
              ELSE IF run.row = "arrive" THEN "commitArrive"
              ELSE IF run.row = "giveUp" THEN "givenUp"
              ELSE IF run.row = "start" THEN "started" ELSE "undone"
    BY <1>0, <2>1, AfterIs
  <2>2. CASE run.row \in {"leave", "leaveOn"}
    <3>1. MixData' BY <1>0, MixSame DEF Mix
    <3>2. ArriveUnmixed' /\ OutUnmixed' BY <2>2, <2>p DEF ArriveUnmixed, OutUnmixed, Built
    <3>3. LeaveUnmixed' BY <1>0, <1>i, <2>1, <2>2 DEF LeaveUnmixed, Moving, Unowned
    <3> QED BY <3>1, <3>2, <3>3 DEF Mix, MixRun
  <2>3. CASE run.row \notin {"leave", "leaveOn"}
    BY <1>0, <2>p, <2>3, PlainMixes
  <2> QED BY <2>2, <2>3
<1> QED BY <1>1, <1>2 DEF Midway

-----------------------------------------------------------------------------
(* The items moved. *)

\* What is moved out into the park of a move is of its account's login, or was beside no session.
LEMMA OutIsOwned ==
  ASSUME Inv, Owned, Mix, pc = "out", run.to = Moving.park
  PROVE  /\ root.has[Jar] \in {None, NoSession, Moving.login} /\ run.items \subseteq Moving.items
         /\ \A i \in Rest : /\ root.has[Jar] = Moving.login => root.has[i] \in Beside(Moving.who)
                            /\ i \in run.items /\ folders[Moving.park].has[i] = None =>
                                 root.has[i] \in Beside(Moving.who)
<1>i. TypeOK /\ OwnData /\ RowOwned /\ MixData /\ OutUnmixed BY DEF Inv, Owned, OwnRun, Mix, MixRun
<1>d. pc \in Doing /\ pc \in Built BY DEF Doing, Fallible, Built
<1>o. /\ Moving # NoMove /\ run.row \in Rows \ {"keysBack", "start"}
      /\ run.row \notin {"arrive", "settingAside", "giveUp"}
  BY OutWhere
<1>1. root.has[Jar] \in {None, NoSession, Moving.login}
  <2>1. run.row \in {"leave", "leaveOn"} => root.has[Jar] \in {Moving.login, None, NoSession}
    BY <1>d, <1>i DEF RowOwned
  <2>2. run.row = "backAside" => root.has[Jar] = None BY <1>d, <1>i DEF RowOwned
  <2>3. run.row = "keysAside" => root.has[Jar] \in {None, Moving.login}
    BY <1>d, RowAt DEF OfKeysAside
  <2>4. run.row = "back" => root.has[Jar] \in {None, NoSession, Moving.login} BY <1>i DEF OutUnmixed
  <2> QED BY <1>o, <2>1, <2>2, <2>3, <2>4 DEF Rows
<1>2. run.items \subseteq Moving.items BY <1>d, <1>o, <1>i DEF OutUnmixed, Rows
<1>3. Owner[Moving.login] = Moving.who /\ Moving.login \in Sessions
  BY <1>i, <1>o, MoveTyped DEF OwnData, MoveOwned
<1>4. ASSUME NEW i \in Rest, root.has[Jar] = Moving.login PROVE root.has[i] \in Beside(Moving.who)
  BY <1>3, <1>4, <1>i DEF MixData, RootUnmixed
<1>5. ASSUME NEW i \in Rest, i \in run.items, folders[Moving.park].has[i] = None
      PROVE  root.has[i] \in Beside(Moving.who)
  <2>1. CASE root.has[Jar] = Moving.login BY <1>4, <2>1
  <2>2. CASE root.has[Jar] # Moving.login
    <3>1. NoLogin BY <1>1, <2>2, SessionsApart DEF NoLogin
    <3> QED BY <1>2, <1>5, <1>o, <1>i, <3>1 DEF MixData, MoveUnmixed
  <2> QED BY <2>1, <2>2
<1> QED BY <1>1, <1>2, <1>4, <1>5

\* An item moved out.
LEMMA MoveOutMixes ==
  ASSUME Inv, Owned, Mix, MoveOut, UNCHANGED ended
  PROVE  Mix'
<1>i. /\ TypeOK /\ OwnData /\ RowOwned /\ Apart(saved) /\ MovePark
      /\ MixData /\ ArriveUnmixed /\ OutUnmixed /\ LeaveUnmixed
  BY DEF Inv, Data, Owned, OwnRun, Mix, MixRun
<1>0. pc = "out" /\ UNCHANGED saved BY DEF MoveOut, Unmoved, disk
<1>d. pc \in Doing /\ pc \in Built BY <1>0 DEF Doing, Fallible, Built
<1>o. /\ Moving # NoMove /\ run.row \in Rows \ {"keysBack", "start"}
      /\ run.to \in Names /\ MoveHolds(saved, run.to) /\ folders[run.to].made
      /\ run.row \in {"arrive", "settingAside", "giveUp"} => run.to # Moving.park
  BY <1>0, OutWhere
<1>m. Moving' = Moving BY <1>0 DEF Moving
<1>w. /\ run.row = "arrive" => NoLogin
      /\ run.row = "settingAside" => root.has[Jar] = None
      /\ run.row = "giveUp" => Jar \notin run.items
  BY <1>0, <1>d, <1>i DEF RowOwned
<1>x. run.row \in {"leave", "leaveOn", "back", "backAside", "keysAside"} => run.to = Moving.park
  BY <1>0, <1>d, RowAt DEF OfLeave, OfLeaveOn, OfBack, OfKeysAside
<1> PICK n, i : n = run.to /\ i = First(run.items) OBVIOUS
<1> PICK p, who : p = Moving.park /\ who = Moving.who OBVIOUS
<1> PICK is : is = run.items \ {i} OBVIOUS
<1>r. root \in [has : Holding, keys : Keys] /\ run.items \in SUBSET ItemSet
  BY <1>i DEF TypeOK, Runs
<1>t. p \in Names BY <1>o, <1>i, MoveTyped
<1>b. (Beside(who))' = Beside(who) BY DEF Beside
<1>u. Unowned' = Unowned BY DEF Unowned
<1>1. CASE run.items = {}
  <2>1. pc' = After /\ run' = run /\ UNCHANGED <<root, folders>>
    BY <1>0, <1>1 DEF MoveOut, Advance, Goes, Unmoved, disk
  <2>2. pc' = IF run.row \in {"arrive", "settingAside"} THEN "forgetLeft"
              ELSE IF run.row = "giveUp" THEN "hold" ELSE "verify"
    BY <1>0, <2>1, AfterIs
  <2>3. pc' \in Doing /\ pc' # "midway" BY <2>2 DEF Doing, Fallible
  <2>4. OutUnmixed' BY <2>2 DEF OutUnmixed, Built
  <2>5. ArriveUnmixed'
    <3>1. run.row = "arrive" => \A j \in Rest : root'.has[j] \in Unowned'
      BY <1>0, <1>1, <1>i, <1>u, <2>1 DEF ArriveUnmixed
    <3> QED BY <2>1, <2>2, <3>1 DEF ArriveUnmixed
  <2> QED BY <1>0, <1>d, <1>i, <2>1, <2>3, <2>4, <2>5, QuietMixes
<1>2. CASE run.items # {}
  <2>i. i \in run.items /\ i \in ItemSet BY <1>2, <1>r, FirstIs
  <2>0. pc' = "out" /\ run' = [run EXCEPT !.items = is]
    <3>1. OneMoved BY <1>2 DEF MoveOut
    <3> QED BY <1>0, <3>1 DEF OneMoved
  <2>7. /\ run'.op = run.op /\ run'.half = run.half /\ run'.row = run.row /\ run'.to = n
        /\ run'.items = is /\ is \subseteq run.items
    BY <2>0, <1>i DEF TypeOK, Runs
  <2>o. ASSUME root'.has[Jar] \in {root.has[Jar], None} PROVE OutUnmixed'
    BY <1>0, <1>d, <1>i, <1>m, <2>0, <2>7, <2>o DEF OutUnmixed, Built
  <2>a. CASE UNCHANGED <<root, folders>> /\ (root.has[i] = None \/ folders[n].has[i] # None)
    <3>1. OutUnmixed' BY <2>a, <2>o
    <3>2. ArriveUnmixed'
      <4>1. SUFFICES ASSUME run.row = "arrive", NEW j \in Rest
                     PROVE  IF j \in is THEN folders[n].has[j] = None ELSE root.has[j] \in Unowned
        BY <1>u, <2>0, <2>7, <2>a DEF ArriveUnmixed
      <4>2. IF j \in run.items THEN folders[n].has[j] = None ELSE root.has[j] \in Unowned
        BY <1>0, <1>i, <4>1 DEF ArriveUnmixed
      <4> QED BY <2>a, <2>i, <4>2 DEF Unowned
    <3>3. pc' \in Doing BY <1>0, <1>d, <2>0
    <3> QED BY <1>0, <1>d, <1>i, <2>0, <2>7, <2>a, <3>1, <3>2, <3>3, QuietMixes
  <2>b. CASE ~(UNCHANGED <<root, folders>> /\ (root.has[i] = None \/ folders[n].has[i] # None))
    <3>0. /\ folders' = [folders EXCEPT ![n].has[i] = root.has[i]]
          /\ root' = [root EXCEPT !.has[i] = None]
          /\ folders[n].has[i] = None
      BY <1>2, <2>b DEF MoveOut, Unmoved, disk, InFolder, InRoot
    <3>g. PICK g, v : g = folders[n] /\ v = root.has[i] OBVIOUS
    <3>f. PICK f : f = [g EXCEPT !.has[i] = v] OBVIOUS
    <3>1. g \in Folders /\ g.made /\ v \in Sessions \cup Accounts \cup {NoSession, Fresh, None}
      BY <1>o, <1>r, <2>i, <3>g, <1>i DEF TypeOK, Holding
    <3>2. f.manifest = g.manifest /\ f.has = [g.has EXCEPT ![i] = v]
      BY <3>1, <3>f, <2>i DEF Folders, Holding
    <3>3. folders' = [folders EXCEPT ![n] = f] BY <3>0, <3>f, <3>g
    <3>4. folders'[n] = f /\ \A o \in Names : o # n => folders'[o] = folders[o]
      BY <1>o, <1>i, <3>3 DEF TypeOK
    <3>h. g.has \in Holding /\ root.has \in Holding BY <1>r, <3>1 DEF Folders
    <3>5. \A j \in ItemSet : root'.has[j] = IF j = i THEN None ELSE root.has[j]
      BY <3>0, <3>h, <1>r DEF Holding
    <3>6. \A j \in ItemSet : f.has[j] = IF j = i THEN v ELSE folders[n].has[j]
      BY <3>2, <3>g, <3>h DEF Holding
    <3>7. /\ root'.has[Jar] \in {root.has[Jar], None}
          /\ \A j \in Rest : root'.has[j] \in {root.has[j], None}
      BY <3>5, Constant
    <3>8. n = p => \A j \in Rest : j \in run.items /\ folders[p].has[j] = None => root.has[j] \in Beside(who)
      BY <1>0, OutIsOwned
    <3>9. /\ RootUnmixed'
          /\ \A o \in Names : FolderUnmixed(o)'
          /\ MoveUnmixed'
      <4>1. RootUnmixed'
        <5> PICK a : a = Owner[root.has[Jar]] OBVIOUS
        <5>1. root.has[Jar] \in Sessions => \A j \in Rest : root.has[j] \in Beside(a)
          BY <1>i DEF MixData, RootUnmixed
        <5>2. (Beside(a))' = Beside(a) /\ None \in Beside(a) BY DEF Beside
        <5>3. root'.has[Jar] \in Sessions => root'.has[Jar] = root.has[Jar] BY <3>7, SessionsApart
        <5>4. root'.has[Jar] \in Sessions => \A j \in Rest : root'.has[j] \in Beside(a)'
          BY <3>7, <5>1, <5>2, <5>3
        <5>5. root'.has[Jar] \in Sessions => (Beside(Owner[root.has[Jar]]))' = Beside(a)'
          BY <5>3 DEF Beside
        <5> QED BY <5>4, <5>5 DEF RootUnmixed
      <4>2. ASSUME NEW o \in Names PROVE FolderUnmixed(o)'
        <5>1. CASE o # n
          <6>1. Stays(o) BY <3>4, <5>1 DEF Stays
          <6> QED BY <1>i, <6>1, FolderStays DEF MixData
        <5>2. CASE o = n /\ n # p
          <6>1. n \in Moving.asides BY <1>o, <5>2 DEF MoveHolds, Moving
          <6>2. folders[n].manifest # None => folders[n].manifest.login = None
            BY <1>i, <1>o, <6>1 DEF OwnData, MoveOwned
          <6>3. folders'[o].manifest = None \/ folders'[o].manifest.login = None
            BY <3>2, <3>4, <3>g, <5>2, <6>2
          <6> QED BY <6>3, FolderPlain
        <5>3. CASE o = n /\ n = p
          <6>1. folders[p].manifest # None => folders[p].manifest.account = who
            BY <1>i, <1>o DEF MovePark
          <6>2. folders[p].manifest # None /\ folders[p].manifest.login # None =>
                  \A j \in Rest : j \in folders[p].manifest.items => folders[p].has[j] \in Beside(who)
            BY <1>i, <1>t, <6>1 DEF MixData, FolderUnmixed
          <6>3. i \in Rest => v \in Beside(who) BY <2>i, <3>0, <3>8, <3>g, <5>3
          <6>4. folders'[p].manifest = folders[p].manifest BY <3>2, <3>4, <3>g, <5>3
          <6>5. \A j \in Rest : folders'[p].has[j] = IF j = i THEN v ELSE folders[p].has[j]
            BY <3>4, <3>6, <5>3, Constant
          <6>6. folders[p].manifest # None => (Beside(folders[p].manifest.account))' = Beside(who)
            BY <6>1, <6>4, <1>b DEF Beside
          <6>7. folders'[p].manifest # None /\ folders'[p].manifest.login # None =>
                  \A j \in Rest : j \in folders'[p].manifest.items => folders'[p].has[j] \in Beside(who)
            BY <6>2, <6>3, <6>4, <6>5
          <6>8. FolderUnmixed(p)' BY <6>4, <6>6, <6>7 DEF FolderUnmixed
          <6> QED BY <5>3, <6>8
        <5> QED BY <5>1, <5>2, <5>3
      <4>3. MoveUnmixed'
        <5>1. \A j \in Rest : j \in Moving.items =>
                /\ folders[p].has[j] \in Beside(who)
                /\ NoLogin /\ folders[p].has[j] = None => root.has[j] \in Beside(who)
          BY <1>i, <1>o DEF MixData, MoveUnmixed
        <5>2. ASSUME NEW j \in Rest, j \in Moving.items PROVE folders'[p].has[j] \in Beside(who)
          <6>1. CASE n # p BY <1>t, <3>4, <5>1, <5>2, <6>1
          <6>2. CASE n = p BY <2>i, <3>0, <3>4, <3>6, <3>8, <3>g, <5>1, <5>2, <6>2, Constant
          <6> QED BY <6>1, <6>2
        <5>3. ASSUME NEW j \in Rest, j \in Moving.items, NoLogin', folders'[p].has[j] = None
              PROVE  root'.has[j] \in Beside(who)
          <6>0. None \in Beside(who) BY DEF Beside
          <6>1. CASE root'.has[j] = None BY <6>0, <6>1
          <6>2. CASE root'.has[j] # None
            <7>1. j # i /\ root'.has[j] = root.has[j] BY <3>5, <6>2, Constant
            <7>2. folders[p].has[j] = None
              BY <1>t, <3>4, <3>6, <5>3, <7>1, Constant
            <7>3. CASE NoLogin BY <5>1, <5>3, <7>1, <7>2, <7>3
            <7>4. CASE ~NoLogin
              <8>1. i = Jar BY <3>5, <5>3, <7>4, Constant DEF NoLogin
              <8>2. n = p BY <1>o, <1>w, <1>x, <2>i, <7>4, <8>1, SessionsApart DEF NoLogin, Rows
              <8>3. root.has[Jar] = Moving.login
                <9>1. root.has[Jar] \in {None, NoSession, Moving.login} BY <1>0, <8>2, OutIsOwned
                <9> QED BY <7>4, <9>1, SessionsApart DEF NoLogin
              <8> QED BY <1>0, <7>1, <8>2, <8>3, OutIsOwned
            <7> QED BY <7>3, <7>4
          <6> QED BY <6>1, <6>2
        <5>4. (Beside(Moving.who))' = Beside(who) BY <1>m, <1>b DEF Beside
        <5> QED BY <1>m, <5>2, <5>3, <5>4 DEF MoveUnmixed
      <4> QED BY <4>1, <4>2, <4>3
    <3>10. OutUnmixed' BY <2>o, <3>7
    <3>11. ArriveUnmixed'
      <4>1. SUFFICES ASSUME run.row = "arrive", NEW j \in Rest
                     PROVE  IF j \in is THEN folders'[n].has[j] = None ELSE root'.has[j] \in Unowned
        BY <1>u, <2>0, <2>7 DEF ArriveUnmixed
      <4>2. IF j \in run.items THEN folders[n].has[j] = None ELSE root.has[j] \in Unowned
        BY <1>0, <1>i, <4>1 DEF ArriveUnmixed
      <4>3. j = i => j \notin is /\ root'.has[j] = None BY <3>5, Constant
      <4>4. j # i => /\ root'.has[j] = root.has[j] /\ folders'[n].has[j] = folders[n].has[j]
                     /\ j \in is <=> j \in run.items
        BY <3>4, <3>5, <3>6, Constant
      <4> QED BY <4>2, <4>3, <4>4 DEF Unowned
    <3>12. LeaveUnmixed'
      <4>1. \A j \in Rest : \/ root'.has[j] \in {None, Fresh}
                            \/ root'.has[j] = root.has[j] /\ folders'[p].has[j] = folders[p].has[j]
        BY <1>t, <3>4, <3>5, <3>6, Constant
      <4> QED BY <1>d, <1>i, <1>m, <2>0, <2>7, <4>1, LeaveStays
    <3> QED BY <3>9, <3>10, <3>11, <3>12 DEF Mix, MixData, MixRun
  <2> QED BY <2>a, <2>b
<1> QED BY <1>1, <1>2

\* An item moved in: what is in the park of an arrive is its account's, and what is left beside it.
LEMMA MoveInMixes ==
  ASSUME Inv, Owned, Mix, MoveIn, UNCHANGED ended
  PROVE  Mix'
<1>i. TypeOK /\ OwnData /\ RowOwned /\ MovePark /\ MixData /\ ArriveUnmixed
  BY DEF Inv, Data, Owned, OwnRun, Mix, MixRun
<1>0. pc = "in" /\ UNCHANGED saved BY DEF MoveIn, Unmoved, disk
<1>d. pc \in Doing BY <1>0 DEF Doing, Fallible
<1>r. run.row = "arrive" /\ run.half = "arrive" /\ Moving # NoMove
  BY <1>0, <1>d, RowAt DEF Rows, OfLeave, OfArrive, OfKeysBack, OfLeaveOn, OfBack, OfGiveUp, OfKeysAside, OfStart
<1>w. NoLogin \/ root.has[Jar] = Moving.login BY <1>0, <1>d, <1>r, <1>i DEF RowOwned
<1>m. Moving' = Moving BY <1>0 DEF Moving
<1>t. Moving.park \in Names /\ Moving.login \in Sessions BY <1>i, <1>r, MoveTyped
<1>l. Owner[Moving.login] = Moving.who BY <1>i, <1>r DEF OwnData, MoveOwned
<1> PICK n, i, who : n = Moving.park /\ i = Final(run.items) /\ who = Moving.who OBVIOUS
<1> PICK is : is = run.items \ {i} OBVIOUS
<1>q. root \in [has : Holding, keys : Keys] /\ run.items \in SUBSET ItemSet
  BY <1>i DEF TypeOK, Runs
<1>b. (Beside(who))' = Beside(who) /\ None \in Beside(who) BY DEF Beside
<1>c. (Beside(Moving.who))' = Beside(who) BY <1>m, <1>b DEF Beside
<1>a. run.items \subseteq Moving.items /\ \A j \in Rest : root.has[j] \in Beside(who)
  BY <1>0, <1>r, <1>i DEF ArriveUnmixed
<1>1. CASE run.items = {}
  <2>1. /\ pc' = "put" /\ run' = run /\ UNCHANGED <<root, folders>>
    BY <1>0, <1>1, AfterIs DEF MoveIn, Advance, Goes, Unmoved, disk
  <2>3. pc' \in Doing BY <2>1 DEF Doing, Fallible
  <2>4. ArriveUnmixed' /\ OutUnmixed' BY <2>1 DEF ArriveUnmixed, OutUnmixed, Built
  <2> QED BY <1>0, <1>d, <1>i, <2>1, <2>3, <2>4, QuietMixes
<1>2. CASE Failed /\ UNCHANGED <<root, folders>>
  BY <1>0, <1>d, <1>2, <1>i, FailedMixes
<1>3. CASE run.items # {} /\ ~(Failed /\ UNCHANGED <<root, folders>>)
  <2>i. i \in run.items /\ i \in ItemSet BY <1>3, <1>q, FirstIs
  <2>0. /\ OneMoved
        /\ root' = [root EXCEPT !.has[i] = folders[n].has[i]]
        /\ folders' = [folders EXCEPT ![n].has[i] = None]
    BY <1>3 DEF MoveIn, Unmoved, disk
  <2>p. pc' = "in" BY <1>0, <2>0 DEF OneMoved
  <2>x. run' = [run EXCEPT !.items = is] BY <1>0, <2>0 DEF OneMoved
  <2>7. run'.half = run.half /\ run'.row = run.row /\ run'.items = is
    BY <2>x, <1>i DEF TypeOK, Runs
  <2>g. PICK g, v : g = folders[n] /\ v = folders[n].has[i] OBVIOUS
  <2>f. PICK f : f = [g EXCEPT !.has[i] = None] OBVIOUS
  <2>1. g \in Folders /\ n \in Names BY <1>t, <2>g, <1>i DEF TypeOK
  <2>2. f.manifest = g.manifest /\ f.has = [g.has EXCEPT ![i] = None]
    BY <2>1, <2>f DEF Folders
  <2>3. folders' = [folders EXCEPT ![n] = f] BY <2>0, <2>f, <2>g
  <2>5. folders'[n] = f /\ \A o \in Names : o # n => folders'[o] = folders[o]
    BY <2>1, <2>3, <1>i DEF TypeOK
  <2>h. g.has \in Holding /\ root.has \in Holding BY <1>q, <2>1 DEF Folders
  <2>8. \A j \in ItemSet : root'.has[j] = IF j = i THEN v ELSE root.has[j]
    BY <2>0, <2>g, <2>h, <1>q DEF Holding
  <2>9. \A j \in ItemSet : f.has[j] = IF j = i THEN None ELSE g.has[j]
    BY <2>2, <2>h, Constant DEF Holding
  <2>v. \A j \in Rest : j \in Moving.items => g.has[j] \in Beside(who)
    BY <1>r, <1>i, <2>g DEF MixData, MoveUnmixed
  <2>k. \A j \in Rest : root'.has[j] \in Beside(who)
    BY <1>a, <2>8, <2>i, <2>v, <2>g, Constant
  <2>10. RootUnmixed'
    <3>1. g.has[Jar] \in {None, Moving.login} BY <1>i, <1>r, <2>g DEF MovePark
    <3>2. root'.has[Jar] \in Sessions => root'.has[Jar] = Moving.login
      BY <1>w, <2>8, <2>g, <3>1, SessionsApart, Constant DEF NoLogin
    <3>3. root'.has[Jar] \in Sessions => (Beside(Owner[root.has[Jar]]))' = Beside(who)
      BY <3>2, <1>l, <1>b DEF Beside
    <3> QED BY <2>k, <3>3 DEF RootUnmixed
  <2>11. \A o \in Names : FolderUnmixed(o)'
    <3>1. \A o \in Names : o # n => Stays(o) BY <2>5 DEF Stays
    <3>2. \A o \in Names : o # n => FolderUnmixed(o)' BY <1>i, <3>1, FolderStays DEF MixData
    <3>3. FolderUnmixed(n)'
      <4> PICK a : a = g.manifest.account OBVIOUS
      <4>1. g.manifest # None /\ g.manifest.login # None =>
              \A j \in Rest : j \in g.manifest.items => g.has[j] \in Beside(a)
        BY <1>i, <2>1, <2>g DEF MixData, FolderUnmixed
      <4>2. \A j \in Rest : f.has[j] \in {None, g.has[j]} BY <2>9, Constant
      <4>3. (Beside(folders[n].manifest.account))' = Beside(a) /\ None \in Beside(a)
        BY <2>2, <2>5 DEF Beside
      <4> QED BY <2>2, <2>5, <4>1, <4>2, <4>3 DEF FolderUnmixed
    <3> QED BY <3>2, <3>3
  <2>12. MoveUnmixed'
    <3>1. \A j \in Rest : j \in Moving.items => f.has[j] \in Beside(who)
      BY <1>b, <2>9, <2>v, Constant
    <3>2. folders'[Moving.park] = f BY <2>5
    <3> QED BY <1>c, <1>m, <2>k, <3>1, <3>2 DEF MoveUnmixed
  <2>13. ArriveUnmixed' BY <1>a, <1>c, <1>m, <2>7, <2>k, <2>p DEF ArriveUnmixed
  <2>14. OutUnmixed' BY <2>p DEF OutUnmixed, Built
  <2>15. LeaveUnmixed' BY <1>r, <2>7 DEF LeaveUnmixed
  <2> QED BY <2>10, <2>11, <2>12, <2>13, <2>14, <2>15 DEF Mix, MixData, MixRun
<1> QED BY <1>1, <1>2, <1>3

\* Each step of a move.
LEMMA WorkStepMixes ==
  ASSUME Inv, Owned, Mix, WorkStep
  PROVE  Mix'
<1>1. UNCHANGED ended BY DEF WorkStep
<1> QED BY <1>1, BuildsMix, KeepMixes, ClearMixes, PutMixes, LooksMix, MoveOutMixes, MoveInMixes,
           ForgetLeftMixes, VerifyMixes DEF WorkStep

-----------------------------------------------------------------------------
(* The commits. *)

\* A commit's save that fails.
LEMMA CommitFailsMix ==
  ASSUME TypeOK, Mix, UNCHANGED <<root, saved, ended>>, End, ForgetsLeft \/ UNCHANGED folders
  PROVE  Mix'
<1>1. \A n \in Names : Alike(n) BY ForgetsOf
<1>2. Moving' = Moving BY DEF Moving
<1>3. MixData' BY <1>1, <1>2, MixAlike DEF Mix
<1> QED BY <1>3, EndMixes DEF Mix

\* A commit whose save is done: the move is over, and what follows it is of none.
LEMMA CommittedMixes ==
  ASSUME TypeOK, Mix, UNCHANGED <<root, ended>>, ForgetsLeft \/ UNCHANGED folders,
         Moving' = NoMove, MixRun'
  PROVE  Mix'
<1>1. \A n \in Names : Alike(n) BY ForgetsOf
<1> QED BY <1>1, MixAlike DEF Mix

\* What goes on to delete what a commit listed has no move any more.
LEMMA PurgeNextMixes ==
  ASSUME Inv, Inv', Mix, UNCHANGED <<root, folders, ended>>, pc # "purge", Goes("purge")
  PROVE  Mix'
<1>1. TypeOK BY DEF Inv
<1>2. pc' = "purge" /\ run' = run BY DEF Goes
<1>3. run.half # "done" BY DEF Inv, RunInv, Halves
<1>4. Moving' = NoMove BY <1>2, <1>3 DEF Inv, RunInv, Ops
<1>5. MixRun' BY <1>2, MixElsewhere DEF Doing, Fallible
<1> QED BY <1>1, <1>4, <1>5, CommittedMixes

\* A leave committed: a switch goes on to arrive in a folder the leave left nothing in.
LEMMA CommitLeaveMixes ==
  ASSUME Inv, Owned, Mix, CommitLeave
  PROVE  Mix'
<1>i. TypeOK /\ Data /\ OwnData /\ Halves BY DEF Inv, RunInv, Owned
<1>p. pc = "commitLeave" BY DEF CommitLeave
<1>c. /\ Moving # NoMove /\ Moving.half = "leave" /\ Whole(Moving.park, Moving.who, Moving.login)
      /\ run.on \in {"forward", "settle", "after"}
  BY <1>p DEF Inv, RunInv, Committing
<1>t. /\ Moving \in Moves /\ Moving.park \in Names /\ Moving.who \in Accounts
      /\ Moving.login \in Sessions
  BY <1>i, <1>c, MoveTyped
<1> DEFINE arrives == pc' = "record" /\ run' = [run EXCEPT !.half = "arrive", !.name = None, !.on = "forward"]
           kept == IF Moving.who \in saved.enrolled THEN Park(saved, Moving.who, Moving.park, Moving.login)
                   ELSE AddAside(saved, Moving.park, Moving.who, Moving.login)
           s == [Settled(Nobody(kept), Moving) EXCEPT !.awaiting = IF Moving.awaits THEN Moving.who ELSE @]
           then == IF run.on # "settle" /\ run.op = "switch" THEN arrives ELSE Continues
<1>0. Commits(s, TRUE, then) BY DEF CommitLeave
<1>u. UNCHANGED <<root, ended>> BY <1>0 DEF Commits
<1>1. CASE UNCHANGED <<saved, ran>> /\ End /\ (ForgetsLeft \/ UNCHANGED folders)
  BY <1>1, <1>i, <1>u, CommitFailsMix
<1>2. CASE saved' = s /\ then /\ ran' = FALSE /\ ForgetsLeft
  <2>k. PICK g : g = kept OBVIOUS
  <2>1. RecordOwned(g) /\ g \in Records
    <3>1. folders[Moving.park].has[Jar] = Moving.login BY <1>c DEF Whole
    <3>3. saved.parked[Moving.who] # None => ~MoveHolds(saved, saved.parked[Moving.who].name)
      <4> SUFFICES ASSUME saved.parked[Moving.who] # None
                   PROVE  ~MoveHolds(saved, saved.parked[Moving.who].name) OBVIOUS
      <4> PICK n : n = saved.parked[Moving.who].name OBVIOUS
      <4>1. IsPark(saved, Moving.who, n) /\ n \in Names BY <1>t, <1>i DEF IsPark, TypeOK, Records
      <4> QED BY <4>1, <1>c, <1>t, <1>i DEF Data, Apart, Moving
    <3> QED BY <1>c, <1>i, <2>k, <3>1, <3>3, ParksOwned
  <2>q. PICK q : q = Nobody(g) OBVIOUS
  <2>2. q \in Records BY <2>1, <2>q, NobodyOf
  <2>x. PICK x : x = IF Moving.awaits THEN Moving.who ELSE Settled(q, Moving).awaiting OBVIOUS
  <2>3. saved' = [Settled(q, Moving) EXCEPT !.awaiting = x] BY <1>2, <2>k, <2>q, <2>x
  <2>4. x \in Accounts \cup {None}
    <3>1. Settled(q, Moving) \in Records BY <2>2, <1>i, <1>t, SettledOf
    <3> QED BY <3>1, <2>x, <1>t DEF Records
  <2>5. saved'.moving = NoMove BY <1>i, <1>t, <2>2, <2>3, <2>4, SettledOf
  <2>6. Moving' = NoMove BY <2>5 DEF Moving
  <2>7. CASE Continues BY <1>2, <1>i, <1>u, <2>6, <2>7, ContinuesMix, CommittedMixes
  <2>8. CASE arrives /\ run.on # "settle" /\ run.op = "switch"
    <3>1. pc' = "record" /\ run'.half = "arrive" BY <2>8, <1>i DEF TypeOK, Runs
    <3>2. run.half = "leave"
      <4>1. run.half \in {"leave", "arrive", "keysAside"}
        BY <1>c, <1>i, <1>p, <2>8 DEF Halves
      <4> QED BY <4>1, <1>c, <1>i DEF Halves
    <3>3. \A i \in Rest : root.has[i] \in Unowned BY <1>c, <1>p, <2>8, <3>2 DEF Mix, MixRun, LeaveUnmixed
    <3>4. \A i \in Rest : root'.has[i] \in Unowned' BY <1>u, <3>3, BesideMore
    <3>5. ArriveUnmixed' BY <3>1, <3>4 DEF ArriveUnmixed
    <3>6. OutUnmixed' BY <3>1 DEF OutUnmixed, Built
    <3>7. LeaveUnmixed' BY <3>1 DEF LeaveUnmixed
    <3> QED BY <1>2, <1>i, <1>u, <2>6, <3>5, <3>6, <3>7, CommittedMixes DEF MixRun
  <2> HIDE DEF arrives, s, kept
  <2> QED BY <1>2, <2>7, <2>8
<1> HIDE DEF s, then, arrives, kept
<1> QED BY <1>0, <1>1, <1>2 DEF Commits

\* An arrive committed.
LEMMA CommitArriveMixes ==
  ASSUME Inv, Inv', Mix, CommitArrive
  PROVE  Mix'
<1>i. TypeOK /\ pc = "commitArrive" BY DEF Inv, CommitArrive
<1> DEFINE gone == IF KeysAre(Moving) = "named" THEN KeepAside(saved, Moving.park, Moving.who, None)
                   ELSE Discard(saved, Moving.park)
           who == IF Moving.who \in saved.enrolled THEN Moving.who ELSE None
           s == [Settled(Identified(gone, who, Moving.login), Moving) EXCEPT !.awaiting = None]
<1>0. Commits(s, FALSE, Goes("purge")) BY DEF CommitArrive
<1> HIDE DEF s, gone, who
<1>u. UNCHANGED <<root, ended>> BY <1>0 DEF Commits
<1>1. CASE UNCHANGED <<saved, ran>> /\ End /\ UNCHANGED folders
  BY <1>1, <1>i, <1>u, CommitFailsMix
<1>2. CASE Goes("purge") /\ UNCHANGED folders BY <1>2, <1>i, <1>u, PurgeNextMixes
<1> QED BY <1>0, <1>1, <1>2 DEF Commits

\* A move undone.
LEMMA UndoneMixes ==
  ASSUME Inv, Inv', Mix, Undone
  PROVE  Mix'
<1>i. TypeOK /\ pc = "undone" BY DEF Inv, Undone
<1>u. UNCHANGED <<root, folders, ended>> BY DEF Undone, app
<1>1. CASE UNCHANGED <<saved, ran>> /\ End BY <1>1, <1>i, <1>u, CommitFailsMix
<1>2. CASE Goes("purge") BY <1>2, <1>i, <1>u, PurgeNextMixes
<1>3. Goes("purge") \/ (UNCHANGED <<saved, ran>> /\ End) BY Zenon DEF Undone
<1> QED BY <1>1, <1>2, <1>3

\* A move given up.
LEMMA GivenUpMixes ==
  ASSUME Inv, Inv', Mix, GivenUp
  PROVE  Mix'
<1>i. TypeOK /\ pc = "givenUp" BY DEF Inv, GivenUp
<1> PICK t : t = [Settled(Nobody(GivenUpPark(Moving)), Moving) EXCEPT !.awaiting = None] OBVIOUS
<1>0. Commits(t, FALSE, Goes("purge")) BY DEF GivenUp
<1>u. UNCHANGED <<root, ended>> BY <1>0 DEF Commits
<1>1. CASE UNCHANGED <<saved, ran>> /\ End /\ UNCHANGED folders
  BY <1>1, <1>i, <1>u, CommitFailsMix
<1>2. CASE Goes("purge") /\ UNCHANGED folders BY <1>2, <1>i, <1>u, PurgeNextMixes
<1> QED BY <1>0, <1>1, <1>2 DEF Commits

\* A start recorded: there was no move.
LEMMA StartedMixes ==
  ASSUME Inv, Mix, Started
  PROVE  Mix'
<1>i. TypeOK BY DEF Inv
<1>p. pc = "started" BY DEF Started
<1>c. Moving = NoMove /\ run.name \in Names
  BY <1>p DEF Inv, RunInv, RowInv, Committing, OfStart
<1>s. saved \in Records BY <1>i DEF TypeOK
<1>q. PICK q : q = Nobody(saved) OBVIOUS
<1>n. PICK n, none : n = run.name /\ none = None OBVIOUS
<1>t. PICK t : t = AddAside(q, n, none, none) OBVIOUS
<1>0. Commits(t, FALSE, End) BY <1>q, <1>n, <1>t DEF Started
<1>u. UNCHANGED <<root, ended>> BY <1>0 DEF Commits
<1>1. CASE UNCHANGED <<saved, ran>> /\ End /\ UNCHANGED folders
  BY <1>1, <1>i, <1>u, CommitFailsMix
<1>2. CASE saved' = t /\ End /\ UNCHANGED folders
  <2>1. q \in Records /\ q.moving = saved.moving BY <1>q, <1>s, NobodyOf
  <2>2. n \in Names /\ none \in Accounts \cup {None} /\ none \in Sessions \cup {None} BY <1>n, <1>c
  <2>3. t.moving = q.moving BY <2>1, <2>2, <1>t, AddAsideOf
  <2>4. Moving' = NoMove BY <1>2, <1>c, <2>1, <2>3 DEF Moving
  <2> QED BY <1>2, <1>i, <1>u, <2>4, EndMixes, CommittedMixes
<1> QED BY <1>0, <1>1, <1>2 DEF Commits

\* An account enrolled: there is no move.
LEMMA EnrollMixes ==
  ASSUME Inv, Mix, Enroll
  PROVE  Mix'
<1>i. TypeOK BY DEF Inv
<1>c. Moving = NoMove BY DEF Enroll, Inv, RunInv, Ops
<1>s. saved \in Records BY <1>i DEF TypeOK
<1>g. PICK added : added = [saved EXCEPT !.enrolled = @ \cup {run.who}] OBVIOUS
<1>d. PICK gone : gone = {b \in Accounts : /\ added.parked[b] # None
                                           /\ \/ added.parked[b].name = run.also
                                              \/ b = run.who /\ added.parked[b].login # run.session} OBVIOUS
<1>e. PICK p, r : /\ p = [b \in Accounts |-> IF b \in gone THEN None ELSE added.parked[b]]
                  /\ r = added.aside \cup {[name |-> added.parked[b].name, account |-> b,
                                            login |-> added.parked[b].login] : b \in gone} OBVIOUS
<1>v. PICK u : u = [added EXCEPT !.parked = p, !.aside = r] OBVIOUS
<1>t. PICK t : t = [Identified(u, run.who, run.session) EXCEPT !.awaiting = None] OBVIOUS
<1>0. Commits(t, TRUE, End)
  <2> DEFINE Sup(x) == {b \in Accounts : /\ x.parked[b] # None
                                         /\ \/ x.parked[b].name = run.also
                                            \/ b = run.who /\ x.parked[b].login # run.session}
             add == [saved EXCEPT !.enrolled = @ \cup {run.who}]
             Put(x, g) == [x EXCEPT
               !.parked = [b \in Accounts |-> IF b \in g THEN None ELSE x.parked[b]],
               !.aside = @ \cup {[name |-> x.parked[b].name, account |-> b,
                                  login |-> x.parked[b].login] : b \in g}]
             put == Put(add, Sup(add))
             all == [Identified(put, run.who, run.session) EXCEPT !.awaiting = None]
  <2>1. Commits(all, TRUE, End) BY DEF Enroll
  <2>2. add = added BY <1>g
  <2>3. Sup(add) = gone BY <2>2, <1>d
  <2>4. put = u
    <3>1. u = Put(added, gone) BY <1>e, <1>v
    <3> HIDE DEF Put, Sup, add
    <3> QED BY <3>1, <2>2, <2>3
  <2>5. all = t
    <3> HIDE DEF put
    <3> QED BY <2>4, <1>t
  <2> HIDE DEF all
  <2> QED BY <2>1, <2>5, Zenon
<1>u. UNCHANGED <<root, ended>> BY <1>0 DEF Commits
<1>1. CASE UNCHANGED <<saved, ran>> /\ End /\ (ForgetsLeft \/ UNCHANGED folders)
  BY <1>1, <1>i, <1>u, CommitFailsMix
<1>2. CASE saved' = t /\ End /\ ForgetsLeft
  <2>1. t.moving = saved.moving
    <3>1. added = [saved EXCEPT !.enrolled = saved.enrolled \cup {run.who}] BY <1>g
    <3>2. DOMAIN added = DOMAIN saved /\ added.moving = saved.moving BY <3>1, <1>s DEF Records
    <3>3. DOMAIN saved = {"enrolled", "parked", "aside", "discarded", "inUse", "moving", "awaiting"}
      BY <1>s DEF Records
    <3>4. DOMAIN u = DOMAIN saved /\ u.moving = saved.moving BY <1>v, <3>2, <3>3
    <3> PICK q, use : q = Identified(u, run.who, run.session) /\ use = [who |-> run.who, login |-> run.session]
      OBVIOUS
    <3>5. q = [u EXCEPT !.inUse = use] BY DEF Identified
    <3>6. DOMAIN q = DOMAIN saved /\ q.moving = saved.moving BY <3>3, <3>4, <3>5
    <3>7. t = [q EXCEPT !.awaiting = None] BY <1>t
    <3> QED BY <3>3, <3>6, <3>7
  <2>2. Moving' = NoMove BY <1>2, <1>c, <2>1 DEF Moving
  <2> QED BY <1>2, <1>i, <1>u, <2>2, EndMixes, CommittedMixes
<1> QED BY <1>0, <1>1, <1>2 DEF Commits

\* Each commit.
LEMMA CommitMixes ==
  ASSUME Inv, Inv', Owned, Mix, Commit
  PROVE  Mix'
BY CommitLeaveMixes, CommitArriveMixes, UndoneMixes, StartedMixes, GivenUpMixes, EnrollMixes DEF Commit

-----------------------------------------------------------------------------
(* Folders deleted, and names resolved. *)

\* Folders deleted, and none of them the park of a move.
LEMMA EmptyMixes ==
  ASSUME TypeOK, MixData, NEW ns \in SUBSET Names, folders' = Emptying(ns),
         UNCHANGED <<root, ended>>, saved'.moving = saved.moving,
         Moving # NoMove => Moving.park \notin ns
  PROVE  MixData'
<1>1. \A n \in Names : folders'[n] = IF n \in ns THEN NoFolder ELSE folders[n] BY DEF Emptying
<1>2. NoFolder.has = Nothing BY DEF NoFolder
<1>3. ASSUME NEW n \in Names PROVE Stays(n) \/ FolderUnmixed(n)'
  <2>1. CASE n \in ns BY <1>1, <1>2, <2>1, FolderPlain
  <2>2. CASE n \notin ns
    <3>1. folders'[n] = folders[n] BY <1>1, <2>2
    <3> QED BY <3>1 DEF Stays
  <2> QED BY <2>1, <2>2
<1>4. Moving' = Moving BY DEF Moving
<1>5. Moving # NoMove => Moving.park \in Names BY MoveTyped
<1>6. Moving # NoMove => folders'[Moving.park].has = folders[Moving.park].has BY <1>1, <1>5
<1> QED BY <1>3, <1>4, <1>6, MixStays

\* What is listed as let go of is deleted: never the park of a move.
LEMMA PurgeMixes ==
  ASSUME Inv, Mix, Purge
  PROVE  Mix'
<1>i. TypeOK /\ MixData /\ saved \in Records /\ Apart(saved) BY DEF Inv, Mix, TypeOK, Data
<1>u. UNCHANGED <<root, ended>> BY DEF Purge, Still
<1>r. PICK ds : ds = Removable OBVIOUS
<1>n. PICK ns : ns = {d.name : d \in ds} OBVIOUS
<1>1. ds \in SUBSET saved.discarded BY <1>r DEF Removable
<1>2. ns \in SUBSET Names BY <1>1, <1>n, <1>i DEF Records
<1>3. Moving # NoMove => Moving.park \notin ns
  <2> SUFFICES ASSUME Moving # NoMove, Moving.park \in ns PROVE FALSE OBVIOUS
  <2>1. PICK d \in ds : d.name = Moving.park BY <1>n
  <2>2. Listed(saved, Moving.park) BY <1>1, <2>1 DEF Listed
  <2>3. Moving.park \in Names BY <1>i, MoveTyped
  <2> QED BY <1>i, <2>2, <2>3 DEF Apart, MoveHolds, Moving
<1>4. MixData'
  <2>1. CASE folders' = Emptying(ns) /\ saved' = [saved EXCEPT !.discarded = @ \ ds]
    <3>1. saved'.moving = saved.moving BY <2>1, <1>i DEF Records
    <3> QED BY <1>i, <1>2, <1>3, <1>u, <2>1, <3>1, EmptyMixes
  <2>2. CASE folders' = Emptying(ns) /\ UNCHANGED saved
    <3>1. saved'.moving = saved.moving BY <2>2
    <3> QED BY <1>i, <1>2, <1>3, <1>u, <2>2, <3>1, EmptyMixes
  <2>3. CASE UNCHANGED <<folders, saved>> BY <2>3, <1>i, <1>u, MixSame
  <2> QED BY <2>1, <2>2, <2>3, <1>r, <1>n DEF Purge
<1>5. End \/ Continues BY DEF Purge
<1> QED BY <1>4, <1>5, EndMixes, ContinuesMix DEF Mix

\* An account forgotten: its sessions are over, and nothing is moved.
LEMMA ForgetMixes ==
  ASSUME Inv, Mix, Forget
  PROVE  Mix'
<1>i. TypeOK /\ Data /\ Ops BY DEF Inv, RunInv
<1>p. pc = "forget" BY DEF Forget
<1>c. Moving = NoMove /\ run.who \in Accounts BY <1>p, <1>i DEF Ops
<1>s. saved \in Records /\ Once(saved) BY <1>i DEF TypeOK, Data
<1>u. UNCHANGED <<root, folders>> BY DEF Forget, Refused, disk
<1>1. CASE Refused /\ UNCHANGED ended BY <1>1, <1>u, EndsMix DEF Refused, disk
<1>2. CASE /\ saved' = Removed(saved, run.who)
           /\ pc' = "purge" /\ run' = [run EXCEPT !.half = "done"]
           /\ ended' = ended \cup {s \in Sessions : /\ Owner[s] = run.who
                                   /\ \E n \in Names : folders[n].has[Jar] = s}
  <2>a. PICK a, t : a = run.who /\ t = Removed(saved, a) OBVIOUS
  <2>1. Removes(saved, a, t)
    <3>1. a \in Accounts /\ saved.moving = NoMove BY <1>c, <2>a DEF Moving
    <3> QED BY <1>s, <3>1, <2>a, RemovedOf
  <2>2. saved'.moving = saved.moving BY <1>2, <1>c, <2>a, <2>1 DEF Removes, Moving
  <2>3. pc' \in Plain BY <1>2 DEF Plain
  <2> QED BY <1>2, <1>u, <2>2, <2>3, PlainMixes
<1> QED BY <1>1, <1>2 DEF Forget

\* Names resolved: only folders nothing names are deleted.
LEMMA ResolvesMix ==
  ASSUME Inv, Mix, NEW names \in SUBSET Names, NEW next \in Plain, Resolves(names, next), Still
  PROVE  Mix'
<1>i. TypeOK /\ MixData BY DEF Inv, Mix
<1>s. saved \in Records /\ Once(saved) /\ Apart(saved) BY DEF Inv, TypeOK, Data
<1>u. UNCHANGED <<root, ended>> BY DEF Still
<1> PICK unread \in SUBSET {n \in names : folders[n].made} :
    LET todo    == {n \in names \ unread : ~Named(saved, n)}
        empties == {n \in todo : ~HoldsAnything(n)}
        s       == Resolved(saved, todo)
    IN \/ /\ folders' = Emptying(empties) /\ saved' = s /\ pending' = unread \cap pending
          /\ Goes(next) /\ IF unread = {} THEN Works ELSE Faults
       \/ /\ todo # {} /\ unread = {}
          /\ folders' = Emptying(empties) /\ saved' \in {saved, s} /\ UNCHANGED pending
          /\ End /\ Faults
  BY DEF Resolves
<1>t. PICK todo : todo = {n \in names \ unread : ~Named(saved, n)} OBVIOUS
<1>e. PICK empties : empties = {n \in todo : ~HoldsAnything(n)} OBVIOUS
<1>r. PICK s : s = Resolved(saved, todo) OBVIOUS
<1>0. /\ folders' = Emptying(empties)
      /\ saved' \in {saved, s}
      /\ Goes(next) \/ End
  BY <1>t, <1>e, <1>r
<1>1. todo \in SUBSET Names /\ empties \in SUBSET Names /\ \A n \in todo : ~Named(saved, n)
  BY <1>t, <1>e
<1>2. ResolvesTo(saved, todo, s) BY <1>i, <1>s, <1>1, <1>r, ResolvedOf
<1>3. saved'.moving = saved.moving
  <2>1. s.moving = saved.moving BY <1>2, Zenon DEF ResolvesTo
  <2> QED BY <1>0, <2>1
<1>4. Moving # NoMove => Moving.park \notin empties
  <2>1. Moving # NoMove => Named(saved, Moving.park) BY DEF Named, MoveHolds, Moving
  <2> QED BY <2>1, <1>1, <1>e
<1>5. MixData' BY <1>0, <1>1, <1>3, <1>4, <1>i, <1>u, EmptyMixes
<1>6. MixRun'
  <2>1. CASE Goes(next) BY <2>1, MixElsewhere DEF Goes, Plain, Doing, Fallible
  <2> QED BY <1>0, <2>1, EndMixes
<1> QED BY <1>5, <1>6 DEF Mix

\* The names a run left written down.
LEMMA SweepMixes ==
  ASSUME Inv, Mix, Sweep
  PROVE  Mix'
<1>1. pending \subseteq Names BY DEF Inv, TypeOK
<1>n. PICK names : names = {n \in pending : ~Named(saved, n)} OBVIOUS
<1>x. PICK next : next = IF run.op = "repair" /\ Moving = NoMove THEN "reclaim" ELSE "begin" OBVIOUS
<1>2. Resolves(names, next) /\ Still BY <1>n, <1>x DEF Sweep
<1>3. names \in SUBSET Names BY <1>1, <1>n
<1>4. next \in Plain BY <1>x DEF Plain
<1> QED BY <1>2, <1>3, <1>4, ResolvesMix

\* Every folder nothing names.
LEMMA ReclaimMixes ==
  ASSUME Inv, Mix, Reclaim
  PROVE  Mix'
<1>n. PICK names : names = {n \in Names : (n \in pending \/ folders[n].made) /\ ~Named(saved, n)} OBVIOUS
<1>x. PICK next : next = "giveBack" OBVIOUS
<1>2. Resolves(names, next) /\ Still BY <1>n, <1>x DEF Reclaim
<1>3. names \in SUBSET Names BY <1>n
<1>4. next \in Plain BY <1>x DEF Plain
<1> QED BY <1>2, <1>3, <1>4, ResolvesMix

\* What is set aside given back.
LEMMA GiveBackAsidesMixes ==
  ASSUME Inv, Mix, GiveBackAsides
  PROVE  Mix'
<1>i. TypeOK BY DEF Inv
<1>s. saved \in Records /\ Once(saved) /\ Apart(saved) BY DEF Inv, TypeOK, Data
<1>u. UNCHANGED <<root, folders, ended>> BY DEF GiveBackAsides, Still
<1>1. CASE UNCHANGED saved /\ End BY <1>1, <1>u, EndsMix
<1>2. CASE /\ saved' = GivenBack(saved, {r.name : r \in saved.aside})
           /\ pc' = "purge" /\ run' = [run EXCEPT !.half = "done"]
  <2>n. PICK ns : ns = {r.name : r \in saved.aside} OBVIOUS
  <2>1. ns \in SUBSET Names /\ \A n \in ns : Aside(saved, n) BY <2>n, <1>s DEF Records, Aside
  <2>2. \A n \in ns : ~IsParked(saved, n) /\ ~Listed(saved, n) /\ ~MoveHolds(saved, n)
    BY <2>1, <1>s DEF Once, Apart, MoveHolds
  <2>t. PICK t : t = GivenBack(saved, ns) OBVIOUS
  <2>3. GivesBack(saved, ns, t) BY <2>1, <2>2, <2>t, <1>i, <1>s, GivenBackOf
  <2>4. t.moving = saved.moving BY <2>3, Zenon DEF GivesBack
  <2>5. saved'.moving = saved.moving BY <1>2, <2>n, <2>t, <2>4
  <2>6. pc' \in Plain BY <1>2 DEF Plain
  <2> QED BY <1>u, <2>5, <2>6, PlainMixes
<1> QED BY <1>1, <1>2 DEF GiveBackAsides

-----------------------------------------------------------------------------
(* The invariant of what is filed with what. *)

\* A home with one account's login in use, another's put away, and no move.
LEMMA InitMixes ==
  ASSUME Init
  PROVE  Mix
<1>a. PICK a, b : a = Owner[InUse] /\ b = Owner[Parked] OBVIOUS
<1>2. 1 \in Names BY FolderBounds DEF Names
<1>k. PICK ka, kb : ka = [who |-> a, tok |-> "t1"] /\ kb = [who |-> b, tok |-> "t1"] OBVIOUS
<1>h. PICK ha, hb : /\ ha = [i \in ItemSet |-> IF i = Jar THEN InUse ELSE a]
                    /\ hb = [i \in ItemSet |-> IF i = Jar THEN Parked ELSE b] OBVIOUS
<1>4. ha[Jar] = InUse /\ \A i \in Rest : ha[i] = a /\ hb[i] = b BY <1>h, Constant
<1>m. PICK m : m = [account |-> b, login |-> Parked, items |-> ItemSet, keys |-> kb, left |-> {}] OBVIOUS
<1>f. PICK f : f = [made |-> TRUE, keys |-> {kb}, has |-> hb, manifest |-> m] OBVIOUS
<1>r. PICK parked : parked = [o \in Accounts |-> IF o = b THEN [name |-> 1, login |-> Parked] ELSE None] OBVIOUS
<1>u. PICK use : use = [who |-> a, login |-> InUse] OBVIOUS
<1>0. /\ root = [has |-> ha, keys |-> ka]
      /\ folders = [n \in Names |-> IF n = 1 THEN f ELSE NoFolder]
      /\ saved = [enrolled |-> {a, b}, parked |-> parked, aside |-> {}, discarded |-> {},
                  inUse |-> use, moving |-> NoMove, awaiting |-> None]
      /\ pc = "idle"
  BY <1>a, <1>k, <1>h, <1>m, <1>f, <1>r, <1>u DEF Init
<1>5. root.has = ha BY <1>0
<1>6. RootUnmixed BY <1>a, <1>4, <1>5 DEF RootUnmixed, Beside
<1>7. ASSUME NEW n \in Names PROVE FolderUnmixed(n)
  <2>1. CASE n = 1
    <3>1. folders[n] = f BY <1>0, <1>2, <2>1
    <3>2. f.manifest = m /\ f.has = hb /\ m.account = b BY <1>f, <1>m
    <3> QED BY <1>4, <3>1, <3>2 DEF FolderUnmixed, Beside
  <2>2. CASE n # 1
    <3>1. folders[n] = NoFolder BY <1>0, <2>2
    <3>2. folders[n].manifest = None BY <3>1 DEF NoFolder
    <3> QED BY <3>2 DEF FolderUnmixed
  <2> QED BY <2>1, <2>2
<1>8. Moving = NoMove BY <1>0 DEF Moving
<1>9. MoveUnmixed BY <1>8 DEF MoveUnmixed
<1>10. ArriveUnmixed /\ OutUnmixed BY <1>0 DEF ArriveUnmixed, OutUnmixed, Built
<1>11. LeaveUnmixed BY <1>8 DEF LeaveUnmixed
<1> QED BY <1>6, <1>7, <1>9, <1>10, <1>11 DEF Mix, MixData, MixRun

\* Nothing changed.
LEMMA StutterMixes ==
  ASSUME Mix, UNCHANGED vars
  PROVE  Mix'
<1>1. UNCHANGED <<root, folders, saved, ended, pc, run>> BY DEF vars, disk
<1>2. MixData' BY <1>1, MixSame DEF Mix
<1>3. MixRun'
  BY <1>1 DEF Mix, MixRun, ArriveUnmixed, OutUnmixed, LeaveUnmixed, Moving, Unowned, Beside
<1> QED BY <1>2, <1>3 DEF Mix

\* Every step keeps it.
LEMMA NextMixes ==
  ASSUME Inv, Owned, Mix, [Next]_vars
  PROVE  Mix'
<1>i. Inv' BY NextInv
<1>1. CASE \E op \in Commands, who \in Accounts \cup {None} : Start(op, who) BY <1>1, StartMixes
<1>2. CASE Working
  BY <1>i, <1>2, SweepMixes, BeginMixes, SettleMixes, LookAtItMixes, ReserveMixes, RecordMixes, WorkStepMixes,
     StepFailsMix, MidwayMixes, ListLeftMixes, HoldMixes, CommitMixes, PurgeMixes, GiveUpMixes,
     ForgetMixes, ReclaimMixes, GiveBackAsidesMixes DEF Working
<1>3. CASE App BY <1>3, AppMixes
<1>4. CASE Crash BY <1>4, CrashMixes
<1>5. CASE UNCHANGED vars BY <1>5, StutterMixes
<1> QED BY <1>1, <1>2, <1>3, <1>4, <1>5 DEF Next

\* A park is its account's: what its manifest lists beside the login is of the account it names.
LEMMA ParkUnmixed ==
  ASSUME Inv, Owned, Mix
  PROVE  NotMixed
<1>i. TypeOK /\ ParksWhole /\ RecordOwned(saved) BY DEF Inv, Data, Owned, OwnData
<1>s. saved \in Records BY <1>i DEF TypeOK
<1> SUFFICES ASSUME NEW a \in Accounts, saved.parked[a] # None,
                    ~MoveHolds(saved, saved.parked[a].name)
             PROVE  LET f == folders[saved.parked[a].name]
                    IN \A i \in Rest \cap f.manifest.items :
                         f.has[i] \in {Owner[saved.parked[a].login], Fresh} \cup {Owner[s] : s \in ended}
  BY DEF NotMixed
<1> PICK p, n, f : p = saved.parked[a] /\ n = p.name /\ f = folders[n] OBVIOUS
<1>1. p \in [name : Names, login : Sessions] BY <1>s DEF Records
<1>2. CanArrive(a) BY <1>i DEF ParksWhole
<1>3. Whole(n, a, p.login) BY <1>2, CanArriveIs
<1>4. /\ f.manifest # None /\ f.manifest.login = p.login /\ f.manifest.account = a
      /\ HeldItems(n, f.manifest.items) = f.manifest.items
  BY <1>3 DEF Whole
<1>5. f.manifest.login # None BY <1>1, <1>4, SessionsApart
<1>6. Owner[p.login] = a BY <1>i DEF RecordOwned
<1>7. n \in Names BY <1>1
<1>8. \A i \in Rest : i \in f.manifest.items => f.has[i] \in Beside(a)
  BY <1>4, <1>5, <1>7 DEF Mix, MixData, FolderUnmixed
<1>9. \A i \in f.manifest.items : f.has[i] # None BY <1>4 DEF HeldItems, InFolder
<1> QED BY <1>6, <1>8, <1>9 DEF Beside

\* What lies beside a login is its own, through every step of every run and of the app's.
THEOREM MixHolds == Spec => [](Inv /\ Owned /\ Mix)
<1>1. Init => Inv /\ Owned /\ Mix BY InitInv, InitOwned, InitMixes
<1>2. (Inv /\ Owned /\ Mix) /\ [Next]_vars => (Inv /\ Owned /\ Mix)' BY NextInv, NextOwned, NextMixes
<1> QED BY <1>1, <1>2, PTL DEF Spec

\* Nothing in an account's park is another account's (moves.rs, steps.rs): not what an app
\* opened half way made, nor what a move given up left in the app's folder.
THEOREM LoginsAreNotMixed == Spec => []NotMixed
<1>1. Inv /\ Owned /\ Mix => NotMixed BY ParkUnmixed
<1> QED BY <1>1, MixHolds, PTL
=============================================================================
