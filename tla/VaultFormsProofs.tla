-------------------------- MODULE VaultFormsProofs --------------------------
(* What TLAPS proves of VaultForms for any parks, any crashes and failures,  *)
(* and a Secret Service that stops answering as often as it likes:           *)
(*   TypeCorrect        Spec => []TypeOK                                     *)
(*   HeldAreThere       Spec => []HeldIsThere                                *)
(*   EveryItemIsNamed   Spec => []NoneForgotten                              *)
(*   OthersAreKept      Spec => OthersStay                                   *)
(* All four are of one invariant, Inv: what the record in mind may differ    *)
(* from the saved one in, whose the parks are that both homes know, and what *)
(* each step of a move, a sweep or a change has done by then.                *)
EXTENDS VaultForms, TLAPS

(* A record agrees with itself: no park is both kept and listed, what is     *)
(* being left is another form than the one named, and a home that keeps its  *)
(* parks in files keeps none of another's.                                   *)
Sound(s) ==
  /\ s.foreign \subseteq s.held
  /\ s.held \cap s.discarded = {}
  /\ s.leaving # NotLeaving => s.form # None /\ s.leaving.from # s.form
  /\ s.movingTo # None => s.form # None /\ s.leaving = NotLeaving
  /\ s.form = Files /\ s.movingTo = None => s.foreign = {}

(* A home that records no form has recorded nothing yet.                     *)
Blank ==
  saved.form = None =>
    /\ saved.held = {} /\ saved.discarded = {} /\ pending = {}
    /\ saved.leaving = NotLeaving

(* What the record in mind no longer says of another home's, or lists to be  *)
(* deleted or to leave, is used up or gone from where it was.                *)
Agrees ==
  /\ mem.movingTo = saved.movingTo
  /\ mem.foreign \subseteq saved.foreign /\ (saved.foreign \ mem.foreign) \cap mem.held \subseteq used
  /\ saved.form # None => (saved.discarded \ mem.discarded) \cap items[saved.form] = {}
  /\ mem.leaving.parks \subseteq saved.leaving.parks
  /\ mem.leaving.parks # {} => mem.leaving.from = saved.leaving.from
  /\ saved.leaving.from # None =>
       (saved.leaving.parks \ mem.leaving.parks) \cap items[saved.leaving.from] = {}
  /\ mem.form \in {None, saved.form} \/ (saved.form = None /\ pc \in {"delete", "moving"})

(* What is of no use to this home any more, or not where it was.             *)
Lost == used \cup gone

(* A renewal goes on where its saves fail.  What it has let go of is of no   *)
(* use to this home, and is listed, gone, or the other home's; what it has   *)
(* parked is written down and there.                                         *)
Renewing == run.op = "renew" /\ pc \in {"change", "form", "reserve", "store", "record", "purge"}

Strays ==
  /\ Renewing \/ (mem.held = saved.held /\ mem.discarded \subseteq saved.discarded)
  /\ \A n \in saved.held \ mem.held :
       /\ n \in Lost
       /\ n \in mem.discarded \/ n \in saved.foreign \/ n \notin items[saved.form]
  /\ \A n \in mem.held \ saved.held :
       pc = "purge" /\ run.then = "idle" /\ n \in pending /\ (n \in gone \/ n \in items[saved.form])
  /\ \A n \in mem.discarded \ saved.discarded :
       n \in saved.held /\ (n \in used \/ (n \in gone /\ n \notin saved.foreign))

(* Every name is one a home has reserved, and none written down here is the  *)
(* other home's.                                                             *)
Reserved ==
  /\ \A f \in Forms : items[f] \subseteq made
  /\ theirs \cup pending \cup saved.held \cup saved.discarded \subseteq made
  /\ saved.leaving.parks \subseteq made
  /\ theirs \cap pending = {}

(* A park kept is where the record says, or of no use to this home; and one  *)
(* of the other home's is in the Secret Service, in whichever form ours is.  *)
Kept ==
  /\ \A n \in saved.held : n \in Lost \/ n \in items[saved.form]
  /\ \A n \in saved.foreign : n \in Lost \/ n \in items[Service]

(* What the other home wrote is there, or this home has used it up; and while *)
(* this home is in the Secret Service, or on its way there, what it keeps of  *)
(* theirs it knows to be theirs, and lists nothing of it to be deleted.       *)
Others ==
  /\ theirs \subseteq items[Service] \cup used
  /\ saved.foreign \cap items[Service] \subseteq theirs
  /\ saved.form = Service \/ saved.movingTo = Service =>
       theirs \cap saved.held \subseteq saved.foreign \cup used
  /\ saved.form = Service => theirs \cap saved.discarded \subseteq used
  /\ saved.leaving.from = Service => theirs \cap saved.leaving.parks \subseteq used

(* A move copies under the record of it, and nothing else runs before it is  *)
(* named or stopped; what is no longer to be copied is in the new form.      *)
Copies ==
  /\ saved.movingTo # None => pc \in {"idle", "copy"}
  /\ pc = "copy" =>
       /\ mem = saved /\ mem.movingTo # None /\ run.then \in {"sweep", "change", "idle"}
       /\ run.todo \subseteq Held(saved)
       /\ \A n \in saved.held \ run.todo : n \in Lost \/ n \in items[mem.movingTo]

(* What is being taken out of the old form: to do, kept, or gone.            *)
Leaves ==
  /\ pc = "delete" =>
       /\ run.todo \cup run.kept \subseteq mem.leaving.parks
       /\ mem.leaving.from # None =>
            (mem.leaving.parks \ (run.todo \cup run.kept)) \cap items[mem.leaving.from] = {}
       /\ run.then \in {"sweep", "change", "idle", "moving"}
  /\ pc = "moving" => mem.leaving = NotLeaving
  /\ pc = "moving" \/ (pc = "delete" /\ run.then = "moving") =>
       mem.form # None /\ run.to \in Forms \ {mem.form}

(* A sweep and a purge of what settling or a change left.                    *)
Sweeps ==
  /\ pc \in {"sweep", "change"} \/ (pc \in {"delete", "list", "purge"} /\ run.then \in {"sweep", "change"})
       => mem.form = saved.form
  /\ pc \in {"list", "purge"} => run.then \in {"change", "idle"}
  /\ pc = "purge" =>
       /\ run.todo \subseteq mem.discarded /\ mem.discarded \subseteq run.kept
       /\ run.kept \subseteq saved.discarded \cup saved.held
  /\ pc = "list" =>
       /\ run.kept \subseteq pending /\ saved.form # None
       /\ \A n \in pending \ run.kept : Names(mem, n) \/ n \notin items[saved.form]

(* A change that parks: a name of its own, written down, then the item.      *)
Writes ==
  /\ pc \in {"form", "reserve", "store", "record"} =>
       /\ run.op \in {"park", "renew"}
       /\ run.op = "renew" => run.old \in mem.held \cap used
  /\ pc \in {"reserve", "store", "record"} => saved.form # None
  /\ pc \in {"store", "record"} =>
       /\ run.park \in pending
       /\ run.park \notin saved.held \cup saved.discarded \cup saved.leaving.parks
  /\ pc = "record" => run.park \in gone \/ run.park \in items[saved.form]

At == Copies /\ Leaves /\ Sweeps /\ Writes /\ (pc = "idle" => mem = saved)

Inv == /\ TypeOK /\ Sound(saved) /\ Sound(mem) /\ Blank /\ Agrees /\ Strays
       /\ Reserved /\ Kept /\ Others /\ At /\ NoneForgotten

-----------------------------------------------------------------------------
(* Types of what the operators return                                        *)

(* The two forms, and neither is none.                                       *)
LEMMA TwoForms == Service \in Forms /\ Files \in Forms /\ Service # Files /\ None \notin Forms
  BY NoneAssumption DEF Service, Files, Forms

(* The form a home works in is one, and the recorded one where there is one. *)
LEMMA HomeFormIs ==
  ASSUME TypeOK PROVE HomeForm \in Forms /\ (saved.form # None => HomeForm = saved.form)
  BY TwoForms DEF HomeForm, NewHomeForm, TypeOK, Records

(* A save keeps all of the record but a form it does not hold.               *)
LEMMA RecordedIs ==
  ASSUME TypeOK, NEW s \in Records
  PROVE  /\ Recorded(s) \in Records /\ Recorded(s).form \in Forms
         /\ Recorded(s).form = IF s.form = None THEN HomeForm ELSE s.form
         /\ Recorded(s).held = s.held /\ Recorded(s).foreign = s.foreign
         /\ Recorded(s).discarded = s.discarded /\ Recorded(s).movingTo = s.movingTo
         /\ Recorded(s).leaving = s.leaving
  BY TwoForms, HomeFormIs DEF Recorded, Records

(* What letting go of a park changes.                                        *)
LEMMA ReleaseIs ==
  ASSUME NEW s \in Records, NEW n, s.discarded \subseteq Parks, n \in Parks
  PROVE  /\ Release(s, n) \in Records /\ Discard(s, n) \in Records
         /\ \A t \in {Release(s, n), Discard(s, n)} :
              /\ t.held = s.held \ {n} /\ t.foreign = s.foreign \ {n}
              /\ t.form = s.form /\ t.movingTo = s.movingTo /\ t.leaving = s.leaving
         /\ Discard(s, n).discarded = s.discarded \cup {n}
         /\ Release(s, n).discarded = IF n \in s.foreign THEN s.discarded ELSE s.discarded \cup {n}
  BY DEF Release, Discard, LetGo, Records

(* Nothing leaves exactly where the list of what leaves is empty.            *)
LEMMA LeavingIs ==
  ASSUME TypeOK, NEW s \in {saved, mem}
  PROVE  /\ (s.leaving = NotLeaving) = (s.leaving.parks = {})
         /\ (s.leaving = NotLeaving) = (s.leaving.from = None)
<1>1. s.leaving \in [from : Forms \cup {None}, parks : SUBSET Parks]
  BY DEF TypeOK, Records
<1>2. (s.leaving.from = None) = (s.leaving.parks = {})
  BY DEF TypeOK
<1> QED  BY <1>1, <1>2 DEF NotLeaving

(* Whatever an operation comes to, the bounds keep their types.              *)
LEMMA BoundsType ==
  ASSUME TypeOK, Works \/ Faults \/ \E f \in Forms \cup {None} : Fails(f)
  PROVE  crashes' \in 0 .. MaxCrashes /\ faults' \in 0 .. MaxFaults /\ locks' \in 0 .. MaxLocks
  BY VaultBounds DEF TypeOK, Works, Faults, Fails, CanFault, bounds

(* A run that does nothing yet is one.                                       *)
LEMMA NoRunIsRun == NoRun \in Runs
  BY DEF NoRun, Runs, Steps

(* But in a renewal, the record in mind keeps what the saved one keeps.      *)
LEMMA NotRenewing ==
  ASSUME Inv, ~Renewing PROVE mem.held = saved.held /\ mem.discarded \subseteq saved.discarded
  BY DEF Inv, Strays

(* And so nothing in it strays.                                              *)
LEMMA NoStrays ==
  ASSUME mem'.held = saved'.held, mem'.discarded \subseteq saved'.discarded PROVE Strays'
  BY DEF Strays

(* Each item is named by the record in mind as by the saved one: what it no  *)
(* longer lists is not there.                                                *)
LEMMA MindNames ==
  ASSUME Inv, saved.movingTo = None, NEW f \in Forms, NEW n \in items[f]
  PROVE  \/ f = saved.form /\ n \in mem.held \cup mem.discarded \cup pending
         \/ f = saved.leaving.from /\ f = mem.leaving.from /\ n \in mem.leaving.parks
         \/ f = Service /\ n \in theirs
<1>1. CASE f = saved.form /\ n \in saved.discarded \cup pending
  BY <1>1, TwoForms DEF Inv, Agrees
<1>2. CASE f = saved.form /\ n \in saved.held
  <2>1. n \in mem.held \/ n \in mem.discarded \/ n \in saved.foreign
    BY <1>2 DEF Inv, Strays
  <2>2. n \in saved.foreign => f = Service /\ n \in theirs
    BY <1>2, TwoForms DEF Inv, Sound, Others, Forms
  <2> QED  BY <1>2, <2>1, <2>2
<1>3. CASE f = saved.leaving.from /\ n \in saved.leaving.parks
  BY <1>3, TwoForms DEF Inv, Agrees
<1> QED  BY <1>1, <1>2, <1>3, TwoForms DEF Inv, NoneForgotten, NamedIn

(* And the record in mind knows what is another home's as the saved one does.*)
LEMMA MindOthers ==
  ASSUME Inv, saved.form = Service
  PROVE  theirs \cap mem.held \subseteq mem.foreign \cup used /\ theirs \cap mem.discarded \subseteq used
<1>1. ASSUME NEW n \in theirs, n \in mem.held PROVE n \in mem.foreign \cup used
  <2>1. n \in saved.held
    BY <1>1 DEF Inv, Strays, Reserved
  <2> QED  BY <1>1, <2>1 DEF Inv, Agrees, Others
<1>2. ASSUME NEW n \in theirs, n \in mem.discarded PROVE n \in used
  <2>1. CASE n \in saved.discarded
    BY <1>2, <2>1 DEF Inv, Others
  <2>2. CASE n \notin saved.discarded
    BY <1>2, <2>2 DEF Inv, Strays, Others
  <2> QED  BY <2>1, <2>2
<1> QED  BY <1>1, <1>2

(* What the record in mind names is named, kept or not, by the saved one or  *)
(* written down, and what it keeps is there or of no use.                    *)
LEMMA MindKept ==
  ASSUME Inv
  PROVE  /\ mem.held \cup mem.discarded \subseteq saved.held \cup saved.discarded \cup pending
         /\ \A n \in mem.held : n \in Lost \/ n \in items[saved.form]
         /\ \A n \in mem.foreign : n \in Lost \/ n \in items[Service]
         /\ mem.held \cup mem.discarded \subseteq made
  BY DEF Inv, Strays, Kept, Lost, Agrees, Reserved

-----------------------------------------------------------------------------

(* A run that stops leaves the files as they are, and its memory goes.       *)
LEMMA StopFits ==
  ASSUME Inv, Refused, UNCHANGED store, Works \/ Faults \/ \E f \in Forms \cup {None} : Fails(f)
  PROVE  Inv'
<1> USE DEF Inv, Refused, End, store, disk, history
<1>1. TypeOK'
  BY BoundsType, NoRunIsRun DEF TypeOK, Steps
<1>2. Sound(saved)' /\ Sound(mem)' /\ Blank'
  BY DEF Sound, Blank
<1>3. Agrees' /\ Strays' /\ Reserved' /\ Kept' /\ Others'
  BY DEF Agrees, Strays, Reserved, Kept, Lost, Others
<1>4. At'
  BY DEF At, Copies, Leaves, Sweeps, Writes
<1>5. NoneForgotten'
  BY DEF NoneForgotten, NamedIn
<1> QED  BY <1>1, <1>2, <1>3, <1>4, <1>5

(* A run begins with the move to finish, the deletions, or its own part.     *)
LEMMA StartFits == ASSUME Inv, NEW cmd \in Commands, Start(cmd) PROVE Inv'
<1> USE DEF Inv, Start, store, disk, history, bounds, Goes
<1>1. /\ UNCHANGED <<items, theirs, answers, made, saved, pending, used, gone>>
      /\ UNCHANGED <<crashes, faults, locks>>
      /\ mem' = saved /\ mem = saved /\ pc = "idle"
  BY DEF At
<1>2. /\ run' \in Runs /\ run'.then \in {"sweep", "change"} \cup {"idle"} /\ pc' \in Steps
      /\ run'.kept = {} /\ run'.to = None
      /\ \/ /\ pc' = "copy" /\ saved.movingTo # None
            /\ run'.todo = Held(saved) /\ run'.then \in {"sweep", "change"}
         \/ /\ pc' = "delete" /\ saved.movingTo = None
            /\ run'.todo = saved.leaving.parks /\ run'.then \in {"sweep", "change"}
         \/ pc' \in {"sweep", "change"} /\ saved.movingTo = None
  <2>1. saved \in Records /\ Held(saved) \subseteq Parks /\ cmd \in Commands \cup {None}
    BY DEF TypeOK, Held, Records
  <2>2. saved.leaving.parks \subseteq Parks
    BY <2>1 DEF Records
  <2>3. CASE saved.movingTo # None
    BY <2>1, <2>3 DEF Finishes, NoRun, Runs, Steps
  <2>4. CASE saved.movingTo = None /\ saved.leaving # NotLeaving /\ cmd # "renew"
    BY <2>1, <2>2, <2>4 DEF Finishes, NoRun, Runs, Steps
  <2>5. CASE saved.movingTo = None /\ ~(saved.leaving # NotLeaving /\ cmd # "renew")
    BY <2>1, <2>5 DEF Finishes, NoRun, Runs, Steps
  <2> QED  BY <2>3, <2>4, <2>5
<1> HIDE DEF Start
<1>3. TypeOK'
  BY <1>1, <1>2 DEF TypeOK
<1>4. Sound(saved)' /\ Sound(mem)' /\ Blank'
  BY <1>1 DEF Sound, Blank
<1>5. Agrees' /\ Strays' /\ Reserved' /\ Kept' /\ Others'
  BY <1>1 DEF Agrees, Strays, Reserved, Kept, Lost, Others
<1>6. At'
  <2>1. Copies'
    BY <1>1, <1>2 DEF Copies, Held, Lost
  <2>2. Leaves'
    BY <1>1, <1>2 DEF Leaves
  <2>3. Sweeps' /\ Writes'
    BY <1>1, <1>2 DEF Sweeps, Writes
  <2> QED  BY <1>2, <2>1, <2>2, <2>3 DEF At
<1>7. NoneForgotten'
  BY <1>1 DEF NoneForgotten, NamedIn
<1> QED  BY <1>3, <1>4, <1>5, <1>6, <1>7

(* A copy of one name: it is kept or written down, and the record says where *)
(* it goes, so the copy is named before it is there.                         *)
LEMMA CopyFits == ASSUME Inv, NEW n \in Parks, Copy(n) PROVE Inv'
<1> USE DEF Inv, store, disk, history
<1>0. /\ pc = "copy" /\ n \in run.todo /\ mem = saved
      /\ saved.movingTo \in Forms /\ saved.form \in Forms /\ saved.form # saved.movingTo
      /\ saved \in Records /\ run \in Runs /\ saved.leaving = NotLeaving
      /\ n \in Held(saved)
  BY DEF Copy, At, Copies, TypeOK, Records, Sound
<1>1. /\ UNCHANGED <<theirs, answers, made, saved, pending, used, gone>>
      /\ \/ UNCHANGED items
         \/ /\ ~LeftThere(n) /\ n \in items[saved.form]
            /\ items' = [items EXCEPT ![saved.movingTo] = @ \cup {n}]
      /\ Works \/ Faults
      /\ mem' = saved
      /\ \/ /\ run' = [run EXCEPT !.todo = @ \ {n}] /\ UNCHANGED pc
            /\ \/ LeftThere(n)
               \/ n \notin items[saved.form]
               \/ items' = [items EXCEPT ![saved.movingTo] = @ \cup {n}]
         \/ pc' = "idle" /\ run' = NoRun
  BY <1>0 DEF Copy, Into, Refused, End
<1>2. TypeOK'
  BY <1>0, <1>1, BoundsType, NoRunIsRun DEF TypeOK, Steps, Runs
<1>3. Sound(saved)' /\ Sound(mem)' /\ Blank'
  BY <1>0, <1>1 DEF Sound, Blank
<1>4. /\ \A f \in Forms : items[f] \subseteq items'[f] /\ items'[f] \subseteq items[f] \cup {n}
      /\ items'[saved.form] = items[saved.form]
      /\ n \in items'[Service] => n \in items[Service] \/ n \notin saved.foreign
  <2>1. CASE UNCHANGED items
    BY <2>1
  <2>2. CASE ~LeftThere(n) /\ items' = [items EXCEPT ![saved.movingTo] = @ \cup {n}]
    <3>1. \A f \in Forms : items'[f] = IF f = saved.movingTo THEN items[f] \cup {n} ELSE items[f]
      BY <2>2 DEF TypeOK
    <3>2. saved.movingTo = Service => n \notin saved.foreign
      BY <1>0, <2>2 DEF LeftThere, Shared
    <3> QED  BY <1>0, <3>1, <3>2, TwoForms
  <2> QED  BY <1>1, <2>1, <2>2
<1>5. Agrees' /\ Strays' /\ Reserved'
  BY <1>0, <1>1, <1>4 DEF Agrees, Strays, Reserved, Held, NotLeaving
<1>6. Kept' /\ Others'
  BY <1>0, <1>1, <1>4, TwoForms DEF Kept, Lost, Others, NotLeaving, Sound
<1>7. At'
  <2>1. Copies'
    <3>1. ASSUME NEW m \in saved.held \ (run.todo \ {n}), pc' = "copy"
          PROVE  m \in Lost \/ m \in items'[saved.movingTo]
      <4>1. CASE m # n
        BY <1>0, <1>1, <1>4, <3>1, <4>1 DEF At, Copies
      <4>2. CASE m = n /\ LeftThere(n)
        BY <1>0, <1>4, <4>2, TwoForms DEF LeftThere, Shared, Kept, Lost
      <4>3. CASE m = n /\ n \notin items[saved.form]
        BY <1>0, <3>1, <4>3 DEF Kept, Lost
      <4>4. CASE m = n /\ items' = [items EXCEPT ![saved.movingTo] = @ \cup {n}]
        BY <1>0, <4>4 DEF TypeOK
      <4> QED  BY <1>0, <1>1, <3>1, <4>1, <4>2, <4>3, <4>4
    <3> QED  BY <1>0, <1>1, <3>1 DEF At, Copies, Held, Runs, Lost
  <2>2. Leaves' /\ Sweeps' /\ Writes'
    BY <1>0, <1>1 DEF Leaves, Sweeps, Writes
  <2> QED  BY <1>0, <1>1, <2>1, <2>2 DEF At
<1>8. NoneForgotten'
  BY <1>0, <1>1, <1>4 DEF NoneForgotten, NamedIn, Held, TypeOK
<1> QED  BY <1>2, <1>3, <1>5, <1>6, <1>7, <1>8

(* Everything copied, the record names the new form, and lists what the old  *)
(* one is to lose: all but what another home keeps there.                    *)
LEMMA NameFits == ASSUME Inv, Name PROVE Inv'
<1> USE DEF Inv, store, disk, history
<1> DEFINE s == Moved(saved)
           stays == IF Shared(saved.form) THEN saved.foreign ELSE {}
           goes == (Held(saved) \ stays) \cup saved.discarded
<1>0. /\ pc = "copy" /\ run.todo = {} /\ mem = saved
      /\ saved.movingTo \in Forms /\ saved.form \in Forms /\ saved.form # saved.movingTo
      /\ saved \in Records /\ run \in Runs /\ saved.leaving = NotLeaving
      /\ run.then \in {"sweep", "change", "idle"} /\ pending \subseteq Parks
  BY DEF Name, At, Copies, TypeOK, Records, Sound
<1>1. CASE Faults /\ Refused /\ UNCHANGED store
  BY <1>1, StopFits
<1>2. CASE ~(Faults /\ Refused /\ UNCHANGED store)
  <2>1. /\ s \in Records /\ s.form = saved.movingTo /\ s.movingTo = None
        /\ s.discarded = {} /\ s.held = saved.held
        /\ s.foreign = IF saved.movingTo = Service THEN saved.foreign ELSE {}
        /\ s.leaving = LeavingOf(saved.form, goes)
    BY <1>0, TwoForms DEF Moved, Held, Records, LeavingOf, NotLeaving, Shared, Sound
  <2>2. /\ s.leaving.parks = goes
        /\ s.leaving.from = IF goes = {} THEN None ELSE saved.form
        /\ s.leaving = NotLeaving => goes = {}
    BY <1>0, <2>1, TwoForms DEF LeavingOf, NotLeaving
  <2>3. /\ mem' = s /\ saved' = s
        /\ run' = [run EXCEPT !.todo = goes, !.kept = {}]
        /\ pc' = "delete" /\ Works
        /\ gone' = gone \ items[saved.movingTo]
        /\ UNCHANGED <<items, theirs, answers, made, pending, used>>
    <3>1. /\ mem' = s /\ saved' = Recorded(s)
          /\ run' = [run EXCEPT !.todo = s.leaving.parks, !.kept = {}]
          /\ pc' = "delete" /\ Works
          /\ gone' = gone \ items[saved.movingTo]
          /\ UNCHANGED <<items, theirs, answers, made, pending, used>>
      BY <1>0, <1>2 DEF Name, Goes
    <3>2. Recorded(s) = s
      BY <1>0, <2>1, TwoForms DEF Recorded
    <3> QED  BY <2>2, <3>1, <3>2
  <2> HIDE DEF s, goes
  <2>4. goes \subseteq Parks
    BY <2>1, <2>2 DEF Records
  <2>5. TypeOK'
    <3>1. run' \in Runs /\ pc' \in Steps
      BY <1>0, <2>3, <2>4 DEF Runs, Steps
    <3>2. gone' \subseteq Parks /\ UNCHANGED <<items, theirs, answers, made, pending, used>>
      BY <2>3 DEF TypeOK
    <3>3. saved' \in Records /\ mem' \in Records
          /\ (s.leaving.from = None) = (s.leaving.parks = {}) /\ s.movingTo = None
      BY <1>0, <2>1, <2>2, <2>3, TwoForms
    <3>4. crashes' \in 0 .. MaxCrashes /\ faults' \in 0 .. MaxFaults /\ locks' \in 0 .. MaxLocks
      BY <2>3, BoundsType
    <3> QED  BY <2>3, <3>1, <3>2, <3>3, <3>4 DEF TypeOK
  <2>6. Sound(saved)' /\ Sound(mem)' /\ Blank'
    BY <1>0, <2>1, <2>2, <2>3, TwoForms DEF Sound, Blank
  <2>7. Agrees' /\ Strays' /\ Reserved'
    BY <1>0, <2>1, <2>2, <2>3 DEF Agrees, Strays, Reserved, goes, Held, TypeOK, Records
  <2>8. Kept'
    <3>1. ASSUME NEW n \in saved.held PROVE n \in Lost \/ n \in items[saved.movingTo]
      BY <1>0, <3>1 DEF At, Copies
    <3>2. ASSUME NEW n \in saved.foreign PROVE n \in Lost \/ n \in items[Service]
      BY <3>2 DEF Kept
    <3>3. Lost' = Lost \ (items[saved.movingTo] \ used)
      BY <2>3 DEF Lost
    <3> QED  BY <1>0, <2>1, <2>3, <3>1, <3>2, <3>3, TwoForms DEF Kept, Forms
  <2>9. Others'
    BY <1>0, <2>1, <2>2, <2>3, TwoForms DEF Others, goes, Held, Forms, Shared, Reserved
  <2>10. At'
    BY <1>0, <2>1, <2>2, <2>3 DEF At, Copies, Leaves, Sweeps, Writes, Runs, Lost
  <2>11. NoneForgotten'
    <3> SUFFICES ASSUME NEW f \in Forms, NEW n \in items[f]
                 PROVE  NamedIn(f, n)' \/ (f = Service /\ n \in theirs)
      BY <2>3 DEF NoneForgotten
    <3>1. CASE f = saved.movingTo
      BY <1>0, <2>1, <2>3, <3>1, TwoForms DEF NoneForgotten, NamedIn, NotLeaving
    <3>2. CASE f = saved.form
      <4>1. n \in saved.held \cup saved.discarded \cup pending \/ (f = Service /\ n \in theirs)
        BY <1>0, <3>2, TwoForms DEF NoneForgotten, NamedIn, NotLeaving
      <4>2. CASE n \in saved.foreign /\ f = Service
        BY <4>2 DEF Others
      <4>3. CASE n \in goes
        BY <2>2, <2>3, <3>2, <4>3 DEF NamedIn
      <4> QED  BY <3>2, <4>1, <4>2, <4>3 DEF goes, Held, Shared
    <3> QED  BY <1>0, <3>1, <3>2 DEF Forms
  <2> QED  BY <2>5, <2>6, <2>7, <2>8, <2>9, <2>10, <2>11
<1> QED  BY <1>1, <1>2

-----------------------------------------------------------------------------

(* A park deleted from the form a move left is one the list of that move     *)
(* names, which no account keeps there and no other home holds unused.       *)
LEMMA DeleteFits == ASSUME Inv, NEW n \in Parks, Delete(n) PROVE Inv'
<1> USE DEF Inv, store, disk, history
<1> DEFINE from == saved.leaving.from
<1>0. /\ pc = "delete" /\ n \in run.todo /\ n \in mem.leaving.parks /\ n \in saved.leaving.parks
      /\ mem.leaving.from = from /\ from \in Forms /\ from # saved.form
      /\ saved.form # None /\ saved.movingTo = None /\ run \in Runs /\ saved.leaving # NotLeaving
  <2>1. pc = "delete" /\ n \in run.todo /\ saved \in Records /\ run \in Runs
    BY DEF Delete, TypeOK
  <2>2. n \in mem.leaving.parks /\ n \in saved.leaving.parks /\ mem.leaving.from = from
    BY <2>1 DEF At, Leaves, Agrees
  <2>3. saved.leaving # NotLeaving /\ from # None
    BY <2>2 DEF NotLeaving, TypeOK
  <2> QED  BY <2>1, <2>2, <2>3, TwoForms DEF Sound, Records
<1>1. /\ UNCHANGED <<theirs, answers, made, saved, pending, used, gone, pc, mem>>
      /\ Works \/ Fails(from)
      /\ \/ /\ items' = [items EXCEPT ![from] = @ \ {n}]
            /\ run' = [run EXCEPT !.todo = @ \ {n}]
         \/ /\ UNCHANGED items
            /\ run' = [run EXCEPT !.todo = @ \ {n}, !.kept = @ \cup {n}]
  BY <1>0 DEF Delete
<1> HIDE DEF from
<1>2. /\ \A f \in Forms : items'[f] \subseteq items[f] /\ items[f] \subseteq items'[f] \cup {n}
      /\ \A f \in Forms : f # from => items'[f] = items[f]
  BY <1>1 DEF TypeOK
<1>3. TypeOK'
  <2>1. run' \in Runs
    <3>1. [run EXCEPT !.todo = @ \ {n}] \in Runs
      BY <1>0 DEF Runs
    <3>2. [run EXCEPT !.todo = @ \ {n}, !.kept = @ \cup {n}] \in Runs
      BY <1>0 DEF Runs
    <3> QED  BY <1>1, <3>1, <3>2
  <2>2. items' \in [Forms -> SUBSET Parks]
    <3>1. CASE UNCHANGED items
      BY <3>1 DEF TypeOK
    <3>2. CASE items' = [items EXCEPT ![from] = @ \ {n}]
      BY <1>0, <3>2 DEF TypeOK
    <3> QED  BY <1>1, <3>1, <3>2
  <2> QED  BY <1>0, <1>1, <2>1, <2>2, BoundsType DEF TypeOK
<1>4. Sound(saved)' /\ Sound(mem)' /\ Blank'
  BY <1>1 DEF Sound, Blank
<1>a. mem.held = saved.held /\ mem.discarded \subseteq saved.discarded
  BY <1>0, NotRenewing DEF Renewing
<1>5. Agrees' /\ Strays' /\ Reserved'
  BY <1>0, <1>1, <1>2, <1>a, NoStrays DEF Agrees, Reserved, from, TypeOK, Records
<1>6. Kept'
  BY <1>0, <1>1, <1>2, TwoForms DEF Kept, Lost, Sound, TypeOK, Records, Forms
<1>7. Others'
  BY <1>0, <1>1, <1>2, TwoForms DEF Others, from
<1>8. At'
  <2>1. (mem.leaving.parks \ (run.todo \cup run.kept))' \cap items'[from] = {}
    <3>1. CASE items' = [items EXCEPT ![from] = @ \ {n}] /\ run' = [run EXCEPT !.todo = @ \ {n}]
      BY <1>0, <1>1, <3>1 DEF At, Leaves, TypeOK, Runs
    <3>2. CASE UNCHANGED items /\ run' = [run EXCEPT !.todo = @ \ {n}, !.kept = @ \cup {n}]
      BY <1>0, <1>1, <3>2, TwoForms DEF At, Leaves, Runs
    <3> QED  BY <1>1, <3>1, <3>2
  <2>2. run'.then = run.then /\ run'.to = run.to /\ run'.todo \cup run'.kept \subseteq run.todo \cup run.kept
    BY <1>0, <1>1 DEF Runs
  <2> QED  BY <1>0, <1>1, <2>1, <2>2 DEF At, Copies, Leaves, Sweeps, Writes
<1>9. NoneForgotten'
  BY <1>1, <1>2 DEF NoneForgotten, NamedIn
<1> QED  BY <1>3, <1>4, <1>5, <1>6, <1>7, <1>8, <1>9

(* What could not be deleted stays on the list, saved, or in mind alone.     *)
LEMMA TakenOutFits == ASSUME Inv, TakenOut PROVE Inv'
<1> USE DEF Inv, store, disk, history
<1> DEFINE left == [mem EXCEPT !.leaving = LeavingOf(@.from, run.kept)]
<1>0. /\ pc = "delete" /\ run.todo = {} /\ run.kept \subseteq mem.leaving.parks
      /\ mem \in Records /\ saved \in Records /\ run \in Runs /\ saved.movingTo = None
      /\ run.then \in {"sweep", "change", "idle", "moving"}
      /\ mem.held = saved.held /\ mem.discarded \subseteq saved.discarded
  BY NotRenewing DEF TakenOut, At, Leaves, Copies, TypeOK, Renewing
<1>1. /\ left \in Records /\ left.held = mem.held /\ left.foreign = mem.foreign
      /\ left.discarded = mem.discarded /\ left.form = mem.form /\ left.movingTo = mem.movingTo
      /\ left.leaving.parks = run.kept /\ (left.leaving.from = None) = (run.kept = {})
      /\ run.kept # {} => left.leaving.from = mem.leaving.from
      /\ run.kept = {} => left.leaving = NotLeaving
  <2>1. mem.leaving.from = None => run.kept = {}
    BY <1>0 DEF TypeOK
  <2> QED  BY <1>0, <2>1 DEF LeavingOf, NotLeaving, Records
<1>2. left # mem => saved.form # None /\ mem.form = saved.form /\ Recorded(left) = left
  <2>1. mem.leaving = NotLeaving => left = mem
    <3>1. SUFFICES ASSUME mem.leaving = NotLeaving PROVE left = mem
      OBVIOUS
    <3>2. run.kept = {} /\ left.leaving = mem.leaving
      BY <1>0, <1>1, <3>1 DEF NotLeaving
    <3> QED  BY <1>0, <1>1, <3>2 DEF Records
  <2>2. mem.leaving # NotLeaving => mem.form # None
    BY DEF Sound
  <2>3. mem.leaving # NotLeaving => saved.form # None
    BY LeavingIs DEF Agrees, Blank
  <2> QED  BY <1>1, <2>1, <2>2, <2>3 DEF Recorded, Agrees
<1>3. /\ UNCHANGED <<items, theirs, answers, made, pending, used, gone>> /\ (Works \/ Faults)
      /\ UNCHANGED saved \/ (left # mem /\ saved' = left)
      /\ \/ mem' = saved' /\ pc' = "idle" /\ run' = NoRun
         \/ /\ mem' = left /\ pc' = run.then /\ UNCHANGED run /\ run.then # "idle"
            /\ run.then = "moving" => left.leaving = NotLeaving
            /\ left # mem \/ mem = left
  <2>1. CASE left = mem
    BY <1>0, <1>1, <2>1 DEF TakenOut, End, Goes
  <2>2. CASE left # mem
    BY <1>0, <1>1, <1>2, <2>2 DEF TakenOut, End, Goes
  <2> QED  BY <2>1, <2>2
<1> HIDE DEF left
<1>4. TypeOK'
  <2>1. run' \in Runs /\ pc' \in Steps
    BY <1>0, <1>3, NoRunIsRun DEF Steps
  <2>2. left.movingTo # None => left.movingTo # left.form
    BY <1>1 DEF TypeOK
  <2>3. saved' \in {saved, left} /\ mem' \in {saved, left}
    BY <1>3
  <2>4. \A t \in {saved, left} :
           /\ t \in Records /\ (t.leaving.from = None) = (t.leaving.parks = {})
           /\ t.movingTo # None => t.movingTo # t.form
    BY <1>1, <2>2 DEF TypeOK
  <2>5. crashes' \in 0 .. MaxCrashes /\ faults' \in 0 .. MaxFaults /\ locks' \in 0 .. MaxLocks
    BY <1>3, BoundsType
  <2> QED  BY <1>3, <2>1, <2>3, <2>4, <2>5 DEF TypeOK
<1>5. Sound(left)
  <2>1. left.leaving # NotLeaving => mem.leaving # NotLeaving /\ left.leaving.from = mem.leaving.from
    BY <1>0, <1>1, LeavingIs
  <2> QED  BY <1>1, <2>1 DEF Sound
<1>6. Sound(saved)' /\ Sound(mem)'
  BY <1>3, <1>5 DEF Sound
<1>7. (mem.leaving.parks \ run.kept) \cap items[mem.leaving.from] = {} \/ mem.leaving.from = None
  BY <1>0 DEF At, Leaves
<1>8. CASE UNCHANGED saved
  <2>1. Blank' /\ Reserved' /\ Kept' /\ Others' /\ NoneForgotten'
    BY <1>3, <1>8 DEF Blank, Reserved, Kept, Lost, Others, NoneForgotten, NamedIn
  <2>a. Strays'
    BY <1>0, <1>1, <1>3, <1>8, NoStrays
  <2>2. CASE mem' = saved' /\ pc' = "idle" /\ run' = NoRun
    <3>1. Agrees' /\ At'
      BY <1>0, <1>3, <1>8, <2>2 DEF Agrees, At, Copies, Leaves, Sweeps, Writes
    <3> QED  BY <1>4, <1>6, <2>1, <2>a, <3>1
  <2>3. CASE mem' = left /\ pc' = run.then /\ UNCHANGED run /\ run.then # "idle"
    <3>1. Agrees'
      <4>1. left.leaving.parks \subseteq mem.leaving.parks
        BY <1>0, <1>1
      <4>2. saved.leaving.from # None =>
              (saved.leaving.parks \ left.leaving.parks) \cap items[saved.leaving.from] = {}
        BY <1>1, <1>7, LeavingIs DEF Agrees
      <4>3. mem.form = left.form /\ (mem.form \in {None, saved.form} \/ pc' = "moving")
        BY <1>0, <1>1, <2>3 DEF Agrees, At, Sweeps
      <4> QED  BY <1>0, <1>1, <1>3, <1>8, <2>3, <4>1, <4>2, <4>3 DEF Agrees
    <3>2. At'
      BY <1>0, <1>1, <1>3, <1>8, <2>3 DEF At, Copies, Leaves, Sweeps, Writes
    <3> QED  BY <1>4, <1>6, <2>1, <2>a, <3>1, <3>2
  <2> QED  BY <1>3, <2>2, <2>3
<1>9. CASE left # mem /\ saved' = left
  <2>1. Blank'
    BY <1>1, <1>2, <1>9 DEF Blank
  <2>2. Reserved' /\ Kept'
    BY <1>0, <1>1, <1>2, <1>3, <1>9 DEF Reserved, Kept, Lost, Agrees
  <2>3. Others'
    <3>1. left.leaving.from = Service => saved.leaving.from = Service
      BY <1>0, <1>1, TwoForms DEF Agrees
    <3> QED  BY <1>0, <1>1, <1>2, <1>3, <1>9, <3>1, MindOthers, TwoForms DEF Others, Agrees
  <2>4. NoneForgotten'
    <3>1. ASSUME NEW f \in Forms, NEW n \in items[f]
          PROVE  NamedIn(f, n)' \/ (f = Service /\ n \in theirs)
      <4>1. CASE f = saved.form /\ n \in mem.held \cup mem.discarded \cup pending
        BY <1>1, <1>2, <1>3, <1>9, <4>1 DEF NamedIn
      <4>2. CASE f = mem.leaving.from /\ n \in mem.leaving.parks
        BY <1>1, <1>3, <1>7, <1>9, <4>2, TwoForms DEF NamedIn
      <4> QED  BY <1>0, <4>1, <4>2, MindNames
    <3> QED  BY <1>3, <3>1 DEF NoneForgotten
  <2>5. Agrees' /\ Strays'
    BY <1>0, <1>1, <1>2, <1>3, <1>9 DEF Agrees, Strays
  <2>6. At'
    <3>1. mem' = left /\ saved'.movingTo = None /\ mem'.form = saved'.form /\ mem'.form # None
      BY <1>0, <1>1, <1>2, <1>3, <1>9 DEF Agrees
    <3>2. CASE pc' = "idle"
      BY <1>3, <1>9, <3>1, <3>2 DEF At, Copies, Leaves, Sweeps, Writes
    <3>3. CASE pc' = run.then /\ UNCHANGED run /\ run.then # "idle"
      <4>1. pc' \in {"sweep", "change", "moving"}
        BY <1>0, <3>3
      <4>2. pc' = "moving" => mem'.leaving = NotLeaving /\ run'.to \in Forms \ {mem'.form}
        BY <1>0, <1>1, <1>3, <3>1, <3>3 DEF At, Leaves
      <4> QED  BY <3>1, <4>1, <4>2 DEF At, Copies, Leaves, Sweeps, Writes
    <3> QED  BY <1>3, <3>2, <3>3
  <2> QED  BY <1>4, <1>6, <2>1, <2>2, <2>3, <2>4, <2>5, <2>6
<1> QED  BY <1>3, <1>8, <1>9

-----------------------------------------------------------------------------

(* What names written down come to: given back, listed, or left as they are. *)
LEMMA ResolveFits ==
  ASSUME Inv, NEW names, NEW then, Resolve(names, then),
         \/ pc = "sweep" /\ names = pending /\ then = "change"
         \/ pc = "change" /\ run.op = "repair" /\ names = items[HomeForm] \cup pending /\ then = "idle"
  PROVE  Inv'
<1> USE DEF Inv, store, disk, history
<1> DEFINE unnamed == {n \in names : ~Names(mem, n)}
<1>1. PICK unread \in SUBSET unnamed :
        \E given \in SUBSET ((unnamed \ unread) \cap items[HomeForm]) :
        \E older \in SUBSET mem.held :
          LET ours    == (unnamed \ unread) \cap items[HomeForm] \cap pending
              strange == IF Shared(HomeForm) THEN given \ pending ELSE {}
              s == [mem EXCEPT !.held      = (@ \ older) \cup given,
                               !.foreign   = (@ \ older) \cup strange,
                               !.discarded = @ \cup (ours \ given) \cup (older \ mem.foreign)]
          IN /\ Cardinality(older) <= Cardinality(given \cap ours)
             /\ IF Refuses(HomeForm) THEN unread = unnamed /\ Works
                ELSE IF unread = {} THEN Works
                ELSE Cardinality(unread) = 1 /\ Faults
             /\ mem' = s
             /\ saved' = IF s = mem THEN saved ELSE Recorded(s)
             /\ IF unread \cap pending = pending
                THEN Purges(s, then)
                ELSE Goes("list") /\ run' = [run EXCEPT !.kept = unread \cap pending, !.then = then]
             /\ UNCHANGED <<store, pending, history>>
  BY Zenon DEF Resolve
<1>a. PICK given \in SUBSET ((unnamed \ unread) \cap items[HomeForm]) :
        \E older \in SUBSET mem.held :
          LET ours    == (unnamed \ unread) \cap items[HomeForm] \cap pending
              strange == IF Shared(HomeForm) THEN given \ pending ELSE {}
              s == [mem EXCEPT !.held      = (@ \ older) \cup given,
                               !.foreign   = (@ \ older) \cup strange,
                               !.discarded = @ \cup (ours \ given) \cup (older \ mem.foreign)]
          IN /\ Works \/ Faults
             /\ mem' = s
             /\ saved' = IF s = mem THEN saved ELSE Recorded(s)
             /\ IF unread \cap pending = pending
                THEN Purges(s, then)
                ELSE Goes("list") /\ run' = [run EXCEPT !.kept = unread \cap pending, !.then = then]
             /\ UNCHANGED <<store, pending, history>>
  BY <1>1, Zenon
<1>b. PICK older \in SUBSET mem.held :
          LET ours    == (unnamed \ unread) \cap items[HomeForm] \cap pending
              strange == IF Shared(HomeForm) THEN given \ pending ELSE {}
              s == [mem EXCEPT !.held      = (@ \ older) \cup given,
                               !.foreign   = (@ \ older) \cup strange,
                               !.discarded = @ \cup (ours \ given) \cup (older \ mem.foreign)]
          IN /\ Works \/ Faults
             /\ mem' = s
             /\ saved' = IF s = mem THEN saved ELSE Recorded(s)
             /\ IF unread \cap pending = pending
                THEN Purges(s, then)
                ELSE Goes("list") /\ run' = [run EXCEPT !.kept = unread \cap pending, !.then = then]
             /\ UNCHANGED <<store, pending, history>>
  BY <1>a
<1> DEFINE ours    == (unnamed \ unread) \cap items[HomeForm] \cap pending
           strange == IF Shared(HomeForm) THEN given \ pending ELSE {}
           lets == older \ mem.foreign
           s == [mem EXCEPT !.held      = (@ \ older) \cup given,
                            !.foreign   = (@ \ older) \cup strange,
                            !.discarded = @ \cup (ours \ given) \cup (older \ mem.foreign)]
<1>2. /\ UNCHANGED <<items, theirs, answers, made, pending, used, gone>> /\ (Works \/ Faults)
      /\ mem' = s /\ saved' = IF s = mem THEN saved ELSE Recorded(s)
      /\ \/ pc' = "purge" /\ Purges(s, then)
         \/ /\ pc' = "list" /\ run' = [run EXCEPT !.kept = unread \cap pending, !.then = then]
            /\ pending # {}
      /\ then \in {"change", "idle"}
  BY <1>b DEF Goes, Purges
<1>3. /\ saved.movingTo = None /\ mem.movingTo = None /\ mem.form = saved.form
      /\ mem \in Records /\ saved \in Records /\ run \in Runs /\ pending \subseteq Parks
      /\ HomeForm \in Forms /\ (saved.form # None => HomeForm = saved.form)
      /\ items[HomeForm] \subseteq Parks /\ names \subseteq Parks /\ pending \subseteq names
      /\ mem.held = saved.held /\ mem.discarded \subseteq saved.discarded
  BY HomeFormIs, NotRenewing DEF At, Copies, Sweeps, Agrees, TypeOK, Renewing
<1>5. /\ given \cap (mem.held \cup mem.discarded) = {} /\ ours \cap (mem.held \cup mem.discarded) = {}
      /\ given \subseteq items[HomeForm] /\ ours \subseteq pending /\ older \subseteq mem.held
      /\ strange \subseteq given /\ strange \cap pending = {}
      /\ HomeForm = Files => strange = {}
      /\ HomeForm = Service => given \subseteq strange \cup pending
      /\ lets \subseteq older /\ lets \cap mem.foreign = {} /\ older \subseteq lets \cup mem.foreign
      /\ given \subseteq unnamed /\ unnamed \subseteq names /\ (then = "change" => names = pending)
      /\ \A n \in (pending \ unread) \cap items[HomeForm] : Names(mem, n) \/ n \in ours
  <2>1. unnamed \cap (mem.held \cup mem.discarded) = {} /\ unnamed \subseteq names
    BY DEF Names
  <2>2. given \subseteq unnamed /\ ours \subseteq unnamed /\ given \subseteq items[HomeForm]
        /\ ours \subseteq pending
    BY <1>a
  <2>3. strange \subseteq given /\ strange \cap pending = {}
        /\ (HomeForm = Files => strange = {}) /\ (HomeForm = Service => given \subseteq strange \cup pending)
    BY TwoForms DEF Shared
  <2>4. \A n \in (pending \ unread) \cap items[HomeForm] : Names(mem, n) \/ n \in ours
    BY <1>3
  <2> HIDE DEF unnamed, ours, strange
  <2> QED  BY <2>1, <2>2, <2>3, <2>4
<1> HIDE DEF ours, strange, lets, unnamed
<1>4. /\ s \in Records
      /\ s.held = (mem.held \ older) \cup given
      /\ s.foreign = (mem.foreign \ older) \cup strange
      /\ s.discarded = mem.discarded \cup (ours \ given) \cup lets
      /\ s.form = saved.form /\ s.movingTo = None /\ s.leaving = mem.leaving
  <2>1. given \subseteq Parks /\ ours \subseteq Parks /\ strange \subseteq Parks
        /\ lets \subseteq Parks
    BY <1>3, <1>5 DEF Records
  <2> QED  BY <1>3, <1>5, <2>1 DEF Records, lets
<1>6. \A n \in pending \ unread : Names(s, n) \/ n \notin items[HomeForm] \/ n \in mem.foreign
  BY <1>3, <1>4, <1>5 DEF Names
<1>7. s = mem => saved' = saved
  BY <1>2
<1>8. s # mem => saved' = Recorded(s)
  BY <1>2
<1>9. saved.form = None => pending = {} /\ mem.held = {} /\ mem.discarded = {} /\ ours = {} /\ older = {}
  BY <1>3, <1>5 DEF Blank
<1> HIDE DEF s
<1>10. given \ pending \subseteq theirs /\ (given \ pending # {} => HomeForm = Service)
  <2>1. SUFFICES ASSUME NEW n \in given \ pending PROVE n \in theirs /\ HomeForm = Service
    OBVIOUS
  <2>2. saved.leaving.from = HomeForm => saved.leaving = NotLeaving
    BY <1>3 DEF Sound
  <2>3. mem.leaving.parks = {} \/ HomeForm # saved.leaving.from
    BY <2>2 DEF Agrees, NotLeaving
  <2> QED  BY <1>3, <1>5, <2>1, <2>3, MindNames
<1>11. /\ saved'.held = s.held /\ saved'.discarded \subseteq s.discarded \cup saved.discarded
       /\ saved'.movingTo = None
       /\ saved'.form = IF s # mem THEN HomeForm ELSE saved.form
       /\ saved' \in Records
  BY <1>3, <1>4, <1>7, <1>8, RecordedIs DEF Agrees
<1>12. mem.foreign # {} => saved.form = Service
  BY <1>3, TwoForms DEF Sound, Blank, Agrees, Records, Forms
<1>13. TypeOK'
  <2>1. run' \in Runs /\ pc' \in Steps
    <3>1. s.discarded \subseteq Parks
      BY <1>4 DEF Records
    <3>2. unread \cap pending \subseteq Parks /\ then \in Steps
      BY <1>2, <1>3 DEF Steps
    <3>3. /\ [NoRun EXCEPT !.op = run.op, !.todo = s.discarded, !.kept = s.discarded,
                            !.then = then] \in Runs
          /\ [run EXCEPT !.kept = unread \cap pending, !.then = then] \in Runs
      BY <1>3, <3>1, <3>2 DEF Runs, NoRun
    <3> QED  BY <1>2, <3>3 DEF Steps, Purges
  <2>2. /\ (s.leaving.from = None) = (s.leaving.parks = {})
        /\ (saved'.leaving.from = None) = (saved'.leaving.parks = {})
    BY <1>3, <1>4, <1>7, <1>8, RecordedIs DEF TypeOK
  <2> QED  BY <1>2, <1>4, <1>11, <2>1, <2>2, BoundsType DEF TypeOK
<1>14. At'
  <2>1. mem'.form = saved'.form \/ then = "idle"
    <3>1. CASE s = mem \/ saved.form # None
      BY <1>2, <1>3, <1>4, <1>11, <3>1
    <3>2. CASE saved.form = None /\ s # mem /\ then = "change"
      <4>1. given = {} /\ strange = {} /\ lets = {}
        BY <1>5, <1>9, <3>2
      <4>2. s.held = mem.held /\ s.foreign = mem.foreign /\ s.discarded = mem.discarded
        BY <1>4, <1>9, <3>2, <4>1
      <4>3. s = mem
        BY <1>3, <1>4, <4>2 DEF Records
      <4> QED  BY <3>2, <4>3
    <3> QED  BY <1>2, <3>1, <3>2
  <2>2. pc' = "list" => /\ run'.kept \subseteq pending /\ saved.form # None /\ saved'.form = saved.form
                       /\ \A n \in pending \ run'.kept : Names(s, n) \/ n \notin items[saved.form]
    <3>1. \A n \in pending : n \notin mem.foreign \/ n \notin items[HomeForm]
      <4>1. SUFFICES ASSUME NEW n \in pending, n \in mem.foreign, n \in items[HomeForm] PROVE FALSE
        OBVIOUS
      <4>2. HomeForm = Service /\ n \in saved.foreign
        BY <1>3, <1>12, <4>1, TwoForms DEF Agrees
      <4> QED  BY <4>1, <4>2 DEF Others, Reserved
    <3>2. pc' = "list" => run'.kept = unread \cap pending /\ saved.form # None
      BY <1>2, <1>3, <1>9 DEF Runs
    <3> QED  BY <1>3, <1>6, <1>11, <3>1, <3>2
  <2>3. run'.then = then /\ (pc' = "purge" => run'.todo = s.discarded /\ run'.kept = s.discarded)
    BY <1>2, <1>3 DEF Runs, Purges, NoRun
  <2>4. s.discarded \subseteq saved'.discarded \cup saved'.held
    BY <1>3, <1>4, <1>7, <1>8, RecordedIs
  <2> QED  BY <1>2, <1>11, <2>1, <2>2, <2>3, <2>4 DEF At, Copies, Leaves, Sweeps, Writes, Names
<1>15. CASE s = mem
  <2>1. Sound(saved)' /\ Sound(mem)' /\ Blank' /\ Reserved' /\ Kept' /\ Others' /\ NoneForgotten'
    BY <1>2, <1>7, <1>15 DEF Sound, Blank, Reserved, Kept, Lost, Others, NoneForgotten, NamedIn
  <2>2. Agrees' /\ Strays'
    BY <1>2, <1>3, <1>7, <1>15, NoStrays DEF Agrees
  <2> QED  BY <1>13, <1>14, <2>1, <2>2
<1>16. CASE s # mem
  <2>1. /\ saved'.held = s.held /\ saved'.foreign = s.foreign /\ saved'.discarded = s.discarded
        /\ saved'.form = HomeForm /\ saved'.movingTo = None /\ saved'.leaving = mem.leaving
    BY <1>3, <1>4, <1>8, <1>16, RecordedIs
  <2>2. Sound(saved)' /\ Sound(mem)'
    <3>1. s.foreign \subseteq s.held /\ s.held \cap s.discarded = {}
      BY <1>4, <1>5 DEF Sound
    <3>2. HomeForm = Files => s.foreign = {}
      BY <1>3, <1>4, <1>5, <1>12, TwoForms
    <3> QED  BY <1>2, <1>3, <1>4, <2>1, <3>1, <3>2, TwoForms DEF Sound
  <2>3. Blank'
    BY <1>3, <2>1, TwoForms DEF Blank
  <2>4. Agrees' /\ Strays'
    BY <1>2, <1>3, <1>4, <2>1, NoStrays DEF Agrees
  <2>5. Reserved'
    BY <1>2, <1>3, <1>4, <1>5, <2>1 DEF Reserved, Agrees
  <2>6. Kept'
    <3>1. ASSUME NEW n \in s.held PROVE n \in Lost \/ n \in items[HomeForm]
      BY <1>3, <1>4, <1>5, <1>9, <3>1 DEF Kept, Agrees
    <3>2. ASSUME NEW n \in s.foreign PROVE n \in Lost \/ n \in items[Service]
      BY <1>3, <1>4, <1>5, <1>10, <3>2, TwoForms DEF Kept, Agrees, Forms
    <3> QED  BY <1>2, <2>1, <3>1, <3>2 DEF Kept, Lost
  <2>7. Others'
    <3>1. s.foreign \cap items[Service] \subseteq theirs
      BY <1>4, <1>5, <1>10 DEF Others, Agrees
    <3>2. HomeForm = Service => theirs \cap s.held \subseteq s.foreign \cup used
      BY <1>3, <1>4, <1>5, <1>9, MindOthers DEF Reserved
    <3>3. HomeForm = Service => theirs \cap s.discarded \subseteq used
      BY <1>3, <1>4, <1>5, <1>9, MindOthers DEF Reserved
    <3>4. mem.leaving.from = Service => theirs \cap mem.leaving.parks \subseteq used
      BY DEF Others, Agrees
    <3> QED  BY <1>2, <2>1, <3>1, <3>2, <3>3, <3>4, TwoForms DEF Others
  <2>8. NoneForgotten'
    <3>1. ASSUME NEW f \in Forms, NEW n \in items[f]
          PROVE  NamedIn(f, n)' \/ (f = Service /\ n \in theirs)
      <4>1. CASE f = saved.form /\ n \in mem.held \cup mem.discarded \cup pending
        <5>1. n \in mem.foreign => f = Service /\ n \in theirs
          BY <1>12, <4>1 DEF Others, Agrees
        <5> QED  BY <1>2, <1>3, <1>4, <1>5, <2>1, <4>1, <5>1, TwoForms DEF NamedIn
      <4>2. CASE f = mem.leaving.from /\ n \in mem.leaving.parks
        BY <2>1, <4>2 DEF NamedIn
      <4> QED  BY <1>3, <4>1, <4>2, MindNames
    <3> QED  BY <1>2, <3>1 DEF NoneForgotten
  <2> QED  BY <1>13, <1>14, <2>2, <2>3, <2>4, <2>5, <2>6, <2>7, <2>8
<1> QED  BY <1>15, <1>16

(* What stays written down: what no record names and is there.               *)
LEMMA ListFits == ASSUME Inv, List PROVE Inv'
<1> USE DEF Inv, store, disk, history
<1>1. CASE Faults /\ Refused /\ UNCHANGED store
  BY <1>1, StopFits
<1>2. CASE ~(Faults /\ Refused /\ UNCHANGED store)
  <2>1. /\ pc = "list" /\ pc' = "purge" /\ pending' = run.kept
        /\ Purges(mem, run.then) /\ Works
        /\ UNCHANGED <<items, theirs, answers, made, saved, mem, used, gone>>
    BY <1>2 DEF List, Purges, Goes
  <2>2. /\ run \in Runs /\ mem.discarded \subseteq Parks /\ run.kept \subseteq pending
        /\ saved.form # None /\ run.then \in {"change", "idle"} /\ saved.movingTo = None
        /\ \A n \in pending \ run.kept : Names(mem, n) \/ n \notin items[saved.form]
        /\ mem.held = saved.held /\ mem.discarded \subseteq saved.discarded
    BY <2>1, NotRenewing DEF TypeOK, Records, At, Sweeps, Copies, Renewing
  <2>3. /\ run'.then = run.then /\ run'.todo = mem.discarded /\ run'.kept = mem.discarded
        /\ run' \in Runs
    BY <2>1, <2>2 DEF Runs, Purges, NoRun, Steps
  <2>4. TypeOK'
    BY <2>1, <2>2, <2>3, BoundsType DEF TypeOK, Steps
  <2>5. Sound(saved)' /\ Sound(mem)' /\ Blank' /\ Agrees' /\ Reserved' /\ Kept' /\ Others'
    BY <2>1, <2>2 DEF Sound, Blank, Agrees, Reserved, Kept, Lost, Others
  <2>a. Strays'
    BY <2>1, <2>2, NoStrays
  <2>6. At'
    BY <2>1, <2>2, <2>3 DEF At, Copies, Leaves, Sweeps, Writes
  <2>7. NoneForgotten'
    <3>1. ASSUME NEW f \in Forms, NEW n \in items[f]
          PROVE  NamedIn(f, n)' \/ (f = Service /\ n \in theirs)
      <4>1. Names(mem, n) => n \in saved.held \cup saved.discarded
        BY <2>2 DEF Names
      <4> QED  BY <2>1, <2>2, <3>1, <4>1, TwoForms DEF NoneForgotten, NamedIn
    <3> QED  BY <2>1, <3>1 DEF NoneForgotten
  <2> QED  BY <2>4, <2>5, <2>a, <2>6, <2>7
<1> QED  BY <1>1, <1>2

(* A sweep, and the reclaim of repair, resolve names, or stop.               *)
LEMMA SweepFits == ASSUME Inv, Sweep \/ Reclaim PROVE Inv'
<1>1. CASE Refused /\ UNCHANGED store /\ (Faults \/ Fails(HomeForm))
  BY <1>1, StopFits, HomeFormIs DEF Inv
<1>2. CASE pc = "sweep" /\ Resolve(pending, "change")
  BY <1>2, ResolveFits
<1>3. CASE pc = "change" /\ run.op = "repair" /\ Resolve(items[HomeForm] \cup pending, "idle")
  BY <1>3, ResolveFits
<1> QED  BY <1>1, <1>2, <1>3 DEF Sweep, Reclaim

(* Nothing is deleted, and only what is written down is written.             *)
Grows ==
  \A f \in Forms :
    /\ items[f] \subseteq items'[f]
    /\ \A n \in items'[f] \ items[f] :
         /\ f = saved.form /\ n \in pending
         /\ n \notin saved.held \cup saved.discarded \cup saved.leaving.parks

(* Where the store stays as it is, that is so.                               *)
LEMMA SameGrows == ASSUME UNCHANGED items PROVE Grows
  BY DEF Grows

(* A change keeps a park under a name written down, or none; lists each one  *)
(* it lets go of, or leaves it to the other home; and saves that, or is a    *)
(* renewal that goes on without.                                             *)
LEMMA ChangeKeeps ==
  ASSUME Inv, saved.movingTo = None, saved.form \in Forms, mem.form \in {None, saved.form},
         NEW s \in Records, NEW fresh \in SUBSET pending,
         s.form = mem.form, s.movingTo = None, s.leaving = mem.leaving,
         s.held \subseteq mem.held \cup fresh, s.foreign \subseteq mem.foreign \cap s.held,
         s.held \cap s.discarded = {}, mem.discarded \subseteq s.discarded,
         (mem.foreign \ s.foreign) \cap s.held \subseteq used',
         \A n \in s.discarded \ mem.discarded :
            n \in mem.held \ s.held /\ (n \in used' \/ n \notin mem.foreign),
         \A n \in mem.held \ s.held : n \in s.discarded \/ n \in mem.foreign,
         \A n \in fresh : n \notin saved.held /\ (n \in gone \/ n \in items[saved.form]),
         \/ saved' = Recorded(s)
         \/ /\ saved' = saved /\ Renewing' /\ pc # "purge" /\ mem.held \ s.held \subseteq Lost'
            /\ fresh # {} => pc' = "purge" /\ run'.then = "idle",
         mem' \in {s, saved'},
         used \subseteq used', gone \subseteq gone', Grows, UNCHANGED <<theirs, made, pending>>
  PROVE  /\ Sound(saved)' /\ Sound(mem)' /\ Blank' /\ Agrees' /\ Strays'
         /\ Reserved' /\ Kept' /\ Others' /\ NoneForgotten'
<1> USE DEF Inv
<1>1. /\ Recorded(s) \in Records /\ Recorded(s).form = saved.form /\ Recorded(s).held = s.held
      /\ Recorded(s).foreign = s.foreign /\ Recorded(s).discarded = s.discarded
      /\ Recorded(s).movingTo = None /\ Recorded(s).leaving = mem.leaving
  BY TwoForms, HomeFormIs, RecordedIs
<1>2. Lost \subseteq Lost'
  BY DEF Lost
<1>3. s.foreign \subseteq saved.foreign /\ (saved.form = Files => s.foreign = {})
  BY DEF Agrees, Sound
<1>4. Sound(s) /\ Sound(Recorded(s))
  <2>1. mem.leaving # NotLeaving => mem.form = saved.form /\ mem.leaving.from # mem.form
    BY TwoForms DEF Sound
  <2> QED  BY <1>1, <1>3, <2>1, TwoForms DEF Sound
<1>5. Sound(saved)' /\ Sound(mem)' /\ Blank'
  <2>1. saved' \in {saved, Recorded(s)} /\ mem' \in {saved, s, Recorded(s)}
    OBVIOUS
  <2>2. Sound(saved)'
    BY <1>4, <2>1 DEF Sound
  <2>3. Sound(mem)'
    BY <1>4, <2>1 DEF Sound
  <2>4. saved'.form \in Forms
    BY <1>1, <2>1
  <2> QED  BY <2>2, <2>3, <2>4, TwoForms DEF Blank
<1>a. /\ items[saved.form] \subseteq items'[saved.form] /\ items[Service] \subseteq items'[Service]
      /\ \A f \in Forms : \A n \in items'[f] \ items[f] :
           /\ f = saved.form /\ n \in pending
           /\ n \notin saved.held \cup saved.discarded \cup saved.leaving.parks
  BY TwoForms DEF Grows
<1>b. saved.leaving.from # None =>
        (saved.leaving.parks \ mem.leaving.parks) \cap items'[saved.leaving.from] = {}
  <2>1. saved.leaving.from \in Forms \cup {None}
    BY DEF TypeOK, Records
  <2> QED  BY <1>a, <2>1 DEF Agrees
<1>c. s.foreign \cap items'[Service] \subseteq theirs /\ saved.foreign \cap items'[Service] \subseteq theirs
  BY <1>3, <1>a, TwoForms DEF Others, Sound
<1>d. \A f \in Forms : items'[f] \subseteq made
  BY <1>a DEF Reserved
<1>6. ASSUME mem' = saved' PROVE Agrees' /\ Strays'
  BY <1>1, <1>6 DEF Agrees, Strays
<1>7. CASE saved' = Recorded(s)
  <2>1. Agrees' /\ Strays'
    BY <1>1, <1>7 DEF Agrees, Strays
  <2>2. Reserved'
    <3>1. s.held \subseteq made /\ s.discarded \subseteq made
      BY MindKept DEF Reserved
    <3>2. mem.leaving.parks \subseteq made
      BY DEF Agrees, Reserved
    <3> QED  BY <1>1, <1>7, <1>d, <3>1, <3>2 DEF Reserved
  <2>3. Kept'
    <3>1. \A n \in s.held : n \in Lost \/ n \in items[saved.form]
      BY MindKept DEF Lost
    <3>2. \A n \in s.foreign : n \in Lost \/ n \in items[Service]
      BY <1>3 DEF Kept
    <3> QED  BY <1>1, <1>2, <1>7, <1>a, <3>1, <3>2 DEF Kept
  <2>4. Others'
    <3>1. saved.form = Service => theirs \cap s.held \subseteq s.foreign \cup used'
      <4>1. theirs \cap fresh = {}
        BY DEF Reserved
      <4> QED  BY <4>1, MindOthers
    <3>2. saved.form = Service => theirs \cap s.discarded \subseteq used'
      BY MindOthers
    <3>3. mem.leaving.from = Service => theirs \cap mem.leaving.parks \subseteq used
      BY DEF Others, Agrees
    <3>4. theirs \subseteq items'[Service] \cup used' /\ s.foreign \cap items'[Service] \subseteq theirs
      BY <1>a, <1>c DEF Others
    <3> QED  BY <1>1, <1>7, <3>1, <3>2, <3>3, <3>4, TwoForms DEF Others
  <2>5. NoneForgotten'
    <3>1. ASSUME NEW f \in Forms, NEW m \in items'[f]
          PROVE  NamedIn(f, m)' \/ (f = Service /\ m \in theirs)
      <4>1. m \in mem.foreign /\ f = saved.form => f = Service /\ m \in theirs
        BY <1>a, <1>c, <3>1, TwoForms DEF Agrees, Sound, Forms
      <4>2. CASE f = saved.form /\ m \in mem.held \cup mem.discarded \cup pending
        BY <1>1, <1>7, <4>1, <4>2 DEF NamedIn
      <4>3. CASE f = mem.leaving.from /\ m \in mem.leaving.parks
        BY <1>1, <1>7, <4>3 DEF NamedIn
      <4>4. CASE m \in items[f]
        BY <3>1, <4>2, <4>3, <4>4, MindNames
      <4>5. CASE m \notin items[f]
        BY <1>a, <3>1, <4>2, <4>5
      <4> QED  BY <4>4, <4>5
    <3> QED  BY <3>1 DEF NoneForgotten
  <2> QED  BY <1>5, <2>1, <2>2, <2>3, <2>4, <2>5
<1>8. CASE saved' = saved
  <2>1. Reserved' /\ NoneForgotten'
    BY <1>8, <1>a, <1>d DEF Reserved, NoneForgotten, NamedIn
  <2>2. Kept'
    BY <1>2, <1>8, <1>a DEF Kept
  <2>3. Others'
    BY <1>8, <1>a, <1>c DEF Others
  <2>4. CASE mem' = s /\ saved' # Recorded(s)
    <3>1. Agrees'
      <4>1. (saved.foreign \ s.foreign) \cap s.held \subseteq used'
        <5>1. ASSUME NEW n \in saved.foreign, n \in s.held, n \notin s.foreign PROVE n \in used'
          <6>1. CASE n \in mem.foreign
            BY <5>1, <6>1
          <6>2. CASE n \notin mem.foreign /\ n \in mem.held
            BY <5>1, <6>2 DEF Agrees
          <6>3. CASE n \in fresh
            BY <5>1, <6>3 DEF Sound
          <6> QED  BY <5>1, <6>1, <6>2, <6>3
        <5> QED  BY <5>1
      <4>2. (saved.discarded \ s.discarded) \cap items'[saved.form] = {}
        BY <1>a, TwoForms DEF Agrees
      <4>3. s.form \in {None, saved.form}
        OBVIOUS
      <4>4. s.movingTo = saved.movingTo /\ s.foreign \subseteq saved.foreign
        BY <1>3
      <4>5. /\ s.leaving.parks \subseteq saved.leaving.parks
            /\ s.leaving.parks # {} => s.leaving.from = saved.leaving.from
            /\ saved.leaving.from # None =>
                 (saved.leaving.parks \ s.leaving.parks) \cap items'[saved.leaving.from] = {}
        BY <1>b DEF Agrees
      <4>6. /\ mem'.movingTo = saved'.movingTo /\ mem'.foreign \subseteq saved'.foreign
            /\ (saved'.foreign \ mem'.foreign) \cap mem'.held \subseteq used'
            /\ mem'.form \in {None, saved'.form}
        BY <1>8, <2>4, <4>1, <4>3, <4>4
      <4>7. (saved'.discarded \ mem'.discarded) \cap items'[saved'.form] = {}
        BY <1>8, <2>4, <4>2
      <4>8. /\ mem'.leaving.parks \subseteq saved'.leaving.parks
            /\ mem'.leaving.parks # {} => mem'.leaving.from = saved'.leaving.from
            /\ saved'.leaving.from # None =>
                 (saved'.leaving.parks \ mem'.leaving.parks) \cap items'[saved'.leaving.from] = {}
        BY <1>8, <2>4, <4>5
      <4> QED  BY <4>6, <4>7, <4>8 DEF Agrees
    <3>2. mem.held \subseteq saved.held
      BY <2>4 DEF Strays
    <3>3. ASSUME NEW n \in saved.held \ s.held
          PROVE  n \in Lost' /\ (n \in s.discarded \/ n \in saved.foreign \/ n \notin items'[saved.form])
      <4>1. CASE n \in mem.held
        BY <2>4, <3>3, <4>1 DEF Agrees
      <4>2. CASE n \notin mem.held
        BY <1>2, <1>a, <3>3, <4>2 DEF Strays
      <4> QED  BY <4>1, <4>2
    <3>4. ASSUME NEW n \in s.held \ saved.held
          PROVE  /\ pc' = "purge" /\ run'.then = "idle" /\ n \in pending
                 /\ n \in gone' \/ n \in items'[saved.form]
      BY <1>a, <2>4, <3>2, <3>4
    <3>5. ASSUME NEW n \in s.discarded \ saved.discarded
          PROVE  n \in saved.held /\ (n \in used' \/ (n \in gone' /\ n \notin saved.foreign))
      <4>1. CASE n \in mem.discarded
        BY <3>5, <4>1 DEF Strays
      <4>2. CASE n \notin mem.discarded
        <5>1. n \in mem.held \ s.held /\ (n \in used' \/ n \notin mem.foreign) /\ n \in Lost'
          BY <2>4, <3>5, <4>2
        <5>2. n \in used' \/ n \notin saved.foreign
          BY <5>1 DEF Agrees
        <5> QED  BY <3>2, <5>1, <5>2 DEF Lost
      <4> QED  BY <4>1, <4>2
    <3>6. Strays'
      BY <1>8, <2>4, <3>3, <3>4, <3>5 DEF Strays
    <3> QED  BY <1>5, <2>1, <2>2, <2>3, <3>1, <3>6
  <2> QED  BY <1>5, <1>6, <1>7, <2>1, <2>2, <2>3, <2>4
<1> QED  BY <1>7, <1>8

(* A park listed to be deleted is one no account keeps that has a use for    *)
(* it, and no other home keeps what this home has not used up.               *)
LEMMA PurgeFits == ASSUME Inv, NEW n \in Parks, Purge(n) PROVE Inv'
<1> USE DEF Inv, store, disk, history
<1>0. /\ pc = "purge" /\ n \in mem.discarded /\ n \in run.todo /\ n \notin mem.held
      /\ saved.form \in Forms /\ HomeForm = saved.form /\ saved.movingTo = None
      /\ run \in Runs /\ mem \in Records
      /\ n \in saved.held => n \in Lost
      /\ run.todo \subseteq mem.discarded /\ mem.discarded \subseteq run.kept
      /\ run.kept \subseteq saved.discarded \cup saved.held
  <2>1. /\ pc = "purge" /\ n \in run.todo /\ run.todo \subseteq mem.discarded
        /\ mem.discarded \subseteq run.kept /\ run.kept \subseteq saved.discarded \cup saved.held
    BY DEF Purge, At, Sweeps
  <2>2. saved.form # None
    BY <2>1 DEF Blank
  <2>3. n \notin mem.held
    BY <2>1 DEF Sound
  <2>4. n \in saved.held => n \in Lost
    BY <2>3 DEF Strays
  <2> QED  BY <2>1, <2>2, <2>3, <2>4, HomeFormIs DEF TypeOK, Records, At, Copies
<1>1. /\ UNCHANGED <<theirs, answers, made, saved, pending, used, gone, pc>>
      /\ run' = [run EXCEPT !.todo = @ \ {n}] /\ (Works \/ Fails(saved.form))
      /\ \/ /\ items' = [items EXCEPT ![saved.form] = @ \ {n}]
            /\ mem' = [mem EXCEPT !.discarded = @ \ {n}]
         \/ UNCHANGED <<items, mem>>
  BY <1>0 DEF Purge
<1>2. /\ mem'.held = mem.held /\ mem'.foreign = mem.foreign /\ mem'.form = mem.form
      /\ mem'.movingTo = mem.movingTo /\ mem'.leaving = mem.leaving /\ mem' \in Records
      /\ mem'.discarded \subseteq mem.discarded /\ mem.discarded \subseteq mem'.discarded \cup {n}
      /\ n \in mem'.discarded => UNCHANGED <<items, mem>>
  BY <1>0, <1>1 DEF Records
<1>3. /\ \A f \in Forms : items'[f] \subseteq items[f] /\ items[f] \subseteq items'[f] \cup {n}
      /\ \A f \in Forms : f # saved.form => items'[f] = items[f]
      /\ n \notin mem'.discarded => n \notin items'[saved.form]
      /\ items' \in [Forms -> SUBSET Parks]
  <2>1. CASE UNCHANGED <<items, mem>>
    BY <1>0, <2>1 DEF TypeOK
  <2>2. CASE items' = [items EXCEPT ![saved.form] = @ \ {n}]
    BY <1>0, <2>2 DEF TypeOK
  <2> QED  BY <1>1, <2>1, <2>2
<1>4. /\ run' \in Runs /\ run'.then = run.then /\ run'.todo = run.todo \ {n}
      /\ run'.kept = run.kept /\ run'.op = run.op
  BY <1>0, <1>1 DEF Runs
<1>5. run'.todo \subseteq mem'.discarded
  BY <1>0, <1>2, <1>4
<1>6. TypeOK'
  BY <1>0, <1>1, <1>2, <1>3, <1>4, BoundsType DEF TypeOK
<1>7. Sound(saved)' /\ Sound(mem)' /\ Blank'
  BY <1>1, <1>2 DEF Sound, Blank
<1>8. Agrees' /\ Reserved'
  BY <1>0, <1>1, <1>2, <1>3 DEF Agrees, Reserved, TypeOK, Records
<1>a. Strays'
  <2>1. Renewing' = Renewing
    BY <1>1, <1>4 DEF Renewing
  <2>2. mem.held = saved.held /\ mem.discarded \subseteq saved.discarded
          => mem'.held = saved'.held /\ mem'.discarded \subseteq saved'.discarded
    BY <1>1, <1>2
  <2>3. ASSUME NEW m \in saved.held \ mem.held
        PROVE  m \in Lost' /\ (m \in mem'.discarded \/ m \in saved.foreign \/ m \notin items'[saved.form])
    BY <1>0, <1>1, <1>2, <1>3, <2>3 DEF Strays, Lost
  <2>4. ASSUME NEW m \in mem.held \ saved.held
        PROVE  /\ pc' = "purge" /\ run'.then = "idle" /\ m \in pending'
               /\ m \in gone' \/ m \in items'[saved.form]
    BY <1>0, <1>1, <1>3, <1>4, <2>4 DEF Strays
  <2>5. ASSUME NEW m \in mem'.discarded \ saved.discarded
        PROVE  m \in saved.held /\ (m \in used' \/ (m \in gone' /\ m \notin saved.foreign))
    BY <1>1, <1>2, <2>5 DEF Strays
  <2>6. mem'.held = mem.held /\ saved' = saved
    BY <1>1, <1>2
  <2>7. Renewing' \/ (mem'.held = saved'.held /\ mem'.discarded \subseteq saved'.discarded)
    BY <2>1, <2>2 DEF Strays
  <2> QED  BY <2>3, <2>4, <2>5, <2>6, <2>7 DEF Strays
<1>9. Kept'
  <2>1. \A m \in saved.held : m \in Lost \/ m \in items'[saved.form]
    BY <1>0, <1>3 DEF Kept
  <2>2. \A m \in saved.foreign : m \in Lost \/ m \in items'[Service]
    BY <1>0, <1>3, TwoForms DEF Kept, Sound
  <2> QED  BY <1>1, <2>1, <2>2 DEF Kept, Lost
<1>10. Others'
  <2>1. saved.form = Service => n \notin theirs \/ n \in used
    BY <1>0, MindOthers
  <2> QED  BY <1>0, <1>1, <1>3, <2>1, TwoForms DEF Others
<1>11. At'
  BY <1>0, <1>1, <1>2, <1>4, <1>5 DEF At, Copies, Leaves, Sweeps, Writes
<1>12. NoneForgotten'
  BY <1>1, <1>3 DEF NoneForgotten, NamedIn
<1> QED  BY <1>6, <1>7, <1>8, <1>a, <1>9, <1>10, <1>11, <1>12

(* The rest of that list saved, where it can be.                             *)
LEMMA PurgedFits == ASSUME Inv, Purged PROVE Inv'
<1> USE DEF Inv, store, disk, history
<1>0. /\ pc = "purge" /\ run.todo = {} /\ run.then \in {"change", "idle"}
      /\ saved.movingTo = None /\ mem \in Records /\ saved \in Records /\ run \in Runs
  BY DEF Purged, At, Copies, Sweeps, TypeOK
<1>1. /\ UNCHANGED <<items, theirs, answers, made, pending, used, gone>> /\ (Works \/ Faults)
      /\ saved' = saved \/ (saved' = Recorded(mem) /\ mem.discarded # run.kept)
      /\ \/ mem' = saved' /\ pc' = "idle" /\ run' = NoRun
         \/ UNCHANGED <<mem, run>> /\ pc' = "change" /\ run.then = "change"
  <2>1. saved' = saved \/ (saved' = Recorded(mem) /\ mem.discarded # run.kept)
    BY DEF Purged
  <2> QED  BY <1>0, <2>1 DEF Purged, End, Goes
<1>2. mem.discarded # run.kept => saved.form # None /\ HomeForm = saved.form
  <2>1. /\ mem.discarded \subseteq run.kept /\ run.kept \subseteq saved.discarded \cup saved.held
    BY <1>0 DEF At, Sweeps
  <2> QED  BY <2>1, HomeFormIs DEF Blank
<1>3. saved' = Recorded(mem) /\ mem.discarded # run.kept =>
        /\ saved' \in Records /\ saved'.form = saved.form /\ saved'.held = mem.held
        /\ saved'.foreign = mem.foreign /\ saved'.discarded = mem.discarded
        /\ saved'.movingTo = None /\ saved'.leaving = mem.leaving
  BY <1>0, <1>2, RecordedIs DEF Agrees
<1>4. saved'.movingTo = None /\ saved'.form = saved.form
  BY <1>0, <1>1, <1>3
<1>5. TypeOK'
  <2>1. run' \in Runs /\ pc' \in Steps
    BY <1>0, <1>1, NoRunIsRun DEF Steps
  <2>2. saved' \in Records /\ (saved'.leaving.from = None) = (saved'.leaving.parks = {})
    BY <1>0, <1>1, <1>3 DEF TypeOK
  <2>3. mem' \in {saved', mem}
    BY <1>1
  <2> QED  BY <1>1, <1>4, <2>1, <2>2, <2>3, BoundsType DEF TypeOK
<1>6. At'
  BY <1>0, <1>1, <1>4 DEF At, Copies, Leaves, Sweeps, Writes
<1>7. CASE saved' = saved
  <2>1. CASE mem' = saved'
    BY <1>0, <1>1, <1>5, <1>6, <1>7, <2>1
      DEF Sound, Blank, Agrees, Strays, Reserved, Kept, Lost, Others, NoneForgotten, NamedIn
  <2>2. CASE UNCHANGED <<mem, run>> /\ pc' = "change" /\ run.then = "change"
    <3>1. Sound(saved)' /\ Sound(mem)' /\ Blank' /\ Agrees' /\ Reserved'
      BY <1>0, <1>1, <1>7, <2>2 DEF Sound, Blank, Agrees, Reserved
    <3>2. Kept' /\ Others' /\ NoneForgotten'
      BY <1>1, <1>7, <2>2 DEF Kept, Lost, Others, NoneForgotten, NamedIn
    <3>3. Strays'
      <4>1. Renewing => Renewing'
        BY <2>2 DEF Renewing
      <4> QED  BY <1>0, <1>1, <1>7, <2>2, <4>1 DEF Strays, Lost
    <3> QED  BY <1>5, <1>6, <3>1, <3>2, <3>3
  <2> QED  BY <1>1, <2>1, <2>2
<1>8. CASE saved' = Recorded(mem) /\ mem.discarded # run.kept
  <2>1. saved.form \in Forms /\ mem.form \in {None, saved.form} /\ mem.movingTo = None
    BY <1>0, <1>2, <1>8 DEF Agrees, TypeOK, Records
  <2>2. mem' \in {mem, saved'}
    BY <1>1
  <2>3. mem.foreign \subseteq mem.held /\ mem.held \cap mem.discarded = {}
    BY DEF Sound
  <2> QED  BY <1>0, <1>1, <1>5, <1>6, <1>8, <2>1, <2>2, <2>3, SameGrows, ChangeKeeps
<1> QED  BY <1>1, <1>7, <1>8

-----------------------------------------------------------------------------

(* What a run lists is all it purges.                                        *)
LEMMA PurgesIs ==
  ASSUME TypeOK, NEW s \in Records, NEW then \in Steps, Purges(s, then)
  PROVE  /\ pc' = "purge" /\ run' \in Runs /\ run'.then = then /\ run'.op = run.op
         /\ run'.todo = s.discarded /\ run'.kept = s.discarded
<1>1. s.discarded \subseteq Parks /\ run \in Runs
  BY DEF TypeOK, Records
<1> QED  BY <1>1 DEF Purges, Goes, Runs, NoRun

(* A purge that follows a change is of what it listed.                       *)
LEMMA PurgesAt ==
  ASSUME Inv, NEW s \in Records, Purges(s, "idle"), saved'.movingTo = None, mem'.discarded = s.discarded,
         s.discarded \subseteq saved'.discarded \cup saved'.held
  PROVE  At'
<1>1. /\ pc' = "purge" /\ run'.then = "idle" /\ run'.todo = s.discarded /\ run'.kept = s.discarded
  BY PurgesIs DEF Inv, Steps
<1> QED  BY <1>1 DEF At, Copies, Leaves, Sweeps, Writes

(* A record with nothing more to leave than one of the right type has its.   *)
LEMMA RecordTyped ==
  ASSUME TypeOK, NEW s \in Records, s.movingTo = None, s.leaving = mem.leaving,
         saved' \in {saved, Recorded(s)}, mem' \in {s, saved'}
  PROVE  /\ saved' \in Records /\ mem' \in Records
         /\ \A t \in {saved', mem'} : /\ (t.leaving.from = None) = (t.leaving.parks = {})
                                      /\ t.movingTo # None => t.movingTo # t.form
<1>1. /\ Recorded(s) \in Records /\ Recorded(s).movingTo = None
      /\ Recorded(s).leaving = mem.leaving
  BY RecordedIs
<1>2. \A t \in {saved, s, Recorded(s)} :
         /\ t \in Records /\ (t.leaving.from = None) = (t.leaving.parks = {})
         /\ t.movingTo # None => t.movingTo # t.form
  BY <1>1 DEF TypeOK
<1>3. saved' \in {saved, s, Recorded(s)} /\ mem' \in {saved, s, Recorded(s)}
  OBVIOUS
<1> QED  BY <1>2, <1>3

(* A park let go of is listed to be deleted, or is the other home's; one used *)
(* up is this home's to delete whoever wrote it.                             *)
LEMMA LetsGoFits == ASSUME Inv, NEW n \in Parks, LetsGo(n) PROVE Inv'
<1> USE DEF Inv, store, disk, history
<1> DEFINE uses == run.op = "use"
           s == IF uses THEN Discard(mem, n) ELSE Release(mem, n)
<1>0. /\ pc = "change" /\ n \in mem.held /\ mem.form = saved.form /\ saved.form \in Forms
      /\ saved.movingTo = None /\ mem.movingTo = None /\ mem \in Records /\ run \in Runs
  <2>1. mem.held = saved.held
    BY NotRenewing DEF LetsGo, Renewing
  <2> QED  BY <2>1, TwoForms DEF LetsGo, At, Copies, Sweeps, Agrees, Blank, TypeOK, Records
<1>1. CASE Refused /\ UNCHANGED store /\ (Works \/ Faults)
  BY <1>1, StopFits
<1>2. CASE ~(Refused /\ UNCHANGED store /\ (Works \/ Faults))
  <2>1. /\ mem' = s /\ saved' = Recorded(s) /\ Works /\ Purges(s, "idle")
        /\ used' = IF uses THEN used \cup {n} ELSE used
        /\ UNCHANGED <<items, theirs, answers, made, pending, gone>>
    BY <1>2 DEF LetsGo
  <2>2. /\ s \in Records /\ s.held = mem.held \ {n} /\ s.foreign = mem.foreign \ {n}
        /\ s.form = saved.form /\ s.movingTo = None /\ s.leaving = mem.leaving
        /\ \/ s.discarded = mem.discarded \cup {n} /\ (uses \/ n \notin mem.foreign)
           \/ s.discarded = mem.discarded /\ n \in mem.foreign
    <3>1. mem.discarded \subseteq Parks
      BY <1>0 DEF Records
    <3> QED  BY <1>0, <3>1, ReleaseIs
  <2>3. used \subseteq used' /\ (uses => n \in used') /\ used' \subseteq Parks
    BY <2>1 DEF TypeOK
  <2> HIDE DEF s, uses
  <2>4. Recorded(s) = s
    BY <1>0, <2>2, TwoForms DEF Recorded
  <2>5. TypeOK'
    <3>1. run' \in Runs /\ pc' \in Steps
      BY <2>1, <2>2, PurgesIs DEF Steps
    <3>2. /\ saved' \in Records /\ mem' \in Records
          /\ \A t \in {saved', mem'} : /\ (t.leaving.from = None) = (t.leaving.parks = {})
                                       /\ t.movingTo # None => t.movingTo # t.form
      BY <2>1, <2>2, RecordTyped
    <3> QED  BY <2>1, <2>3, <3>1, <3>2, BoundsType DEF TypeOK
  <2>6. At'
    BY <2>1, <2>2, <2>4, PurgesAt
  <2>7. s.held \cap s.discarded = {} /\ s.foreign \subseteq mem.foreign \cap s.held
    BY <2>2 DEF Sound
  <2>8. \A m \in s.discarded \ mem.discarded :
           m \in mem.held \ s.held /\ (m \in used' \/ m \notin mem.foreign)
    BY <1>0, <2>2, <2>3
  <2>9. \A m \in mem.held \ s.held : m \in s.discarded \/ m \in mem.foreign
    BY <2>2
  <2>10. (mem.foreign \ s.foreign) \cap s.held \subseteq used'
    BY <2>2
  <2>11. {} \in SUBSET pending /\ s.held \subseteq mem.held \cup {} /\ mem.discarded \subseteq s.discarded
    BY <2>2
  <2> QED  BY <1>0, <2>1, <2>2, <2>3, <2>5, <2>6, <2>7, <2>8, <2>9, <2>10, <2>11, SameGrows, ChangeKeeps
<1> QED  BY <1>1, <1>2

(* What copies the login in use is dropped, in mind at least.                *)
LEMMA DropsFits == ASSUME Inv, Drops PROVE Inv'
<1> USE DEF Inv, store, disk, history
<1>1. PICK twins \in (SUBSET mem.held) \ {{}} :
        /\ mem' = [mem EXCEPT !.held = @ \ twins, !.foreign = @ \ twins,
                              !.discarded = @ \cup twins]
        /\ used' = used \cup twins
        /\ run' = [run EXCEPT !.todo = twins]
  BY DEF Drops
<1> DEFINE s == [mem EXCEPT !.held = @ \ twins, !.foreign = @ \ twins,
                            !.discarded = @ \cup twins]
<1>2. /\ pc = "change" /\ pc' = "change" /\ run.op = "renew" /\ mem.form = saved.form
      /\ saved.movingTo = None /\ mem.movingTo = None /\ mem \in Records /\ run \in Runs
      /\ twins \subseteq mem.held /\ twins # {} /\ twins \subseteq Parks
      /\ UNCHANGED <<items, theirs, answers, made, pending, gone>>
  BY DEF Drops, At, Copies, Sweeps, Agrees, TypeOK, Records
<1>3. saved.form \in Forms
  <2>1. mem.held \subseteq saved.held
    BY <1>2 DEF Strays
  <2> QED  BY <1>2, <2>1 DEF Blank, TypeOK, Records
<1>4. /\ s \in Records /\ s.held = mem.held \ twins /\ s.foreign = mem.foreign \ twins
      /\ s.discarded = mem.discarded \cup twins
      /\ s.form = mem.form /\ s.movingTo = None /\ s.leaving = mem.leaving
  BY <1>2 DEF Records
<1>5. mem' = s /\ saved' \in {saved, Recorded(s)} /\ (Works \/ Faults)
  <2>1. SavedIfItCan(mem') /\ mem' = s
    BY <1>1 DEF Drops
  <2> HIDE DEF s
  <2>2. \A t : SavedIfItCan(t) => saved' \in {saved, Recorded(t)} /\ (Works \/ Faults)
    BY DEF SavedIfItCan
  <2>3. SavedIfItCan(s)
    BY <2>1
  <2> QED  BY <2>1, <2>2, <2>3
<1> HIDE DEF s
<1>6. run' \in Runs /\ run'.op = "renew"
  BY <1>1, <1>2 DEF Runs
<1>7. TypeOK'
  <2>1. /\ saved' \in Records /\ mem' \in Records
        /\ \A t \in {saved', mem'} : /\ (t.leaving.from = None) = (t.leaving.parks = {})
                                     /\ t.movingTo # None => t.movingTo # t.form
    BY <1>4, <1>5, RecordTyped
  <2>2. used' \subseteq Parks /\ pc' \in Steps
    BY <1>1, <1>2 DEF TypeOK
  <2> QED  BY <1>2, <1>5, <1>6, <2>1, <2>2, BoundsType DEF TypeOK
<1>8. Recorded(s) = s
  BY <1>2, <1>3, <1>4, TwoForms DEF Recorded
<1>9. At'
  <2>1. saved'.movingTo = None /\ mem'.form = saved'.form
    BY <1>2, <1>4, <1>5, <1>8
  <2> QED  BY <1>2, <2>1 DEF At, Copies, Leaves, Sweeps, Writes
<1>10. twins \subseteq used' /\ used \subseteq used' /\ twins \subseteq Lost' /\ Renewing'
  BY <1>1, <1>2, <1>6 DEF Lost, Renewing
<1>11. s.held \cap s.discarded = {} /\ s.foreign \subseteq mem.foreign \cap s.held
  BY <1>2, <1>4 DEF Sound
<1>12. \A m \in s.discarded \ mem.discarded :
          m \in mem.held \ s.held /\ (m \in used' \/ m \notin mem.foreign)
  BY <1>2, <1>4, <1>10
<1>13. \A m \in mem.held \ s.held : m \in s.discarded \/ m \in mem.foreign
  BY <1>4
<1>14. (mem.foreign \ s.foreign) \cap s.held \subseteq used' /\ mem.held \ s.held \subseteq Lost'
  BY <1>4, <1>10
<1>15. {} \in SUBSET pending /\ s.held \subseteq mem.held \cup {} /\ mem.discarded \subseteq s.discarded
  BY <1>4
<1> QED  BY <1>2, <1>3, <1>4, <1>5, <1>7, <1>9, <1>10, <1>11, <1>12, <1>13, <1>14, <1>15, SameGrows, ChangeKeeps

(* A park the service refuses is of no use: listed, or left to the other home.*)
LEMMA DeclinesFits == ASSUME Inv, NEW n \in Parks, Declines(n) PROVE Inv'
<1> USE DEF Inv, store, disk, history
<1> DEFINE s == Release(mem, n)
<1>2. /\ pc = "change" /\ run.op = "renew" /\ mem.form = saved.form
      /\ saved.movingTo = None /\ mem.movingTo = None /\ mem \in Records /\ run \in Runs
      /\ n \in mem.held /\ gone' = gone \cup {n} /\ mem' = s
      /\ UNCHANGED <<items, theirs, answers, made, pending, used>>
  BY DEF Declines, Finds, At, Copies, Sweeps, Agrees, TypeOK, Records
<1>3. saved.form \in Forms
  <2>1. mem.held \subseteq saved.held
    BY <1>2 DEF Strays
  <2> QED  BY <1>2, <2>1 DEF Blank, TypeOK, Records
<1>4. /\ s \in Records /\ s.held = mem.held \ {n} /\ s.foreign = mem.foreign \ {n}
      /\ s.discarded = IF n \in mem.foreign THEN mem.discarded ELSE mem.discarded \cup {n}
      /\ s.form = mem.form /\ s.movingTo = None /\ s.leaving = mem.leaving
  <2>1. mem.discarded \subseteq Parks
    BY <1>2 DEF Records
  <2> QED  BY <1>2, <2>1, ReleaseIs
<1>5. saved' \in {saved, Recorded(s)} /\ (Works \/ Faults) /\ Purges(s, "idle")
  <2>1. SavedIfItCan(mem') /\ Purges(mem', "idle")
    BY DEF Declines
  <2> HIDE DEF s
  <2>2. \A t : SavedIfItCan(t) => saved' \in {saved, Recorded(t)} /\ (Works \/ Faults)
    BY DEF SavedIfItCan
  <2>3. SavedIfItCan(s) /\ Purges(s, "idle")
    BY <1>2, <2>1
  <2> QED  BY <2>2, <2>3
<1> HIDE DEF s
<1>6. pc' = "purge" /\ run' \in Runs /\ run'.op = "renew" /\ run'.then = "idle"
  BY <1>2, <1>4, <1>5, PurgesIs DEF Steps
<1>7. TypeOK'
  <2>1. /\ saved' \in Records /\ mem' \in Records
        /\ \A t \in {saved', mem'} : /\ (t.leaving.from = None) = (t.leaving.parks = {})
                                     /\ t.movingTo # None => t.movingTo # t.form
    BY <1>2, <1>4, <1>5, RecordTyped
  <2>2. gone' \subseteq Parks /\ pc' \in Steps
    BY <1>2, <1>6 DEF TypeOK, Steps
  <2> QED  BY <1>2, <1>5, <1>6, <2>1, <2>2, BoundsType DEF TypeOK
<1>8. Recorded(s) = s
  BY <1>2, <1>3, <1>4, TwoForms DEF Recorded
<1>9. At'
  <2>1. saved'.movingTo = None
    BY <1>2, <1>4, <1>5, <1>8
  <2>2. s.discarded \subseteq saved'.discarded \cup saved'.held
    <3>1. s.discarded \subseteq saved.discarded \cup saved.held
      BY <1>2, <1>4 DEF Strays
    <3> QED  BY <1>5, <1>8, <3>1
  <2> QED  BY <1>2, <1>4, <1>5, <2>1, <2>2, PurgesAt
<1>10. n \in Lost' /\ Renewing'
  BY <1>2, <1>6 DEF Lost, Renewing
<1>11. s.held \cap s.discarded = {} /\ s.foreign \subseteq mem.foreign \cap s.held
  BY <1>2, <1>4 DEF Sound
<1>12. \A m \in s.discarded \ mem.discarded :
          m \in mem.held \ s.held /\ (m \in used' \/ m \notin mem.foreign)
  BY <1>2, <1>4
<1>13. \A m \in mem.held \ s.held : m \in s.discarded \/ m \in mem.foreign
  BY <1>4
<1>14. (mem.foreign \ s.foreign) \cap s.held \subseteq used' /\ mem.held \ s.held \subseteq Lost'
  BY <1>4, <1>10
<1>15. {} \in SUBSET pending /\ s.held \subseteq mem.held \cup {} /\ mem.discarded \subseteq s.discarded
  BY <1>4
<1> QED  BY <1>2, <1>3, <1>4, <1>5, <1>7, <1>9, <1>10, <1>11, <1>12, <1>13, <1>14, <1>15, SameGrows, ChangeKeeps

(* A login spent is this home's from then on.                                *)
LEMMA SpendsFits == ASSUME Inv, NEW n \in Parks, Spends(n) PROVE Inv'
<1> USE DEF Inv, store, disk, history
<1> DEFINE s == UsedHere(mem, n)
<1>0. /\ pc = "change" /\ run.op = "renew" /\ n \in mem.held /\ mem.form = saved.form
      /\ saved.movingTo = None /\ mem \in Records /\ run \in Runs /\ mem.movingTo = None
      /\ mem' = s /\ used' = used \cup {n} /\ run' = [run EXCEPT !.old = n] /\ pc' = "form"
      /\ UNCHANGED <<items, theirs, answers, made, pending, gone>>
  BY DEF Spends, Finds, Goes, At, Copies, Sweeps, Agrees, TypeOK, Records
<1>1. saved.form \in Forms
  <2>1. mem.held \subseteq saved.held
    BY <1>0 DEF Strays
  <2> QED  BY <1>0, <2>1 DEF Blank, TypeOK, Records
<1>2. /\ s \in Records /\ s.held = mem.held /\ s.foreign = mem.foreign \ {n}
      /\ s.discarded = mem.discarded /\ s.form = mem.form /\ s.movingTo = None
      /\ s.leaving = mem.leaving
  BY <1>0 DEF UsedHere, Records
<1>3. saved' \in {saved, Recorded(s)} /\ (Works \/ Faults)
  <2> HIDE DEF s
  <2>1. \A t : SavedIfItCan(t) => saved' \in {saved, Recorded(t)} /\ (Works \/ Faults)
    BY DEF SavedIfItCan
  <2>2. (saved' = saved /\ Works) \/ SavedIfItCan(s)
    BY DEF Spends, s
  <2> QED  BY <2>1, <2>2
<1> HIDE DEF s
<1>4. run' \in Runs /\ run'.op = "renew" /\ run'.old = n
  BY <1>0 DEF Runs
<1>5. TypeOK'
  <2>1. /\ saved' \in Records /\ mem' \in Records
        /\ \A t \in {saved', mem'} : /\ (t.leaving.from = None) = (t.leaving.parks = {})
                                     /\ t.movingTo # None => t.movingTo # t.form
    BY <1>0, <1>2, <1>3, RecordTyped
  <2>2. used' \subseteq Parks /\ pc' \in Steps
    BY <1>0 DEF TypeOK, Steps
  <2> QED  BY <1>0, <1>3, <1>4, <2>1, <2>2, BoundsType DEF TypeOK
<1>6. Recorded(s) = s
  BY <1>0, <1>1, <1>2, TwoForms DEF Recorded
<1>7. At'
  <2>1. saved'.movingTo = None /\ mem'.held = mem.held /\ n \in mem.held \cap used'
    BY <1>0, <1>2, <1>3, <1>6
  <2> QED  BY <1>0, <1>4, <2>1 DEF At, Copies, Leaves, Sweeps, Writes
<1>8. n \in used' /\ used \subseteq used' /\ Renewing'
  BY <1>0, <1>4 DEF Renewing
<1>9. s.held \cap s.discarded = {} /\ s.foreign \subseteq mem.foreign \cap s.held
  BY <1>2 DEF Sound
<1>10. s.discarded \ mem.discarded = {} /\ mem.held \ s.held = {}
  BY <1>2
<1>11. (mem.foreign \ s.foreign) \cap s.held \subseteq used'
  BY <1>2, <1>8
<1>12. {} \in SUBSET pending /\ s.held \subseteq mem.held \cup {} /\ mem.discarded \subseteq s.discarded
  BY <1>2
<1> QED  BY <1>0, <1>1, <1>2, <1>3, <1>5, <1>7, <1>8, <1>9, <1>10, <1>11, <1>12, SameGrows, ChangeKeeps

(* A change that has nothing to act on ends; one that parks goes on; and a   *)
(* renewal deletes what it lists.                                            *)
LEMMA ParkingFits == ASSUME Inv, Parking PROVE Inv'
<1> USE DEF Inv, store, disk, history
<1>1. /\ pc = "change" /\ Works /\ mem.form = saved.form /\ saved.movingTo = None
      /\ mem \in Records
      /\ UNCHANGED <<items, theirs, answers, made, saved, pending, used, gone>>
  BY DEF Parking, At, Copies, Sweeps, TypeOK
<1>2. CASE run.op = "park" /\ Goes("form") /\ UNCHANGED <<mem, run>>
  <2> USE DEF Goes
  <2>1. TypeOK'
    BY <1>1, <1>2, BoundsType DEF TypeOK, Steps
  <2>2. Sound(saved)' /\ Sound(mem)' /\ Blank' /\ Agrees' /\ Reserved' /\ Kept' /\ Others'
    BY <1>1, <1>2 DEF Sound, Blank, Agrees, Reserved, Kept, Lost, Others
  <2>3. At'
    BY <1>1, <1>2 DEF At, Copies, Leaves, Sweeps, Writes
  <2>4. Strays' /\ NoneForgotten'
    BY <1>1, <1>2, NotRenewing, NoStrays DEF Renewing, NoneForgotten, NamedIn
  <2> QED  BY <2>1, <2>2, <2>3, <2>4
<1>3. CASE Refused
  <2>1. UNCHANGED store
    BY <1>1
  <2> QED  BY <1>1, <1>3, <2>1, StopFits
<1>4. CASE run.op = "renew" /\ Purges(mem, "idle") /\ UNCHANGED mem
  <2>1. /\ pc' = "purge" /\ run' \in Runs /\ run'.then = "idle" /\ run'.op = "renew"
    BY <1>1, <1>4, PurgesIs DEF Steps
  <2>2. TypeOK'
    BY <1>1, <1>4, <2>1, BoundsType DEF TypeOK, Steps
  <2>3. Sound(saved)' /\ Sound(mem)' /\ Blank' /\ Agrees' /\ Reserved' /\ Kept' /\ Others'
    BY <1>1, <1>4, <2>1 DEF Sound, Blank, Agrees, Reserved, Kept, Lost, Others
  <2>4. mem.discarded \subseteq saved.discarded \cup saved.held
    BY DEF Strays
  <2>5. At'
    BY <1>1, <1>4, <2>4, PurgesAt
  <2>6. NoneForgotten'
    BY <1>1 DEF NoneForgotten, NamedIn
  <2>7. Strays'
    BY <1>1, <1>4, <2>1 DEF Strays, Renewing, Lost
  <2> QED  BY <2>2, <2>3, <2>5, <2>6, <2>7
<1> QED  BY <1>1, <1>2, <1>3, <1>4 DEF Parking, Refused

(* The form a home takes where it records none is saved before any name is   *)
(* written down, and there is nothing in it yet but another home's.          *)
LEMMA FormFits == ASSUME Inv, Form PROVE Inv'
<1> USE DEF Inv, store, disk, history
<1>0. /\ pc = "form" /\ saved.movingTo = None /\ saved \in Records
      /\ mem.form \in {None, saved.form}
  BY DEF Form, At, Copies, TypeOK, Agrees
<1>1. CASE Faults /\ Refused /\ UNCHANGED store
  BY <1>1, StopFits
<1>2. CASE ~(Faults /\ Refused /\ UNCHANGED store)
  <2>1. /\ saved' = Recorded(saved) /\ pc' = "reserve" /\ Works
        /\ UNCHANGED <<items, theirs, answers, made, pending, mem, run, used, gone>>
    BY <1>2 DEF Form, Goes
  <2>2. /\ saved' \in Records /\ saved'.form \in Forms
        /\ saved'.held = saved.held /\ saved'.foreign = saved.foreign
        /\ saved'.discarded = saved.discarded /\ saved'.movingTo = None
        /\ saved'.leaving = saved.leaving /\ (saved.form # None => saved'.form = saved.form)
    BY <1>0, <2>1, RecordedIs
  <2>3. TypeOK'
    BY <1>0, <2>1, <2>2, BoundsType DEF TypeOK, Steps
  <2>4. Sound(saved)' /\ Sound(mem)' /\ Blank'
    BY <1>0, <2>1, <2>2, TwoForms DEF Sound, Blank
  <2>5. Agrees' /\ Reserved' /\ Kept'
    BY <1>0, <2>1, <2>2 DEF Agrees, Reserved, Kept, Lost, Blank, Sound
  <2>a. Strays'
    <3>1. Renewing => Renewing'
      BY <1>0, <2>1 DEF Renewing
    <3> QED  BY <1>0, <2>1, <2>2, <3>1 DEF Strays, Lost, Blank
  <2>6. Others'
    BY <1>0, <2>1, <2>2, TwoForms DEF Others, Blank
  <2>7. At'
    BY <1>0, <2>1, <2>2, TwoForms DEF At, Copies, Leaves, Sweeps, Writes
  <2>8. NoneForgotten'
    BY <1>0, <2>1, <2>2, TwoForms DEF NoneForgotten, NamedIn
  <2> QED  BY <2>3, <2>4, <2>5, <2>a, <2>6, <2>7, <2>8
<1> QED  BY <1>1, <1>2

(* An item written under the name written down for it, or not, is named; and *)
(* a run that fails at it stops, or writes again, or lists the login it spent.*)
LEMMA GivesUpFits ==
  ASSUME Inv, GivesUp, pc \in {"reserve", "store"},
         UNCHANGED <<theirs, answers, made>>, Works \/ \E f \in Forms : Fails(f),
         \/ UNCHANGED items
         \/ pc = "store" /\ items' = [items EXCEPT ![HomeForm] = @ \cup {run.park}]
  PROVE  Inv'
<1> USE DEF Inv, disk, history
<1> DEFINE s == Discard(mem, run.old)
<1>0. /\ saved.movingTo = None /\ mem.movingTo = None /\ saved.form \in Forms /\ HomeForm = saved.form
      /\ mem \in Records /\ saved \in Records /\ run \in Runs /\ mem.form \in {None, saved.form}
      /\ run.op = "renew" => run.old \in mem.held \cap used
  BY TwoForms, HomeFormIs DEF At, Copies, Writes, Agrees, TypeOK, Records
<1>1. UNCHANGED <<pending, used, gone>> /\ (Works \/ \E f \in Forms \cup {None} : Fails(f))
  BY DEF GivesUp, Refused
<1>2. items' \in [Forms -> SUBSET Parks] /\ Grows
  <2>1. CASE UNCHANGED items
    BY <2>1, SameGrows DEF TypeOK
  <2>2. CASE pc = "store" /\ items' = [items EXCEPT ![saved.form] = @ \cup {run.park}]
    <3>1. run.park \in pending /\ pending \subseteq Parks
          /\ run.park \notin saved.held \cup saved.discarded \cup saved.leaving.parks
      BY <2>2 DEF At, Writes, TypeOK
    <3>2. \A f \in Forms : items'[f] = IF f = saved.form THEN items[f] \cup {run.park} ELSE items[f]
      BY <1>0, <2>2 DEF TypeOK
    <3>3. items' \in [Forms -> SUBSET Parks]
      BY <1>0, <2>2, <3>1 DEF TypeOK
    <3> QED  BY <3>1, <3>2, <3>3 DEF Grows
  <2> QED  BY <1>0, <2>1, <2>2
<1>3. CASE Refused
  <2>1. saved' = saved /\ mem' = saved /\ pc' = "idle" /\ run' = NoRun
    BY <1>3 DEF Refused, End
  <2>2. TypeOK'
    BY <1>1, <1>2, <2>1, BoundsType, NoRunIsRun DEF TypeOK, Steps
  <2>3. At'
    BY <1>0, <2>1 DEF At, Copies, Leaves, Sweeps, Writes
  <2>4. Sound(saved)' /\ Sound(mem)' /\ Blank' /\ Agrees' /\ Strays'
    BY <1>0, <1>1, <2>1, TwoForms DEF Sound, Blank, Agrees, Strays
  <2>5. Reserved' /\ Kept'
    BY <1>0, <1>1, <1>2, <2>1, TwoForms DEF Reserved, Kept, Lost, Grows
  <2>6. Others'
    BY <1>0, <1>1, <1>2, <2>1, TwoForms DEF Others, Sound, Grows
  <2>7. NoneForgotten'
    BY <1>0, <1>1, <1>2, <2>1 DEF NoneForgotten, NamedIn, Grows
  <2> QED  BY <2>2, <2>3, <2>4, <2>5, <2>6, <2>7
<1>4. CASE /\ run.op = "renew" /\ Goes("reserve") /\ run' = [run EXCEPT !.again = TRUE]
           /\ UNCHANGED <<mem, saved>>
  <2>1. pc' = "reserve" /\ run' \in Runs /\ run'.op = "renew" /\ run'.old = run.old
    BY <1>0, <1>4 DEF Goes, Runs
  <2>2. TypeOK'
    BY <1>1, <1>2, <1>4, <2>1, BoundsType DEF TypeOK, Steps
  <2>3. At'
    BY <1>0, <1>1, <1>4, <2>1, TwoForms DEF At, Copies, Leaves, Sweeps, Writes
  <2>4. Sound(saved)' /\ Sound(mem)' /\ Blank'
    BY <1>1, <1>4 DEF Sound, Blank
  <2>5. Agrees'
    <3>1. saved.leaving.from \in Forms \cup {None}
      BY <1>0 DEF Records
    <3> QED  BY <1>0, <1>1, <1>2, <1>4, <3>1 DEF Agrees, Grows
  <2>6. Strays'
    <3>1. Renewing'
      BY <2>1 DEF Renewing
    <3>2. mem.held \subseteq saved.held
      BY DEF Strays
    <3>3. saved.held \ mem.held \subseteq Lost
      BY DEF Strays
    <3>4. \A n \in saved.held \ mem.held :
            n \in mem.discarded \/ n \in saved.foreign \/ n \notin items'[saved.form]
      BY <1>0, <1>2 DEF Strays, Grows
    <3> QED  BY <1>1, <1>4, <3>1, <3>2, <3>3, <3>4 DEF Strays, Lost
  <2>7. Reserved' /\ Kept'
    BY <1>0, <1>1, <1>2, <1>4, TwoForms DEF Reserved, Kept, Lost, Grows
  <2>8. Others'
    BY <1>0, <1>1, <1>2, <1>4, TwoForms DEF Others, Sound, Grows
  <2>9. NoneForgotten'
    BY <1>0, <1>1, <1>2, <1>4 DEF NoneForgotten, NamedIn, Grows
  <2> QED  BY <2>2, <2>3, <2>4, <2>5, <2>6, <2>7, <2>8, <2>9
<1>5. CASE /\ run.op = "renew" /\ mem' = s /\ saved' \in {saved, Recorded(s)}
           /\ Purges(s, "idle")
  <2>1. /\ s \in Records /\ s.held = mem.held \ {run.old} /\ s.foreign = mem.foreign \ {run.old}
        /\ s.discarded = mem.discarded \cup {run.old} /\ s.form = mem.form
        /\ s.movingTo = None /\ s.leaving = mem.leaving
    <3>1. mem.discarded \subseteq Parks /\ mem.held \subseteq Parks
      BY <1>0 DEF Records
    <3> QED  BY <1>0, <1>5, <3>1, ReleaseIs
  <2> HIDE DEF s
  <2>2. pc' = "purge" /\ run' \in Runs /\ run'.op = "renew" /\ run'.then = "idle"
    BY <1>5, <2>1, PurgesIs DEF Steps
  <2>3. TypeOK'
    <3>1. /\ saved' \in Records /\ mem' \in Records
          /\ \A t \in {saved', mem'} : /\ (t.leaving.from = None) = (t.leaving.parks = {})
                                       /\ t.movingTo # None => t.movingTo # t.form
      BY <1>5, <2>1, RecordTyped
    <3> QED  BY <1>1, <1>2, <2>2, <3>1, BoundsType DEF TypeOK, Steps
  <2>4. /\ Recorded(s).movingTo = None /\ Recorded(s).discarded = s.discarded
    BY <2>1, RecordedIs
  <2>5. At'
    <3>1. saved'.movingTo = None
      BY <1>0, <1>5, <2>4
    <3>2. s.discarded \subseteq saved.discarded \cup saved.held
      BY <1>0, <1>5, <2>1 DEF Strays
    <3>3. s.discarded \subseteq saved'.discarded \cup saved'.held
      BY <1>5, <2>4, <3>2
    <3> QED  BY <1>5, <2>1, <3>1, <3>3, PurgesAt
  <2>6. run.old \in mem.held /\ run.old \in used' /\ run.old \in Lost' /\ Renewing'
    BY <1>0, <1>1, <1>5, <2>2 DEF Lost, Renewing
  <2>7. s.held \cap s.discarded = {} /\ s.foreign \subseteq mem.foreign \cap s.held
    BY <2>1 DEF Sound
  <2>8. \A m \in s.discarded \ mem.discarded :
           m \in mem.held \ s.held /\ (m \in used' \/ m \notin mem.foreign)
    BY <2>1, <2>6
  <2>9. \A m \in mem.held \ s.held : m \in s.discarded \/ m \in mem.foreign
    BY <2>1
  <2>10. (mem.foreign \ s.foreign) \cap s.held \subseteq used' /\ mem.held \ s.held \subseteq Lost'
    BY <2>1, <2>6
  <2>11. {} \in SUBSET pending /\ s.held \subseteq mem.held \cup {} /\ mem.discarded \subseteq s.discarded
    BY <2>1
  <2> QED  BY <1>0, <1>1, <1>2, <1>5, <2>1, <2>3, <2>5, <2>6, <2>7, <2>8, <2>9, <2>10, <2>11, ChangeKeeps
<1> QED  BY <1>3, <1>4, <1>5 DEF GivesUp

(* A name is written down before anything is under it, and is nobody else's. *)
LEMMA ReserveFits == ASSUME Inv, Reserve PROVE Inv'
<1> USE DEF Inv, store, disk, history
<1>0. /\ pc = "reserve" /\ saved.movingTo = None /\ run \in Runs /\ saved.form # None
  BY DEF Reserve, At, Copies, Writes, TypeOK
<1>1. CASE GivesUp /\ UNCHANGED store /\ (Works \/ Fails(HomeForm))
  BY <1>0, <1>1, GivesUpFits, HomeFormIs
<1>2. CASE ~(GivesUp /\ UNCHANGED store /\ (Works \/ Fails(HomeForm)))
  <2>1. PICK n \in Parks \ made :
           /\ pending' = pending \cup {n} /\ made' = made \cup {n}
           /\ run' = [run EXCEPT !.park = n] /\ pc' = "store" /\ Works
           /\ UNCHANGED <<items, theirs, answers, saved, mem, used, gone>>
    BY <1>2 DEF Reserve, Goes
  <2>2. run' \in Runs /\ run'.park = n /\ run'.op = run.op /\ run'.old = run.old
    BY <1>0, <2>1 DEF Runs
  <2>3. n \notin saved.held \cup saved.discarded \cup saved.leaving.parks /\ n \notin theirs
    BY <2>1 DEF Reserved
  <2>4. TypeOK'
    BY <1>0, <2>1, <2>2, BoundsType DEF TypeOK, Steps
  <2>5. Sound(saved)' /\ Sound(mem)' /\ Blank' /\ Agrees' /\ Kept' /\ Others'
    BY <1>0, <2>1 DEF Sound, Blank, Agrees, Kept, Lost, Others
  <2>a. Strays'
    BY <1>0, <2>1, <2>2 DEF Strays, Renewing, Lost
  <2>6. Reserved'
    BY <2>1, <2>3 DEF Reserved
  <2>7. At'
    BY <1>0, <2>1, <2>2, <2>3 DEF At, Copies, Leaves, Sweeps, Writes
  <2>8. NoneForgotten'
    BY <2>1 DEF NoneForgotten, NamedIn
  <2> QED  BY <2>4, <2>5, <2>a, <2>6, <2>7, <2>8
<1> QED  BY <1>1, <1>2 DEF Reserve

(* The item is written under it.                                             *)
LEMMA StoreFits == ASSUME Inv, Store PROVE Inv'
<1> USE DEF Inv, store, disk, history
<1>0. /\ pc = "store" /\ saved.movingTo = None /\ saved.form \in Forms /\ HomeForm = saved.form
      /\ run.park \in pending /\ pending \subseteq Parks
      /\ run.park \notin saved.held \cup saved.discarded \cup saved.leaving.parks
  BY TwoForms, HomeFormIs DEF Store, At, Copies, Writes, TypeOK, Records
<1>1. CASE /\ GivesUp /\ Fails(HomeForm) /\ UNCHANGED <<theirs, answers, made>>
           /\ UNCHANGED items \/ items' = [items EXCEPT ![HomeForm] = @ \cup {run.park}]
  BY <1>0, <1>1, GivesUpFits
<1>2. CASE /\ items' = [items EXCEPT ![HomeForm] = @ \cup {run.park}] /\ pc' = "record" /\ Works
           /\ UNCHANGED <<theirs, answers, made, saved, pending, mem, run, used, gone>>
  <2>1. \A f \in Forms : items'[f] = IF f = saved.form THEN items[f] \cup {run.park} ELSE items[f]
    BY <1>0, <1>2 DEF TypeOK
  <2>2. items' \in [Forms -> SUBSET Parks]
    BY <1>0, <1>2 DEF TypeOK
  <2>3. TypeOK'
    BY <1>2, <2>2, BoundsType DEF TypeOK, Steps
  <2>4. Sound(saved)' /\ Sound(mem)' /\ Blank'
    BY <1>2 DEF Sound, Blank
  <2>5. Agrees' /\ Reserved' /\ Kept'
    BY <1>0, <1>2, <2>1, TwoForms DEF Agrees, Reserved, Kept, Lost, TypeOK, Records
  <2>a. Strays'
    BY <1>0, <1>2, <2>1 DEF Strays, Renewing, Lost
  <2>6. Others'
    BY <1>0, <1>2, <2>1, TwoForms DEF Others, Sound
  <2>7. At'
    BY <1>0, <1>2, <2>1 DEF At, Copies, Leaves, Sweeps, Writes
  <2>8. NoneForgotten'
    BY <1>0, <1>2, <2>1 DEF NoneForgotten, NamedIn
  <2> QED  BY <2>3, <2>4, <2>5, <2>a, <2>6, <2>7, <2>8
<1> QED  BY <1>0, <1>1, <1>2 DEF Store, Into, Goes

(* The park is recorded where it is, and the one it takes the place of       *)
(* listed, or left to the other home whose it is.                            *)
LEMMA RecordFits == ASSUME Inv, Record PROVE Inv'
<1> USE DEF Inv, store, disk, history
<1>0. /\ pc = "record" /\ saved.movingTo = None /\ mem.movingTo = None /\ saved.form \in Forms
      /\ HomeForm = saved.form /\ mem \in Records /\ run \in Runs
      /\ mem.form \in {None, saved.form} /\ pending \subseteq Parks
      /\ run.park \in pending /\ (run.park \in gone \/ run.park \in items[saved.form])
      /\ run.park \notin mem.held \cup mem.discarded \cup saved.held
      /\ run.op = "renew" => run.old \in mem.held \cap used
  BY TwoForms, HomeFormIs DEF Record, At, Copies, Writes, Agrees, Strays, TypeOK, Records
<1>1. CASE Faults /\ Refused /\ UNCHANGED store
  BY <1>1, StopFits
<1>2. CASE ~(Faults /\ Refused /\ UNCHANGED store)
  <2>1. PICK n \in (IF run.op = "renew" THEN {run.old} ELSE mem.held \cup {None}) :
          LET without == IF run.op = "renew" THEN Discard(mem, n) ELSE Release(mem, n)
              s == [without EXCEPT !.held = @ \cup {run.park}, !.discarded = @ \ {None}]
          IN /\ mem' = s
             /\ \/ saved' = Recorded(s) /\ Works
                \/ run.op = "renew" /\ saved' = saved /\ Faults
             /\ Purges(s, "idle")
             /\ UNCHANGED <<store, pending, history>>
    BY <1>2 DEF Record
  <2> DEFINE without == IF run.op = "renew" THEN Discard(mem, n) ELSE Release(mem, n)
             s == [without EXCEPT !.held = @ \cup {run.park}, !.discarded = @ \ {None}]
  <2>2. n \in mem.held \cup {None} /\ (run.op = "renew" => n \in used /\ n \in mem.held)
    BY <1>0, <2>1
  <2>3. /\ s \in Records /\ s.held = (mem.held \ {n}) \cup {run.park} /\ s.foreign = mem.foreign \ {n}
        /\ s.form = mem.form /\ s.movingTo = None /\ s.leaving = mem.leaving
        /\ mem.discarded \subseteq s.discarded /\ s.discarded \subseteq mem.discarded \cup (mem.held \cap {n})
        /\ n \in s.discarded \/ n \in mem.foreign \/ n = None
        /\ n \in s.discarded \ mem.discarded => n \in used \/ n \notin mem.foreign
    <3>1. /\ without.form = mem.form /\ without.movingTo = mem.movingTo /\ without.leaving = mem.leaving
          /\ without.held = mem.held \ {n} /\ without.foreign = mem.foreign \ {n}
          /\ without.discarded \subseteq mem.discarded \cup {n} /\ mem.discarded \subseteq without.discarded
          /\ n \in without.discarded \/ n \in mem.foreign
          /\ n \in without.discarded \ mem.discarded => n \in used \/ n \notin mem.foreign
      BY <1>0, <2>2 DEF Discard, Release, LetGo, Records
    <3>2. mem.discarded \subseteq Parks /\ mem.held \subseteq Parks /\ mem.foreign \subseteq Parks
          /\ run.park \in Parks /\ None \notin Parks
      BY <1>0, NoneAssumption DEF Records
    <3>3. /\ s.form = mem.form /\ s.movingTo = None /\ s.leaving = mem.leaving
          /\ s.held = (mem.held \ {n}) \cup {run.park} /\ s.foreign = mem.foreign \ {n}
          /\ s.discarded = without.discarded \ {None}
      BY <1>0, <3>1 DEF Discard, Release, LetGo, Records
    <3>4. s \in Records
      <4>1. without \in [held : SUBSET Parks, foreign : SUBSET Parks,
                         discarded : SUBSET (Parks \cup {None}), form : Forms \cup {None},
                         movingTo : Forms \cup {None},
                         leaving : [from : Forms \cup {None}, parks : SUBSET Parks]]
        BY <1>0, <2>2, <3>2 DEF Discard, Release, LetGo, Records
      <4> HIDE DEF without
      <4> QED  BY <3>2, <4>1 DEF Records
    <3> HIDE DEF without, s
    <3> QED  BY <2>2, <3>1, <3>2, <3>3, <3>4
  <2>4. /\ mem' = s /\ (Works \/ Faults) /\ Purges(s, "idle")
        /\ saved' = Recorded(s) \/ (run.op = "renew" /\ saved' = saved)
        /\ UNCHANGED <<items, theirs, answers, made, pending, used, gone>>
    BY <2>1
  <2> HIDE DEF s, without
  <2>5. pc' = "purge" /\ run' \in Runs /\ run'.op = run.op /\ run'.then = "idle"
    BY <2>3, <2>4, PurgesIs DEF Steps
  <2>6. saved' \in {saved, Recorded(s)} /\ mem' \in {s, saved'}
    BY <2>4
  <2>7. TypeOK'
    <3>1. /\ saved' \in Records /\ mem' \in Records
          /\ \A t \in {saved', mem'} : /\ (t.leaving.from = None) = (t.leaving.parks = {})
                                       /\ t.movingTo # None => t.movingTo # t.form
      BY <2>3, <2>6, RecordTyped
    <3> QED  BY <2>4, <2>5, <3>1, BoundsType DEF TypeOK, Steps
  <2>8. Recorded(s).movingTo = None /\ Recorded(s).discarded = s.discarded
    BY <2>3, RecordedIs
  <2>9. At'
    <3>1. saved'.movingTo = None /\ mem'.discarded = s.discarded
      BY <1>0, <2>4, <2>6, <2>8
    <3>2. saved' = saved => s.discarded \subseteq saved.discarded \cup saved.held
      BY <1>0, <2>3 DEF Strays
    <3>3. s.discarded \subseteq saved'.discarded \cup saved'.held
      BY <2>6, <2>8, <3>2
    <3> QED  BY <2>3, <2>4, <3>1, <3>3, PurgesAt
  <2>10. {run.park} \in SUBSET pending /\ s.held \subseteq mem.held \cup {run.park}
         /\ \A m \in {run.park} : m \notin saved.held /\ (m \in gone \/ m \in items[saved.form])
    BY <1>0, <2>3
  <2>11. s.held \cap s.discarded = {} /\ s.foreign \subseteq mem.foreign \cap s.held
    BY <1>0, <2>3 DEF Sound
  <2>12. \A m \in s.discarded \ mem.discarded :
            m \in mem.held \ s.held /\ (m \in used' \/ m \notin mem.foreign)
    BY <1>0, <2>3, <2>4
  <2>13. \A m \in mem.held \ s.held : m \in s.discarded \/ m \in mem.foreign
    <3>1. None \notin mem.held
      BY <1>0, NoneAssumption DEF Records
    <3> QED  BY <2>3, <3>1
  <2>14. (mem.foreign \ s.foreign) \cap s.held \subseteq used' /\ mem.discarded \subseteq s.discarded
    <3>1. n \notin s.held
      BY <1>0, <2>2, <2>3, NoneAssumption DEF TypeOK
    <3> QED  BY <2>3, <3>1
  <2>15. \/ saved' = Recorded(s)
         \/ /\ saved' = saved /\ Renewing' /\ pc # "purge" /\ mem.held \ s.held \subseteq Lost'
            /\ {run.park} # {} => pc' = "purge" /\ run'.then = "idle"
    <3>1. CASE run.op = "renew" /\ saved' = saved
      <4>1. n \in Lost' /\ Renewing'
        BY <2>2, <2>4, <2>5, <3>1 DEF Lost, Renewing
      <4> QED  BY <1>0, <2>3, <2>5, <3>1, <4>1
    <3> QED  BY <2>4, <3>1
  <2> QED  BY <1>0, <2>3, <2>4, <2>6, <2>7, <2>9, <2>10, <2>11, <2>12, <2>13, <2>14, <2>15,
              SameGrows, ChangeKeeps
<1> QED  BY <1>1, <1>2

-----------------------------------------------------------------------------

(* The command of a move: a home that records no form has nothing to move.   *)
LEMMA MovesFits == ASSUME Inv, NEW to \in Forms, Moves(to) PROVE Inv'
<1> USE DEF Inv, store, disk, history
<1> DEFINE from == IF mem.form # None THEN mem.form ELSE NewHomeForm
           s    == [mem EXCEPT !.form = from]
<1>0. /\ pc = "change" /\ saved.movingTo = None /\ mem.movingTo = None /\ mem.form = saved.form
      /\ mem \in Records /\ saved \in Records /\ run \in Runs
      /\ mem.leaving.parks \subseteq Parks
      /\ mem.held = saved.held /\ mem.discarded \subseteq saved.discarded
  BY NotRenewing DEF Renewing, Moves, At, Copies, Sweeps, Agrees, TypeOK, Records
<1>1. CASE Faults /\ Refused /\ UNCHANGED store
  BY <1>1, StopFits
<1>2. CASE ~(Faults /\ Refused /\ UNCHANGED store)
  <2>1. /\ from \in Forms /\ s \in Records /\ s.form = from /\ s.held = mem.held
        /\ s.foreign = mem.foreign /\ s.discarded = mem.discarded /\ s.movingTo = None
        /\ s.leaving = mem.leaving
    BY <1>0, TwoForms DEF NewHomeForm, Records
  <2>2. saved.form # None => s = mem /\ from = saved.form
    BY <1>0 DEF Records
  <2>3. saved.form = None => mem.held = {} /\ mem.discarded = {} /\ mem.leaving = NotLeaving
    BY <1>0, LeavingIs DEF Blank, Agrees, NotLeaving
  <2>4. Recorded(s) = s
    BY <2>1, TwoForms DEF Recorded
  <2>5. /\ mem' = s /\ Works
        /\ saved' = IF from = to /\ mem.form = None THEN s ELSE saved
        /\ \/ /\ mem.leaving = NotLeaving /\ from # to
              /\ pc' = "moving" /\ run' = [run EXCEPT !.to = to]
           \/ /\ pc' = "delete"
              /\ run' = [run EXCEPT !.to = to, !.todo = mem.leaving.parks, !.kept = {},
                                    !.then = IF from = to THEN "idle" ELSE "moving"]
        /\ UNCHANGED <<items, theirs, answers, made, pending, used, gone>>
    <3>1. CASE mem.leaving = NotLeaving /\ from # to
      BY <1>2, <3>1 DEF Moves, Goes
    <3>2. CASE ~(mem.leaving = NotLeaving /\ from # to)
      BY <1>2, <2>4, <3>2 DEF Moves, Goes
    <3> QED  BY <3>1, <3>2
  <2> HIDE DEF s, from
  <2>6. /\ run' \in Runs /\ run'.to = to
        /\ pc' = "delete" => /\ run'.todo = mem.leaving.parks /\ run'.kept = {}
                             /\ run'.then = "idle" \/ (run'.then = "moving" /\ from # to)
        /\ pc' = "moving" => mem.leaving = NotLeaving /\ from # to
        /\ pc' \in {"delete", "moving"}
    <3>1. CASE run' = [run EXCEPT !.to = to] /\ pc' = "moving"
      BY <1>0, <2>5, <3>1 DEF Runs
    <3>2. CASE /\ pc' = "delete"
               /\ run' = [run EXCEPT !.to = to, !.todo = mem.leaving.parks, !.kept = {},
                                     !.then = IF from = to THEN "idle" ELSE "moving"]
      BY <1>0, <3>2 DEF Runs, Steps
    <3> QED  BY <2>5, <3>1, <3>2
  <2>7. TypeOK'
    <3>1. (mem.leaving.from = None) = (mem.leaving.parks = {})
      BY DEF TypeOK
    <3>2. crashes' \in 0 .. MaxCrashes /\ faults' \in 0 .. MaxFaults /\ locks' \in 0 .. MaxLocks
      BY <2>5, BoundsType
    <3>3. saved' \in {saved, s} /\ mem' = s /\ pc' \in Steps
      BY <2>5, <2>6 DEF Steps
    <3> QED  BY <1>0, <2>1, <2>5, <2>6, <3>1, <3>2, <3>3 DEF TypeOK
  <2>8. Sound(saved)' /\ Sound(mem)'
    <3>1. Sound(s)
      <4>1. CASE saved.form # None
        BY <2>2, <4>1
      <4>2. CASE saved.form = None
        BY <1>0, <2>1, <2>3, <4>2 DEF Sound
      <4> QED  BY <4>1, <4>2
    <3> QED  BY <2>5, <3>1 DEF Sound
  <2>9. CASE saved' = saved
    <3>1. Agrees' /\ Blank' /\ Reserved' /\ Kept'
      BY <1>0, <2>1, <2>2, <2>5, <2>6, <2>9 DEF Agrees, Blank, Reserved, Kept, Lost
    <3>a. Strays'
      BY <1>0, <2>1, <2>5, <2>9, NoStrays
    <3>2. Others' /\ NoneForgotten'
      BY <2>5, <2>9 DEF Others, NoneForgotten, NamedIn
    <3>3. At'
      BY <1>0, <2>1, <2>5, <2>6, <2>9, TwoForms DEF At, Copies, Leaves, Sweeps, Writes
    <3> QED  BY <2>7, <2>8, <3>1, <3>a, <3>2, <3>3
  <2>10. CASE saved' = s /\ from = to /\ mem.form = None
    <3>1. pending = {} /\ saved.held = {} /\ saved.leaving = NotLeaving
      BY <1>0, <2>10 DEF Blank
    <3>2. Agrees' /\ Blank' /\ Reserved'
      BY <1>0, <2>1, <2>3, <2>5, <2>10, TwoForms DEF Agrees, Blank, Reserved, NotLeaving
    <3>a. Strays'
      BY <2>1, <2>5, <2>10, NoStrays
    <3>3. Kept' /\ Others'
      BY <1>0, <2>1, <2>3, <2>5, <2>10, TwoForms DEF Kept, Lost, Others, NotLeaving, Sound
    <3>4. NoneForgotten'
      <4>1. \A f \in Forms : \A n \in items[f] : f = Service /\ n \in theirs
        BY <1>0, <2>10, <3>1, TwoForms DEF NoneForgotten, NamedIn, NotLeaving
      <4> QED  BY <2>5, <4>1 DEF NoneForgotten
    <3>5. At'
      BY <1>0, <2>1, <2>3, <2>5, <2>6, <2>10, TwoForms DEF At, Copies, Leaves, Sweeps, Writes
    <3> QED  BY <2>7, <2>8, <3>2, <3>a, <3>3, <3>4, <3>5
  <2> QED  BY <2>5, <2>9, <2>10
<1> QED  BY <1>1, <1>2

(* The record of a move: what is in the new form already is another home's.  *)
LEMMA MovingFits == ASSUME Inv, Moving PROVE Inv'
<1> USE DEF Inv, store, disk, history
<1> DEFINE there == IF Shared(run.to) THEN items[run.to] \cap Held(mem) ELSE {}
           s == [WrittenElsewhere(mem, there) EXCEPT !.movingTo = run.to, !.leaving = NotLeaving]
<1>0. /\ pc = "moving" /\ saved.movingTo = None /\ mem \in Records /\ run \in Runs
      /\ mem.form \in Forms /\ run.to \in Forms \ {mem.form} /\ saved.form \in {None, mem.form}
      /\ mem.leaving = NotLeaving /\ mem.held = saved.held /\ Held(mem) \subseteq Parks
      /\ pending \subseteq Parks /\ mem.discarded \subseteq saved.discarded
  BY NotRenewing DEF Renewing, Moving, At, Copies, Leaves, Agrees, TypeOK, Records, Held
<1>1. CASE Fails(Service) /\ Refused /\ UNCHANGED store
  BY <1>1, StopFits, TwoForms
<1>2. CASE ~(Fails(Service) /\ Refused /\ UNCHANGED store)
  <2>1. /\ s \in Records /\ s.form = mem.form /\ s.held = mem.held
        /\ s.foreign = mem.foreign \cup (there \cap mem.held) /\ s.discarded = mem.discarded
        /\ s.movingTo = run.to /\ s.leaving = NotLeaving
    BY <1>0 DEF WrittenElsewhere, Records, NotLeaving
  <2>2. Recorded(s) = s
    BY <1>0, <2>1, TwoForms DEF Recorded
  <2>3. /\ mem' = s /\ saved' = s /\ pc' = "copy" /\ Works
        /\ run' = [run EXCEPT !.todo = Held(mem), !.then = "idle"]
        /\ UNCHANGED <<items, theirs, answers, made, pending, used, gone>>
    BY <1>2, <2>2 DEF Moving, Goes
  <2>4. /\ there \subseteq items[Service] /\ (there # {} => run.to = Service)
        /\ run.to = Service => items[Service] \cap mem.held \subseteq there
    BY DEF Shared, Held
  <2> HIDE DEF s, there
  <2>5. run' \in Runs /\ run'.todo = Held(mem) /\ run'.then = "idle"
    BY <1>0, <2>3 DEF Runs, Steps
  <2>6. TypeOK'
    BY <1>0, <2>1, <2>3, <2>5, BoundsType DEF TypeOK, Steps, NotLeaving
  <2>7. Sound(s)
    BY <1>0, <2>1, TwoForms DEF Sound
  <2>8. Sound(saved)' /\ Sound(mem)' /\ Blank' /\ Agrees' /\ Strays'
    BY <1>0, <2>1, <2>3, <2>7, TwoForms, NoStrays DEF Sound, Blank, Agrees
  <2>9. Reserved'
    BY <1>0, <2>1, <2>3 DEF Reserved, Agrees, NotLeaving
  <2>10. Kept'
    BY <1>0, <2>1, <2>3, <2>4 DEF Kept, Lost, Agrees, Blank
  <2>11. saved.form = None => mem.held = {} /\ mem.discarded = {}
    BY <1>0 DEF Blank
  <2>12. ASSUME NEW f \in Forms, NEW n \in items[f]
         PROVE  \/ f = saved.form /\ n \in mem.held \cup mem.discarded \cup pending
                \/ f = Service /\ n \in theirs
    <3>1. n \notin mem.leaving.parks
      BY <1>0 DEF NotLeaving
    <3> QED  BY <1>0, <3>1, <2>12, MindNames
  <2>13. Others'
    <3>1. s.foreign \cap items[Service] \subseteq theirs
      BY <1>0, <2>1, <2>4, <2>12, TwoForms DEF Others, Agrees
    <3>2. theirs \cap s.held \subseteq s.foreign \cup used
      <4>1. CASE run.to = Service
        BY <1>0, <2>1, <2>4, <4>1 DEF Others
      <4>2. CASE mem.form = Service
        BY <1>0, <2>1, <2>11, <4>2, MindOthers
      <4> QED  BY <1>0, <4>1, <4>2 DEF Forms
    <3>3. mem.form = Service => theirs \cap s.discarded \subseteq used
      BY <1>0, <2>1, <2>11, MindOthers
    <3> QED  BY <1>0, <2>1, <2>3, <3>1, <3>2, <3>3, TwoForms DEF Others, NotLeaving
  <2>14. At'
    BY <1>0, <2>1, <2>3, <2>5, TwoForms DEF At, Copies, Leaves, Sweeps, Writes, Held
  <2>15. NoneForgotten'
    <3>1. ASSUME NEW f \in Forms, NEW n \in items[f]
          PROVE  NamedIn(f, n)' \/ (f = Service /\ n \in theirs)
      BY <1>0, <2>1, <2>3, <2>12, <3>1, TwoForms DEF NamedIn
    <3> QED  BY <2>3, <3>1 DEF NoneForgotten
  <2> QED  BY <2>6, <2>8, <2>9, <2>10, <2>13, <2>14, <2>15
<1> QED  BY <1>1, <1>2

-----------------------------------------------------------------------------

(* A run killed leaves what it had saved.                                    *)
LEMMA CrashFits == ASSUME Inv, Crash PROVE Inv'
<1> USE DEF Inv, Crash, End, store, disk, history
<1>1. TypeOK'
  BY NoRunIsRun, VaultBounds DEF TypeOK, Steps
<1>2. Sound(saved)' /\ Sound(mem)' /\ Blank'
  BY DEF Sound, Blank
<1>3. Agrees' /\ Strays' /\ Reserved' /\ Kept' /\ Others'
  BY DEF Agrees, Strays, Reserved, Kept, Lost, Others
<1>4. At'
  BY DEF At, Copies, Leaves, Sweeps, Writes
<1>5. NoneForgotten'
  BY DEF NoneForgotten, NamedIn
<1> QED  BY <1>1, <1>2, <1>3, <1>4, <1>5

(* Another home's park has a name nobody has reserved.                       *)
LEMMA OtherParksFits == ASSUME Inv, NEW n \in Parks, OtherParks(n) PROVE Inv'
<1> USE DEF Inv, store, disk, history, process, bounds
<1>1. /\ n \notin made /\ items' = [items EXCEPT ![Service] = @ \cup {n}]
      /\ theirs' = theirs \cup {n} /\ made' = made \cup {n}
      /\ UNCHANGED <<answers, saved, pending, pc, mem, run, used, gone, crashes, faults, locks>>
  BY DEF OtherParks
<1>2. /\ \A f \in Forms : items[f] \subseteq items'[f] /\ items'[f] \subseteq items[f] \cup {n}
      /\ items'[Files] = items[Files] /\ n \in items'[Service]
      /\ items' \in [Forms -> SUBSET Parks]
  BY <1>1, TwoForms DEF TypeOK
<1>3. n \notin saved.held \cup saved.discarded \cup saved.leaving.parks \cup pending
  BY <1>1 DEF Reserved
<1>4. TypeOK'
  BY <1>1, <1>2 DEF TypeOK
<1>5. Sound(saved)' /\ Sound(mem)' /\ Blank'
  BY <1>1 DEF Sound, Blank
<1>6. Agrees'
  BY <1>1, <1>2, <1>3 DEF Agrees, TypeOK, Records
<1>a. Strays'
  <2>1. saved.held # {} => saved.form \in Forms
    BY DEF Blank, TypeOK, Records
  <2>2. mem.held \subseteq saved.held \cup pending /\ (saved.form = None => pending = {})
    BY DEF Strays, Blank
  <2>3. saved.form # None => saved.form \in Forms
    BY DEF TypeOK, Records
  <2> QED  BY <1>1, <1>2, <1>3, <2>1, <2>2, <2>3 DEF Strays, Renewing, Lost
<1>7. Reserved' /\ Kept'
  BY <1>1, <1>2, <1>3, TwoForms DEF Reserved, Kept, Lost, TypeOK, Records
<1>8. Others'
  BY <1>1, <1>2, <1>3, TwoForms DEF Others, Sound
<1>9. At'
  <2>1. Copies'
    BY <1>1, <1>2 DEF At, Copies, Held, Lost, TypeOK, Records
  <2>2. Leaves'
    BY <1>1, <1>2, <1>3 DEF At, Leaves, Agrees, TypeOK, Records
  <2>3. Sweeps'
    BY <1>1, <1>2, <1>3 DEF At, Sweeps, Names, TypeOK, Records
  <2>4. Writes'
    BY <1>1, <1>2 DEF At, Writes, TypeOK, Records
  <2> QED  BY <1>1, <2>1, <2>2, <2>3, <2>4 DEF At
<1>10. NoneForgotten'
  BY <1>1, <1>2, TwoForms DEF NoneForgotten, NamedIn, Forms
<1> QED  BY <1>4, <1>5, <1>6, <1>a, <1>7, <1>8, <1>9, <1>10

(* What it takes is its own, or is said to be gone.                          *)
LEMMA OtherTakesFits == ASSUME Inv, NEW n \in Parks, OtherTakes(n) PROVE Inv'
<1> USE DEF Inv, store, disk, history, process, bounds
<1>1. /\ items' = [items EXCEPT ![Service] = @ \ {n}]
      /\ theirs' = theirs \ {n} /\ (gone' = gone \/ gone' = gone \cup {n})
      /\ n \in gone' \/ (HomeForm = Files /\ saved.movingTo = None)
      /\ UNCHANGED <<answers, made, saved, pending, pc, mem, run, used, crashes, faults, locks>>
  BY DEF OtherTakes
<1>2. /\ \A f \in Forms : items'[f] \subseteq items[f] /\ items[f] \subseteq items'[f] \cup {n}
      /\ items'[Files] = items[Files]
      /\ items' \in [Forms -> SUBSET Parks]
  BY <1>1, TwoForms DEF TypeOK
<1>3. n \in gone' \/ (saved.form \in {None, Files} /\ saved.movingTo = None)
  BY <1>1, HomeFormIs, TwoForms
<1>4. TypeOK'
  BY <1>1, <1>2 DEF TypeOK
<1>5. Sound(saved)' /\ Sound(mem)' /\ Blank'
  BY <1>1 DEF Sound, Blank
<1>6. Agrees' /\ Reserved'
  BY <1>1, <1>2 DEF Agrees, Reserved, TypeOK, Records
<1>a. Strays'
  <2>1. saved.held # {} \/ pending # {} => saved.form \in Forms
    BY DEF Blank, TypeOK, Records
  <2>2. saved.form = Files \/ n \in gone' \/ saved.form = None
    BY <1>3
  <2>3. \A m \in mem.held \ saved.held :
          pc = "purge" /\ run.then = "idle" /\ m \in pending /\ (m \in gone' \/ m \in items'[saved.form])
    BY <1>1, <1>2, <2>1, <2>2, TwoForms DEF Strays
  <2> QED  BY <1>1, <1>2, <2>1, <2>3 DEF Strays, Renewing, Lost
<1>7. Kept'
  BY <1>1, <1>2, <1>3, TwoForms DEF Kept, Lost, Sound, Blank, TypeOK, Records, Forms
<1>8. Others'
  BY <1>1, <1>2, TwoForms DEF Others
<1>9. At'
  <2>1. Copies'
    BY <1>1, <1>2, <1>3 DEF At, Copies, Held, Lost, TypeOK, Records
  <2>2. Leaves' /\ Sweeps'
    BY <1>1, <1>2 DEF At, Leaves, Sweeps, Names, TypeOK, Records
  <2>3. Writes'
    <3>1. pc = "record" => run.park \in gone' \/ run.park \in items'[saved.form]
      BY <1>1, <1>2, <1>3, TwoForms DEF At, Writes, TypeOK, Records
    <3> QED  BY <1>1, <3>1 DEF At, Writes
  <2> QED  BY <1>1, <2>1, <2>2, <2>3 DEF At
<1>10. NoneForgotten'
  BY <1>1, <1>2, TwoForms DEF NoneForgotten, NamedIn, TypeOK
<1> QED  BY <1>4, <1>5, <1>6, <1>a, <1>7, <1>8, <1>9, <1>10

(* Whether the Secret Service answers is in nothing a record says.           *)
LEMMA KeyringFits == ASSUME Inv, Locks \/ Unlocks PROVE Inv'
<1> USE DEF Inv, store, disk, history, process, bounds
<1>1. /\ UNCHANGED <<items, theirs, made, saved, pending, pc, mem, run, used, gone>>
      /\ UNCHANGED <<crashes, faults>> /\ answers' \in BOOLEAN /\ locks' \in 0 .. MaxLocks
  <2>1. CASE Locks
    <3>1. locks' \in 0 .. MaxLocks
      <4>1. locks \in 0 .. MaxLocks
        BY DEF TypeOK
      <4>2. locks < MaxLocks /\ locks' = locks + 1
        BY <2>1 DEF Locks
      <4> QED  BY <4>1, <4>2, VaultBounds
    <3>2. answers' \in BOOLEAN
      BY <2>1 DEF Locks
    <3> QED  BY <2>1, <3>1, <3>2 DEF Locks
  <2>2. CASE Unlocks
    <3>1. answers' \in BOOLEAN
      BY <2>2 DEF Unlocks
    <3> QED  BY <2>2, <3>1 DEF Unlocks, TypeOK
  <2> QED  BY <2>1, <2>2
<1>2. TypeOK' /\ Sound(saved)' /\ Sound(mem)' /\ Blank'
  BY <1>1 DEF TypeOK, Sound, Blank
<1>3. Agrees' /\ Strays' /\ Reserved' /\ Kept' /\ Others'
  BY <1>1 DEF Agrees, Strays, Renewing, Reserved, Kept, Lost, Others
<1>4. Copies' /\ Leaves'
  BY <1>1 DEF At, Copies, Leaves, Held, Lost
<1>5. Sweeps' /\ Writes'
  BY <1>1 DEF At, Sweeps, Writes, Names
<1>6. NoneForgotten' /\ (pc = "idle" => mem = saved)'
  BY <1>1 DEF At, NoneForgotten, NamedIn
<1> QED  BY <1>2, <1>3, <1>4, <1>5, <1>6 DEF At

-----------------------------------------------------------------------------

(* A home begins with nothing.                                               *)
LEMMA InitFits == Init => Inv
<1> SUFFICES ASSUME Init PROVE Inv
  OBVIOUS
<1> USE DEF Init
<1>1. saved.leaving = NotLeaving /\ saved \in Records /\ mem \in Records
  BY DEF NotLeaving, Records
<1>2. TypeOK
  BY <1>1, NoRunIsRun, VaultBounds DEF TypeOK, Steps, NotLeaving
<1>3. Sound(saved) /\ Sound(mem) /\ Blank /\ Agrees /\ Strays /\ Reserved
  BY <1>1 DEF Sound, Blank, Agrees, Strays, Reserved, NotLeaving
<1>4. Kept /\ Others /\ At /\ NoneForgotten
  BY <1>1, TwoForms DEF Kept, Others, At, Copies, Leaves, Sweeps, Writes, NoneForgotten, NotLeaving
<1> QED  BY <1>2, <1>3, <1>4 DEF Inv

(* Every step of a run, of the other home and of the keyring keeps it.       *)
LEMMA NextFits == Inv /\ [Next]_vars => Inv'
<1> SUFFICES ASSUME Inv, [Next]_vars PROVE Inv'
  OBVIOUS
<1>1. CASE Starts
  BY <1>1, StartFits DEF Starts
<1>2. CASE Step
  BY <1>2, NameFits, TakenOutFits, SweepFits, ListFits, PurgedFits, ParkingFits, FormFits,
     ReserveFits, StoreFits, RecordFits, MovingFits, CopyFits, DeleteFits, PurgeFits,
     LetsGoFits, DropsFits, DeclinesFits, SpendsFits, MovesFits DEF Step
<1>3. CASE Crash \/ Other \/ Locks \/ Unlocks
  BY <1>3, CrashFits, OtherParksFits, OtherTakesFits, KeyringFits DEF Other
<1>4. CASE UNCHANGED vars
  <2> USE <1>4 DEF vars, store, disk, history, process, bounds
  <2>1. TypeOK' /\ Sound(saved)' /\ Sound(mem)' /\ Blank' /\ Agrees' /\ Strays'
    BY DEF Inv, TypeOK, Sound, Blank, Agrees, Strays, Renewing, Lost
  <2>2. Reserved' /\ Kept' /\ Others' /\ At' /\ NoneForgotten'
    BY DEF Inv, Reserved, Kept, Lost, Others, At, Copies, Leaves, Sweeps, Writes, NoneForgotten,
           NamedIn, Names, Held
  <2> QED  BY <2>1, <2>2 DEF Inv
<1> QED  BY <1>1, <1>2, <1>3, <1>4 DEF Next

(* The invariant of the vault's forms: for any parks, crashes, failures and  *)
(* silences of the Secret Service, what every step of a move, a sweep or a   *)
(* change leaves behind is what a later run makes the right thing of.        *)
THEOREM InvHolds == Spec => []Inv
<1> QED  BY InitFits, NextFits, PTL DEF Spec

(* Every variable keeps its type.                                            *)
THEOREM TypeCorrect == Spec => []TypeOK
<1>1. Inv => TypeOK
  BY DEF Inv
<1> QED  BY <1>1, InvHolds, PTL

(* Every login an account keeps is, wherever a run stops in a move of the    *)
(* vault (switch/vault.rs) or a change, in the form the saved record names,  *)
(* unless the other home took it, the service refused it, or it is in use or *)
(* spent.                                                                    *)
THEOREM HeldAreThere == Spec => []HeldIsThere
<1>1. Inv => HeldIsThere
  BY DEF Inv, HeldIsThere, Kept, Lost, Blank
<1> QED  BY <1>1, InvHolds, PTL

(* No crash or failure leaves an item in either form that no record of this  *)
(* home names, to be kept, copied, or deleted, but for another home's.       *)
THEOREM EveryItemIsNamed == Spec => []NoneForgotten
<1>1. Inv => NoneForgotten
  BY DEF Inv
<1> QED  BY <1>1, InvHolds, PTL

(* What another home holds is its own to say: no step of ours changes it.    *)
LEMMA StepLeavesTheirs == ASSUME Step PROVE theirs' = theirs
<1> USE DEF store, Into, Refused
<1>1. CASE Name \/ TakenOut \/ List \/ Purged \/ Drops \/ Parking \/ Form \/ Moving
  BY <1>1 DEF Name, TakenOut, List, Purged, Drops, Parking, Form, Moving
<1>2. CASE Sweep \/ Reclaim
  BY <1>2 DEF Sweep, Reclaim, Resolve
<1>3. CASE Reserve \/ Store \/ Record
  BY <1>3 DEF Reserve, Store, Record, GivesUp
<1>4. ASSUME NEW n \in Parks, Copy(n) \/ Delete(n) \/ Purge(n) PROVE theirs' = theirs
  BY <1>4 DEF Copy, Delete, Purge
<1>5. ASSUME NEW n \in Parks, LetsGo(n) \/ Declines(n) \/ Spends(n) PROVE theirs' = theirs
  BY <1>5 DEF LetsGo, Declines, Spends
<1>6. ASSUME NEW to \in Forms, Moves(to) PROVE theirs' = theirs
  BY <1>6 DEF Moves
<1> QED  BY <1>1, <1>2, <1>3, <1>4, <1>5, <1>6 DEF Step

(* No step of this home takes another home's park out of the Secret Service: *)
(* of what it deletes, what is theirs it has used up.                        *)
LEMMA StepKeepsOthers ==
  ASSUME Inv, Inv', Step, NEW n \in theirs
  PROVE  n \in items[Service]' \/ n \in used'
<1>1. n \in theirs'
  BY StepLeavesTheirs
<1> QED  BY <1>1 DEF Inv, Others

(* So another home's logins stay where it left them (switch/foreign.rs).     *)
THEOREM OthersAreKept == Spec => OthersStay
<1>1. Inv /\ Inv' /\ [Next]_vars =>
        [Step => \A n \in theirs : n \in items[Service]' \/ n \in used']_vars
  BY StepKeepsOthers
<1> QED  BY <1>1, InvHolds, PTL DEF Spec, OthersStay

=============================================================================
