----------------------------- MODULE VaultForms -----------------------------
(***************************************************************************)
(* Where one Pitboard home keeps its parked logins on a system that offers *)
(* two ways, as Linux offers the Secret Service and files, and the move of *)
(* them from one to the other (switch/vault.rs), beside what else writes,  *)
(* gives back and deletes a park: a change that parks or lets go of a      *)
(* login, a renewal, repair, and the settling before each of them.         *)
(*                                                                         *)
(* Files belong to the home.  The Secret Service belongs to the session,   *)
(* so another home parks there too, under the same kind of name; it may    *)
(* answer or not from one call to the next.  A park is written once under  *)
(* a name of its own, so a name stands for what it holds.                  *)
(*                                                                         *)
(* One run at a time changes anything of this home: it holds the home's    *)
(* lock.  The other home has a lock of its own and moves meanwhile.        *)
(***************************************************************************)
EXTENDS Naturals, FiniteSets

CONSTANTS Parks,        \* every park name either home may write
          None,         \* no park, no form
          MaxCrashes,   \* bound: runs that die
          MaxFaults,    \* bound: saves and file operations that fail
          MaxLocks      \* bound: times the Secret Service stops answering

Service == "secret_service"
Files   == "files"
Forms   == {Service, Files}

ASSUME NoneAssumption == None \notin Parks /\ None \notin Forms
ASSUME VaultBounds == MaxCrashes \in Nat /\ MaxFaults \in Nat /\ MaxLocks \in Nat

Shared(form) == form = Service

NotLeaving == [from |-> None, parks |-> {}]

\* state.json, as far as it says where a park is and whose it is to delete.
Records == [held      : SUBSET Parks,       \* accounts' parks
            foreign   : SUBSET Parks,       \* of those, the ones not written here
            discarded : SUBSET Parks,       \* listed to be deleted
            form      : Forms \cup {None},  \* None: no save has recorded one
            movingTo  : Forms \cup {None},
            leaving   : [from : Forms \cup {None}, parks : SUBSET Parks]]

VARIABLES
  items,      \* what each form holds
  theirs,     \* parks the other home wrote in the Secret Service and holds
  answers,    \* the Secret Service answers
  saved,      \* state.json
  pending,    \* names written down before they are written into
  pc, mem,    \* the run: its next step, and the state it loaded and changed
  run,        \* what it is about: [op, to, park, old, again, todo, kept, then]
  made,       \* history: names either home has reserved
  used,       \* history: parks whose login this home has in use, had or spent
  gone,       \* history: parks the other home took, or the service refused
  crashes, faults, locks

store   == <<items, theirs, answers, made>>
disk    == <<saved, pending>>
process == <<pc, mem, run>>
history == <<used, gone>>
bounds  == <<crashes, faults, locks>>
vars    == <<store, disk, process, history, bounds>>

Commands == {"park", "letGo", "use", "renew", "repair", "move"}

NoRun == [op |-> None, to |-> None, park |-> None, old |-> None,
          again |-> FALSE, todo |-> {}, kept |-> {}, then |-> "idle"]

Steps == {"idle", "copy", "delete", "sweep", "list", "purge",
          "change", "form", "reserve", "store", "record", "moving"}

Runs == [op : Commands \cup {None}, to : Forms \cup {None},
         park : Parks \cup {None}, old : Parks \cup {None},
         again : BOOLEAN, todo : SUBSET Parks, kept : SUBSET Parks, then : Steps]

-----------------------------------------------------------------------------
(* state.rs: what the run makes of the record it loaded. *)

Names(s, n) == n \in s.held \cup s.discarded

\* Stop holding it; list it to be deleted; or that only where this home wrote it.
LetGo(s, n)   == [s EXCEPT !.held = @ \ {n}, !.foreign = @ \ {n}]
Discard(s, n) == [LetGo(s, n) EXCEPT !.discarded = @ \cup {n}]
Release(s, n) == IF n \in s.foreign THEN LetGo(s, n) ELSE Discard(s, n)
UsedHere(s, n) == [s EXCEPT !.foreign = @ \ {n}]
WrittenElsewhere(s, ns) == [s EXCEPT !.foreign = @ \cup (ns \cap s.held)]

\* The form a home that records none takes, asked again at each look.
NewHomeForm == IF items[Files] = {} /\ answers THEN Service ELSE Files

HomeForm == IF saved.form = None THEN NewHomeForm ELSE saved.form

\* Mutant: a save that holds no form asks again, whatever the file records.
RecordedAsksAgain(s) == IF s.form = None THEN [s EXCEPT !.form = NewHomeForm] ELSE s

\* What a save writes: the form this state holds, else the file's, else a new home's.
Recorded(s) == IF s.form = None THEN [s EXCEPT !.form = HomeForm] ELSE s

-----------------------------------------------------------------------------
(* Operations that succeed or fail.  A refusal of the Secret Service costs no *)
(* fault of the bound; anything else that fails does.                        *)

CanFault == faults < MaxFaults

Refuses(form) == Shared(form) /\ ~answers

Works       == UNCHANGED bounds
Faults      == CanFault /\ faults' = faults + 1 /\ UNCHANGED <<crashes, locks>>
Fails(form) == IF Refuses(form) THEN Works ELSE Faults

Goes(step) == pc' = step

\* What the state s in mind lists is deleted; what the run wrote before is written.
Purges(s, then) ==
  /\ Goes("purge")
  /\ run' = [NoRun EXCEPT !.op = run.op, !.todo = s.discarded, !.kept = s.discarded,
                          !.then = then]

End        == pc' = "idle" /\ run' = NoRun

\* The run stops with an error, and its memory goes with it.
Refused == End /\ mem' = saved /\ UNCHANGED <<disk, history>>

\* Every vault name the records name, but those listed to be deleted.
Held(s) == s.held \cup pending

-----------------------------------------------------------------------------
(* A run begins: the lock, the record, and a move cut short finished first. *)

\* Mutant: a run finishes a move cut short, and nothing else of one.
FinishesMovesAlone(cmd) ==
  LET new  == [NoRun EXCEPT !.op = cmd]
      next == IF cmd = "renew" THEN "change" ELSE "sweep"
  IN IF saved.movingTo # None
     THEN Goes("copy") /\ run' = [new EXCEPT !.todo = Held(saved), !.then = next]
     ELSE Goes(next) /\ run' = new

\* finish, as settle and a renewal call it: a renewal looks for a move alone.
Finishes(cmd) ==
  LET new  == [NoRun EXCEPT !.op = cmd]
      next == IF cmd = "renew" THEN "change" ELSE "sweep"
  IN IF saved.movingTo # None
     THEN Goes("copy") /\ run' = [new EXCEPT !.todo = Held(saved), !.then = next]
     ELSE IF saved.leaving # NotLeaving /\ cmd # "renew"
     THEN Goes("delete") /\ run' = [new EXCEPT !.todo = saved.leaving.parks, !.then = next]
     ELSE Goes(next) /\ run' = new

\* What each command is about.
Start(cmd) ==
  /\ pc = "idle"
  /\ cmd \in {"park", "renew"} => made # Parks
  /\ mem' = saved
  /\ Finishes(cmd)
  /\ UNCHANGED <<store, disk, history, bounds>>

\* There already, for the home that wrote it.
LeftThere(n) == Shared(mem.movingTo) /\ n \in mem.foreign

Into(form, n) == /\ items' = [items EXCEPT ![form] = @ \cup {n}]
                 /\ UNCHANGED <<theirs, answers>>

\* forward: each name read, written into the new form and read back there.  One
\* form or the other is the Secret Service, so a copy wants its answer.
Copy(n) ==
  LET copies == ~LeftThere(n) /\ n \in items[mem.form]
      Copied == run' = [run EXCEPT !.todo = @ \ {n}] /\ UNCHANGED <<disk, pc, mem, history>>
  IN
  /\ pc = "copy" /\ n \in run.todo
  /\ \/ /\ LeftThere(n) \/ (~copies /\ ~Refuses(mem.form))
        /\ Copied /\ Works /\ UNCHANGED <<items, theirs, answers>>
     \/ copies /\ answers /\ Into(mem.movingTo, n) /\ Copied /\ Works
     \/ /\ ~LeftThere(n) /\ (Refuses(mem.form) \/ (copies /\ ~answers))
        /\ Refused /\ Works /\ UNCHANGED <<items, theirs, answers>>
     \* One that fails, written or not.
     \/ /\ copies /\ answers /\ Refused /\ Faults
        /\ Into(mem.movingTo, n) \/ UNCHANGED <<items, theirs, answers>>
  /\ UNCHANGED made

\* Mutant: a list is kept though nothing is on it.
LeavingOfAny(from, parks) == [from |-> from, parks |-> parks]

LeavingOf(from, parks) == IF parks = {} THEN NotLeaving ELSE [from |-> from, parks |-> parks]

\* Mutant: what leaves the old form takes another home's parks along.
MovedAll(s) ==
  [s EXCEPT !.form = s.movingTo, !.movingTo = None, !.discarded = {},
            !.foreign = IF Shared(s.movingTo) THEN @ ELSE @ \ Held(s),
            !.leaving = LeavingOf(s.form, Held(s) \cup s.discarded)]

\* Mutant: what waits to be deleted is not listed to leave.
MovedForgets(s) ==
  LET stays == IF Shared(s.form) THEN s.foreign ELSE {} IN
  [s EXCEPT !.form = s.movingTo, !.movingTo = None, !.discarded = {},
            !.foreign = IF Shared(s.movingTo) THEN @ ELSE @ \ Held(s),
            !.leaving = LeavingOf(s.form, Held(s) \ stays)]

\* The record that names the new form and lists what leaves the old one.
Moved(s) ==
  LET stays == IF Shared(s.form) THEN s.foreign ELSE {} IN
  [s EXCEPT !.form = s.movingTo, !.movingTo = None, !.discarded = {},
            !.foreign = IF Shared(s.movingTo) THEN @ ELSE @ \ Held(s),
            !.leaving = LeavingOf(s.form, (Held(s) \ stays) \cup s.discarded)]

\* forward: every name copied, the save; then take_out.
Name ==
  /\ pc = "copy" /\ run.todo = {}
  /\ \/ /\ mem' = Moved(mem) /\ saved' = Recorded(mem')
        /\ run' = [run EXCEPT !.todo = mem'.leaving.parks, !.kept = {}]
        /\ Goes("delete") /\ Works
        \* What was copied is this home's to keep again.
        /\ gone' = gone \ items[mem.movingTo]
        /\ UNCHANGED <<store, pending, used>>
     \/ Faults /\ Refused /\ UNCHANGED store

\* take_out: each park deleted from the form a move left, or kept on the list.
Delete(n) ==
  /\ pc = "delete" /\ n \in run.todo
  /\ \/ /\ ~Refuses(mem.leaving.from)
        /\ items' = [items EXCEPT ![mem.leaving.from] = @ \ {n}]
        /\ run' = [run EXCEPT !.todo = @ \ {n}]
        /\ Works /\ UNCHANGED <<theirs, answers, made>>
     \/ /\ run' = [run EXCEPT !.todo = @ \ {n}, !.kept = @ \cup {n}]
        /\ Fails(mem.leaving.from) /\ UNCHANGED store
  /\ UNCHANGED <<disk, pc, mem, history>>

\* The rest of the list saved.  Its failure is said, and stops a new move alone.
TakenOut ==
  LET left == [mem EXCEPT !.leaving = LeavingOf(@.from, run.kept)]
      stop == run.then = "moving" /\ run.kept # {}
  IN
  /\ pc = "delete" /\ run.todo = {}
  /\ IF left = mem
     THEN /\ IF stop \/ run.then = "idle"
             THEN End /\ mem' = saved
             ELSE Goes(run.then) /\ UNCHANGED <<mem, run>>
          /\ Works /\ UNCHANGED disk
     ELSE \/ /\ saved' = Recorded(left) /\ UNCHANGED pending
             /\ IF stop \/ run.then = "idle"
                THEN End /\ mem' = saved'
                ELSE Goes(run.then) /\ mem' = left /\ UNCHANGED run
             /\ Works
          \/ /\ Faults /\ UNCHANGED disk
             /\ IF run.then \in {"moving", "idle"}
                THEN End /\ mem' = saved
                ELSE Goes(run.then) /\ mem' = left /\ UNCHANGED run
  /\ UNCHANGED <<store, history>>

-----------------------------------------------------------------------------
(* The rest of settling, and repair: names written down, and what is there.  *)

\* pending::resolve over `names': each one unnamed is given back to an account
\* that takes it, in place of an older copy or of none, or listed to be deleted
\* if it was written down here.  One that cannot be read stays written down.
Resolve(names, then) ==
  LET unnamed == {n \in names : ~Names(mem, n)} IN
  \E unread \in SUBSET unnamed :
  \E given \in SUBSET ((unnamed \ unread) \cap items[HomeForm]) :
  \E older \in SUBSET mem.held :
    LET ours    == (unnamed \ unread) \cap items[HomeForm] \cap pending
        strange == IF Shared(HomeForm) THEN given \ pending ELSE {}
        s == [mem EXCEPT !.held      = (@ \ older) \cup given,
                         !.foreign   = (@ \ older) \cup strange,
                         !.discarded = @ \cup (ours \ given) \cup (older \ mem.foreign)]
    IN /\ Cardinality(older) <= Cardinality(given \cap ours)
       /\ IF Refuses(HomeForm) THEN unread = unnamed /\ Works
          ELSE IF unread = {} THEN Works
          ELSE Cardinality(unread) = 1 /\ Faults
       /\ mem' = s
       /\ saved' = IF s = mem THEN saved ELSE Recorded(s)
       /\ IF unread \cap pending = pending
          THEN Purges(s, then)
          ELSE Goes("list") /\ run' = [run EXCEPT !.kept = unread \cap pending, !.then = then]
       /\ UNCHANGED <<store, pending, history>>

\* The sweep of every settling, over what this home wrote down.
Sweep ==
  /\ pc = "sweep"
  /\ \/ Resolve(pending, "change")
     \/ pending # {} /\ Faults /\ Refused /\ UNCHANGED store

\* What stays written down, then what waits to be deleted.
List ==
  /\ pc = "list"
  /\ \/ /\ pending' = run.kept
        /\ Purges(mem, run.then)
        /\ Works /\ UNCHANGED <<store, saved, mem, history>>
     \/ Faults /\ Refused /\ UNCHANGED store

\* purge: each park listed is deleted from the form the records name.
Purge(n) ==
  /\ pc = "purge" /\ n \in run.todo
  /\ run' = [run EXCEPT !.todo = @ \ {n}]
  /\ \/ /\ ~Refuses(HomeForm)
        /\ items' = [items EXCEPT ![HomeForm] = @ \ {n}]
        /\ mem' = [mem EXCEPT !.discarded = @ \ {n}]
        /\ Works /\ UNCHANGED <<theirs, answers, made>>
     \/ Fails(HomeForm) /\ UNCHANGED <<store, mem>>
  /\ UNCHANGED <<disk, pc, history>>

\* What is left of the list saved, where it can be and anything was deleted.
Purged ==
  /\ pc = "purge" /\ run.todo = {}
  /\ \/ saved' = (IF mem.discarded = run.kept THEN saved ELSE Recorded(mem)) /\ Works
     \/ mem.discarded # run.kept /\ saved' = saved /\ Faults
  /\ IF run.then = "idle" THEN End /\ mem' = saved' ELSE Goes(run.then) /\ UNCHANGED <<mem, run>>
  /\ UNCHANGED <<store, pending, history>>

\* repair: reclaim, over every name the form holds.
Reclaim ==
  /\ pc = "change" /\ run.op = "repair"
  /\ \/ ~Refuses(HomeForm) /\ Resolve(items[HomeForm] \cup pending, "idle")
     \/ Fails(HomeForm) /\ Refused /\ UNCHANGED store

-----------------------------------------------------------------------------
(* What a change does with a park.                                            *)

Finds(n) == n \in mem.held /\ n \in items[HomeForm] /\ ~Refuses(HomeForm)

\* Forgetting an account lets its park go; installing one uses it up.
LetsGo(n) ==
  LET uses == run.op = "use"
      s    == IF uses THEN Discard(mem, n) ELSE Release(mem, n)
  IN
  /\ pc = "change" /\ run.op \in {"letGo", "use"}
  /\ n \in mem.held
  /\ \/ /\ uses => Finds(n)
        /\ mem' = s /\ saved' = Recorded(s)
        /\ used' = IF uses THEN used \cup {n} ELSE used
        /\ Purges(s, "idle")
        /\ Works /\ UNCHANGED <<store, pending, gone>>
     \/ uses /\ ~Finds(n) /\ Works /\ Refused /\ UNCHANGED store
     \/ Faults /\ Refused /\ UNCHANGED store

\* A save whose failure is let pass: the run goes on with what it has in mind.
SavedIfItCan(s) == (saved' = Recorded(s) /\ Works) \/ (saved' = saved /\ Faults)

\* A renewal first drops what copies a login its tool has in use, whoever wrote it.
Drops ==
  /\ pc = "change" /\ run.op = "renew" /\ run.todo = {}
  /\ \E twins \in (SUBSET mem.held) \ {{}} :
       /\ mem' = [mem EXCEPT !.held = @ \ twins, !.foreign = @ \ twins,
                             !.discarded = @ \cup twins]
       /\ used' = used \cup twins
       /\ run' = [run EXCEPT !.todo = twins]
  /\ SavedIfItCan(mem')
  /\ UNCHANGED <<store, pending, gone, pc>>

\* A park the service refuses is released, and what is listed is deleted whether
\* or not that could be saved.
Declines(n) ==
  /\ pc = "change" /\ run.op = "renew" /\ Finds(n)
  /\ mem' = Release(mem, n) /\ gone' = gone \cup {n}
  /\ SavedIfItCan(mem')
  /\ Purges(mem', "idle")
  /\ UNCHANGED <<store, pending, used>>

\* A renewal the service has answered has spent the park it presents, which is
\* this home's from then on, saved before the answer is written, if it can be.
Spends(n) ==
  LET s == UsedHere(mem, n) IN
  /\ pc = "change" /\ run.op = "renew" /\ Finds(n)
  /\ mem' = s /\ used' = used \cup {n}
  /\ run' = [run EXCEPT !.old = n]
  /\ IF s = mem THEN saved' = saved /\ Works ELSE SavedIfItCan(s)
  /\ Goes("form")
  /\ UNCHANGED <<store, pending, gone>>

\* A change that parks reserves at once; one that has nothing to act on ends; and
\* a renewal with nothing due, found or answered has its list to delete.
Parking ==
  /\ pc = "change"
  /\ \/ run.op = "park" /\ Goes("form") /\ UNCHANGED <<mem, run>>
     \/ run.op \in {"letGo", "use"} /\ mem.held = {} /\ End /\ mem' = saved
     \/ run.op = "renew" /\ Purges(mem, "idle") /\ UNCHANGED mem
  /\ Works /\ UNCHANGED <<store, disk, history>>

\* What a change answers a write that failed with: an error.  A renewal writes
\* its answer once more under another name; and where that fails too it has
\* nothing to keep of the copy it spent, lists it, saves that if it can, and
\* deletes what is listed.
GivesUp ==
  IF run.op # "renew" THEN Refused
  ELSE IF ~run.again
  THEN /\ Goes("reserve") /\ run' = [run EXCEPT !.again = TRUE]
       /\ UNCHANGED <<mem, disk, history>>
  ELSE /\ mem' = Discard(mem, run.old)
       /\ saved' = Recorded(mem') \/ saved' = saved
       /\ Purges(mem', "idle") /\ UNCHANGED <<pending, history>>

\* park::reserve: the form of a home that records none, from the file as it is;
\* then a name nothing in the vault holds, written down.
Form ==
  /\ pc = "form"
  /\ \/ /\ saved' = Recorded(saved)
        /\ Goes("reserve") /\ Works
        /\ UNCHANGED <<store, pending, mem, run, history>>
     \/ saved.form = None /\ Faults /\ Refused /\ UNCHANGED store

Reserve ==
  /\ pc = "reserve"
  /\ \/ \E n \in Parks \ made :
          /\ ~Refuses(HomeForm)
          /\ pending' = pending \cup {n} /\ made' = made \cup {n}
          /\ run' = [run EXCEPT !.park = n]
          /\ Goes("store") /\ Works
          /\ UNCHANGED <<items, theirs, answers, saved, mem, history>>
     \/ /\ (made = Parks /\ Works) \/ Fails(HomeForm)
        /\ GivesUp /\ UNCHANGED store

\* park::store_at, in the form the file names as it is written.
Store ==
  /\ pc = "store"
  /\ \/ /\ ~Refuses(HomeForm)
        /\ Into(HomeForm, run.park)
        /\ Goes("record") /\ Works /\ UNCHANGED <<disk, mem, run, history>>
     \* One that fails, written or not.
     \/ /\ Fails(HomeForm) /\ GivesUp
        /\ \/ ~Refuses(HomeForm) /\ Into(HomeForm, run.park)
           \/ UNCHANGED <<items, theirs, answers>>
  /\ UNCHANGED made

\* The park recorded; the one it takes the place of, if any, is released.  A
\* renewal spent that one, whoever wrote it, and deletes it even where the save
\* that no longer names it failed: the new one is still written down.
Record ==
  /\ pc = "record"
  /\ \/ \E n \in (IF run.op = "renew" THEN {run.old} ELSE mem.held \cup {None}) :
       LET without == IF run.op = "renew" THEN Discard(mem, n) ELSE Release(mem, n)
           s == [without EXCEPT !.held = @ \cup {run.park},
                                !.discarded = @ \ {None}]
       IN /\ mem' = s
          /\ \/ saved' = Recorded(s) /\ Works
             \/ run.op = "renew" /\ saved' = saved /\ Faults
          /\ Purges(s, "idle")
          /\ UNCHANGED <<store, pending, history>>
     \/ run.op # "renew" /\ Faults /\ Refused /\ UNCHANGED store

-----------------------------------------------------------------------------
(* move_to: the person's command.                                             *)

\* Where the parks are, and whether they move at all.
Moves(to) ==
  LET from == IF mem.form # None THEN mem.form ELSE NewHomeForm
      s    == [mem EXCEPT !.form = from]
  IN
  /\ pc = "change" /\ run.op = "move"
  /\ \/ /\ mem' = s
        /\ saved' = IF from = to /\ mem.form = None THEN Recorded(s) ELSE saved
        /\ IF mem.leaving = NotLeaving /\ from # to
           THEN Goes("moving") /\ run' = [run EXCEPT !.to = to]
           ELSE /\ Goes("delete")
                /\ run' = [run EXCEPT !.to = to, !.todo = mem.leaving.parks, !.kept = {},
                                      !.then = IF from = to THEN "idle" ELSE "moving"]
        /\ Works /\ UNCHANGED <<store, pending, history>>
     \/ from = to /\ mem.form = None /\ Faults /\ Refused /\ UNCHANGED store

\* Both forms answer; what another home keeps in the new one is that home's; and
\* the move is recorded before anything is copied.
Moving ==
  /\ pc = "moving"
  /\ LET there == IF Shared(run.to) THEN items[run.to] \cap Held(mem) ELSE {}
         s == [WrittenElsewhere(mem, there) EXCEPT !.movingTo = run.to,
                                                   !.leaving = NotLeaving]
     IN \/ /\ answers
           /\ mem' = s /\ saved' = Recorded(s)
           /\ run' = [run EXCEPT !.todo = Held(mem), !.then = "idle"]
           /\ Goes("copy") /\ Works /\ UNCHANGED <<store, pending, history>>
        \/ Fails(Service) /\ Refused /\ UNCHANGED store

Crash ==
  /\ pc # "idle" /\ crashes < MaxCrashes
  /\ crashes' = crashes + 1
  /\ End /\ mem' = saved
  /\ UNCHANGED <<store, disk, history, faults, locks>>

-----------------------------------------------------------------------------
(* The session: the other home, under a lock of its own, and its keyring.     *)

OtherParks(n) ==
  /\ answers /\ n \notin made
  /\ items' = [items EXCEPT ![Service] = @ \cup {n}]
  /\ theirs' = theirs \cup {n} /\ made' = made \cup {n}
  /\ UNCHANGED <<answers, disk, process, history, bounds>>

\* It deletes what it holds, or uses a park of this home's that it was given back.
OtherTakes(n) ==
  /\ answers /\ n \in items[Service]
  /\ items' = [items EXCEPT ![Service] = @ \ {n}]
  /\ theirs' = theirs \ {n}
  /\ gone' = IF HomeForm = Files /\ saved.movingTo = None THEN gone ELSE gone \cup {n}
  /\ UNCHANGED <<answers, made, disk, process, used, bounds>>

Locks ==
  /\ answers /\ locks < MaxLocks
  /\ answers' = FALSE /\ locks' = locks + 1
  /\ UNCHANGED <<items, theirs, made, disk, process, history, crashes, faults>>

Unlocks ==
  /\ ~answers /\ answers' = TRUE
  /\ UNCHANGED <<items, theirs, made, disk, process, history, bounds>>

-----------------------------------------------------------------------------

Init ==
  /\ items = [f \in Forms |-> {}] /\ theirs = {} /\ made = {}
  /\ answers \in BOOLEAN
  /\ saved = [held |-> {}, foreign |-> {}, discarded |-> {}, form |-> None,
              movingTo |-> None, leaving |-> NotLeaving]
  /\ pending = {}
  /\ pc = "idle" /\ mem = saved /\ run = NoRun
  /\ used = {} /\ gone = {}
  /\ crashes = 0 /\ faults = 0 /\ locks = 0

Step ==
  \/ Name \/ TakenOut \/ Sweep \/ List \/ Purged \/ Reclaim
  \/ Drops \/ Parking \/ Form \/ Reserve \/ Store \/ Record \/ Moving
  \/ \E n \in Parks : Copy(n) \/ Delete(n) \/ Purge(n) \/ LetsGo(n)
  \/ \E n \in Parks : Declines(n) \/ Spends(n)
  \/ \E to \in Forms : Moves(to)

Starts == \E cmd \in Commands : Start(cmd)

Other == \E n \in Parks : OtherParks(n) \/ OtherTakes(n)

Next == Starts \/ Step \/ Crash \/ Other \/ Locks \/ Unlocks

Spec == Init /\ [][Next]_vars

\* Runs step on, the keyring is opened again, and changes go on being asked for:
\* a command that settles first, which the schedule's renewal does not.
Settling == \E cmd \in Commands \ {"renew"} : Start(cmd)

FairSpec == Spec /\ WF_vars(Step) /\ WF_vars(Unlocks) /\ SF_vars(Settling)

-----------------------------------------------------------------------------

\* The values each variable takes: a list of what leaves is never an empty one,
\* and no move goes to the form it is from.
TypeOK ==
  /\ items \in [Forms -> SUBSET Parks] /\ theirs \subseteq Parks /\ made \subseteq Parks
  /\ answers \in BOOLEAN
  /\ saved \in Records /\ mem \in Records /\ pending \subseteq Parks
  /\ \A s \in {saved, mem} : /\ (s.leaving.from = None) = (s.leaving.parks = {})
                             /\ s.movingTo # None => s.movingTo # s.form
  /\ pc \in Steps /\ run \in Runs
  /\ used \subseteq Parks /\ gone \subseteq Parks
  /\ crashes \in 0 .. MaxCrashes /\ faults \in 0 .. MaxFaults /\ locks \in 0 .. MaxLocks

\* Every login an account keeps is, at every step of a move, in the form the
\* saved record says it is in, wherever a run stops (vault.rs: "crash-safe").
\* Not where the other home took it; and a record that could not be saved may
\* go on naming what the service refused, what the tool has in use, or what a
\* renewal spent, whose answer is under a name written down (NoneForgotten).
HeldIsThere ==
  \A n \in saved.held \ (gone \cup used) : saved.form # None /\ n \in items[saved.form]

\* A later run finds n in form f by what the records of this home say.
NamedIn(f, n) ==
  \/ f = saved.form /\ n \in saved.held \cup saved.discarded \cup pending
  \/ f = saved.movingTo /\ n \in saved.held \cup pending
  \/ f = saved.leaving.from /\ n \in saved.leaving.parks

\* No copy of a login is left in either form that no record of this home names,
\* so that none outlives its account's removal: but for what is another home's.
NoneForgotten ==
  \A f \in Forms : \A n \in items[f] :
     NamedIn(f, n) \/ (f = Service /\ n \in theirs)

\* No move is half done, and nothing it left behind waits to be deleted.
Settled == saved.movingTo = None /\ saved.leaving = NotLeaving

\* A move recorded is finished by a run that follows, whatever ended the run
\* that began it, and so are the deletions it leaves.
MoveEnds == ~Settled ~> Settled

\* No step of this home deletes a park another home wrote and still holds,
\* unless this home has used that login up, or has it in use.
OthersStay ==
  [][Step => \A n \in theirs : n \in items[Service]' \/ n \in used']_vars

=============================================================================
