# Pitboard's login engine in TLA+

Pitboard keeps several accounts of Claude Code, Codex and Claude Desktop on one machine and
changes which of them a tool is signed in to. The service takes each refresh token once, so a
login stored twice and used twice, or stored nowhere for the length of a crash, is a person
signed out. Everything that can go wrong that way is in `crates/pitboard-core/src`, and most of
it in `switch/`: what a change writes, in which order, and what the next run makes of a change
that died. That is what this directory models, checks with TLC and proves with TLAPS.

Paths below are relative to `crates/pitboard-core/src` unless they say otherwise.

## 1. The system

| Component | Source | State it keeps | Operations | What is hard | What makes it correct |
|---|---|---|---|---|---|
| Switch of a document login | `switch/mod.rs` | journal while it runs | `switch`, `replace` | crash between any two writes; a write that failed and nobody knows how far; sessions renewing meanwhile; a sign-out that takes no lock | no login lost, none used twice, the record true |
| Journal and recovery | `switch/journal.rs` | `journal.json` | `write_journal`, `reconcile`, `abandon` | settled twice; settled late; settled over a slot somebody signed in to | finishes or undoes, and either keeps every login |
| Settling | `switch/settle.rs` | none | `settle`, `drop_live_twins`, `purge` | the order of its parts; the slot read without the tool's lock | no leftover outlives the next change |
| Names written down first | `pending.rs` | `pending` list | `reserve`, `sweep`, `adopt`, `reclaim` | killed between list, vault and index | every item is named somewhere |
| Parks and vault | `park.rs`, `store/vault.rs`, `store/mod.rs` | one item a park | `reserve`, `store_at`, `load`, `purge` | a name written for and not recorded | a park is what the index says |
| Index | `state.rs` | `state.json` | `park`, `discard`, `release`, `identified`, `remove`, `save` | a name held and listed for deletion at once | |
| Whose login it is | `switch/identify.rs`, `in_use.rs` | `in_use` in the index | `now`, `look`, `told`, `record` | told by a record about another login | the record names whose login it saw |
| Renewing parks | `switch/renew.rs` | none | `renew_due`, `renew_one`, `apply` | the token is spent as the service answers | the answer is kept or its loss is known |
| Renewing the live login | `switch/refresh.rs` | `renewing` in the index | `renew`, `finish` | as above, in a slot sessions write too | the answer is saved over the token it spent only |
| Forgetting | `switch/forget.rs` | none | `forget` | the account may be in use | |
| Claude Code's locks | `lock.rs` | lock directories | `acquire`, heartbeat, release | a machine that sleeps; two that find a stale lock | a holder that lost its lock is told |
| Enrolling, adopting | `switch/enroll.rs`, `switch/adopt.rs` | a private sign-in folder | `enroll`, `reauth`, `adopt` | killed while the person signs in | |
| Moving the vault | `switch/vault.rs`, `switch/forms.rs` | `vault`, `moving_to`, `leaving` in the index | `move_to`, `finish`, `take_out` | killed half way through the copies; a keyring that stops answering | each park is in the form the index names |
| Claude Desktop's folder | `switch/folder/` | `moving`, `aside`, `awaiting` in the index; the folders under `parks` | leave, arrive, set aside, settle, give up | renames, and the app open meanwhile | no item lost, written over, or filed with another account |
| Parks of another home | `switch/foreign.rs`, `state.rs` | `foreign` in the index | `reclaim`, `release`, `used_here` | two homes over one keyring | nobody deletes what another still uses |
| File behind the keychain | `switch/stow.rs` | none | `stow` | | |
| Uninstall, rename, pinned | `switch/uninstall.rs`, `rename.rs`, `pinned.rs` | none | | | |
| Automatic switch, warm-up | `switch/auto.rs`, `switch/warm.rs`, `duty/` | `autoswitch.json` | `decide`, `automatically`, `warm` | killed between the attempt and its record; readings that disagree on a reset | a limit is left once, no attempt or reason repeated without end |
| Usage | `usage/` | readings, budget | `used`, `same_reset`, `preferred`, `read`, `spend` | one reset given two ways; several processes, one file | |
| Schedule, watch, services | `schedule.rs`, `service.rs`, ... | | | | |
| Providers, API, host | `provider/`, `api.rs`, `host/` | | document shapes, requests, keychains | | |
| App model | `crates/pitboard-model` | lanes | | answers out of order | |
| Command line, FFI, apps | `crates/pitboard`, `crates/pitboard-ffi`, `apps/` | | presentation | | |

How they meet: every change takes `state.lock` (a kernel lock), settles (recovery, sweep, twins,
purge), then does its own part and saves the index. Index, journal and list are files written
atomically; the slot and the vault are stores of the operating system that no transaction
spans. The tool's sessions write the slot too; Claude Code's take its refresh lock and its write
lock around that, Codex's take none, and a sign-out of either takes none. The service is asked
over the network and spends what it is sent.

## 2. What is modelled now

| Module | Models | Composed with |
|---|---|---|
| `Switch` | the engine for a document login: switch, recovery, renewal of parks, forgetting | implements `Custody`, by the mapping in `SwitchCustody` |
| `Custody` | what the engine promises, with no files, names or order of writes | |
| `ClaudeLock` | one of Claude Code's directory locks, system call by system call | stands for `toolLock` of `Switch` and the two locks of `Refresh` |
| `Refresh` | the live login renewed where Claude Code keeps it | |
| `VaultForms` | the vault in one of two forms, its moves, and another home's parks in it | |
| `FolderMove` | Claude Desktop's data folder, moved item by item | |
| `AutoSwitch` | the decisions that switch by themselves, and their ledger | |

Each `MC` module gives one of them its small instance; `SwitchProofs`, `ClaudeLockProofs`,
`SwitchCustodyProofs`, `RefreshProofs`, `VaultFormsProofs`, `FolderMoveProofs`,
`FolderMoveOwnedProofs` and `AutoSwitchProofs` hold the proofs.

### The engine: `Switch.tla`

`Switch.tla` is the engine for one tool whose login is a document. `Locking` chooses the tool:
TRUE is Claude Code (locks, a park may copy the login in use for a while), FALSE is Codex (no
lock, "move only"). `Pieces` says whether its store takes a login in several items, as
Credential Manager does, so that a write can be cut short.

### State

| Variable | Code |
|---|---|
| `live` | what the slot holds: a login, nothing, or `Torn` (`store::Error::Unfinished`) |
| `vault` | the item under each park name |
| `index` | `State`: accounts enrolled, their parks, `discarded`, `in_use` |
| `journal` | `journal.json` |
| `listed`, `clock` | `pending`'s list of names; the last name given |
| `usable`, `issued` | the service: refresh tokens it still takes, and how many it gave |
| `sess` | a session's renewal between the token sent and the answer saved |
| `toolLock` | Claude Code's refresh, legacy and write locks together |
| `pc`, `mem`, `run` | the one process holding `state.lock`: where it is, its `State`, its locals |
| `taken` | history: accounts a login of which something outside ended, until signed in to again, and those whose answer a run lost |
| `crashes`, `faults`, `outside` | bounds spent |

A login is `<<account, n>>`, the n-th token the service gave the account; a park's name is
`<<account, k>>`, the account it was written for and the moment. Bytes, expiry dates, labels,
configuration texts, warnings and the audit log are not there.

### Actions and code

| Code | Actions |
|---|---|
| `settle` → `reconcile` | `ReconcileNothing`, `ReconcileTorn`, `ReconcileRead`, `Undetermined`, `Repair`, `ClearRepaired` |
| `settle` → `pending::sweep` | `Sweep` (one name), `SweepSave`, `SweepList` |
| `settle` → `drop_live_twins`, `purge` | `FindTwins`, `DropTwins`, `Purge`, `PurgeSave` |
| `identify::now` | `Identify`, `IdentifyFails`, `IdentifyRefused` |
| `prove_incoming`, `renew_one`, `renew_due`, `apply` | `Prove`, `NotProved`, `NothingDue`, `Ask`, `DropRefused`, `WriteFresh`, `NoMoreAnswers`, `RenewReserve`, `RenewStore`, `RenewRecord`, `RenewLost` |
| `switch_from`, `put_in` | `Lock`, `Ready`, `NotReady`, `Reserve`, `WriteJournal`, `ParkStore`, `ParkRecord`, `Reread`, `ParkUnreadable`, `UndoSave`, `UndoClear`, `Install`, `RolledBack`, `Unverified`, `Corrupted`, `Holds`, `Record`, `Clear` |
| `forget` | `Forget` |
| `abandon` | `Abandon` |
| the kernel killing a run | `Crash`, at every step |
| sessions, sign-ins, sign-outs, refusals | `SessionSends`, `SessionSaves`, `OutsideSignIn`, `LogOut`, `ServiceRefuses` |

One step is one durable write, or one read that a later step acts on; between any two the tool,
the service, or a crash may come. `Failing` is the set of operations that may fail, each naming
the failure the code returns for it:

- `read` the slot or a named park; `item` an item the sweep looks at; `twin` the slot where the
  code takes what it cannot read for empty (`live_fingerprint`);
- `write` the slot or the vault, and then what landed is nothing, all of it, or a piece;
- `save` the index; `list` the list of names; `journal` the journal's write; `unlink` its
  removal, of which the code says nothing.

### The lock: `ClaudeLock.tla`

One of Claude Code's locks as `lock.rs` takes it: a directory, made by whoever gets it, touched by
its holder's heartbeat, and anybody's to remove once it has gone untouched for `Stale`. The
processes are Pitboard's runs and Claude Code's sessions, which follow one protocol.

| Variable | Code |
|---|---|
| `dir` | the lock directory: its mtime (who stored it, and which) and that mtime's age |
| `pc`, `since` | the step each process is at, and for how many ticks, awake |
| `held` | `current` in `keep`: the mtime the heartbeat last read back |
| `woke` | the age of the `SystemTime::now()` the heartbeat is to touch with |
| `tries`, `round` | the attempt of `acquire`, the round of `write_lock_to_save` |
| `astray`, `together`, `stood` | history: how long a holder's mtime has not been on the directory, how long two have both kept the lock, whether the directory a process began asking for is still there untouched |
| `sleeps`, `crashes`, `faults` | bounds spent |

| Code | Actions |
|---|---|
| `acquire`, and the rounds of `write_lock_to_save` | `Ask`, `Create`, `Exists`, `AskFails`, `FindHeld`, `FindAbandoned`, `Remove`, `WaitOver` |
| `start` | `Started`, `NotStarted` |
| `keep` | `Look`, `Touch`, `ReadBack`, `FindLost` |
| `Guard::drop` | `Stop`, `Drop`, `DropLost` |
| the clock, the machine asleep, a process killed | `Tick`, `Sleep`, `Crash` |

Time is counted in ticks and is relative: ages and durations, never a clock. A tick cannot pass
while a process has been at a due step for `Late`, which is how "the machine runs on time" is
said. `Sleep` takes the mtime past every staleness, and no thread's wait with it. Every mtime
stored differs from those remembered (nanoseconds); on a filesystem that keeps whole seconds two
can be alike, which is not modelled. The backoff of 100 ms to 1 s is `Wait` at every attempt: the
sum is what the properties turn on.

### Renewing the live login: `Refresh.tla`

The login Claude Code is signed in with, renewed where Claude Code keeps it because its access
token has lapsed and a change or a read must tell whose it is: `renew` with the callers in
`switch/identify.rs`, and `finish` and `finished`, which save what a run left waiting.

| Variable | Code |
|---|---|
| `slot` | the document: a login, and a count of what sessions wrote of the rest |
| `vault` | the copy of an answer under each name |
| `index` | `State`: `renewing`, and of `discarded` what is a copy's |
| `answer`, `issued` | the service: what it gave for each login sent, and how many it gave |
| `refreshLock`, `writeLock` | Claude Code's, and whose: Pitboard's, a session's, a dead process's |
| `sess`, `doc` | a session's renewal not saved yet; what a session about to write has read |
| `pc`, `mem`, `run` | the one process holding `state.lock`: its step, its `State`, its locals |
| `clock` | the last copy's name |
| `mine`, `lost` | history: logins Pitboard spent; of those, the ones whose answer nothing could keep |
| `crashes`, `faults`, `outside` | bounds spent |

| Code | Actions |
|---|---|
| `settle`, `finish`, `finished`, `finish_where` | `Start`, `NextLeft`, `Settled`, `Finished`, `Stopped` |
| `save_left` | `LeftRead`, `LeftLocks`, then the actions of `save` |
| `look`, `renewed`, `renewed_under_the_lock` | `Finished`, `Refreshing`, `Again` |
| `renew`, `reserve`, `write_lock_to_save` | `Check`, `Reserve`, `ReserveNone`, `NothingSent`, `Answered`, `NotAnswered`, `Copy`, `SaveLocks`, `Saved` |
| `save` | `SaveReads`, `Write`, `WriteFails` |
| `let_go`, `purge` | `LetGo`, `Purge`, `Purged` |
| a run killed; a dead holder's lock gone stale | `Crash`, `Lapses` |
| sessions, sign-ins, sign-outs | `SessionSends`, `SessionSaves`, `SessionReads`, `SessionWrites`, `SessionDies`, `SignIn`, `LogOut` |

A write lands nothing and says so (`store::Error::Write`), and then the copy counts as not made
and the document is written once more; or it fails otherwise and may have landed, and the copy
counts as made. With `Pieces`, Claude Code's store is Credential Manager's several items for one
login (`provider/claude/pieces.rs`): a write that fails, of Pitboard's or of a session that dies,
and a run killed while it writes, may then leave what no read joins (`Unread`,
`store::Error::Unfinished`). `save` and `look` err on it, and a sign-in, which writes a whole login,
or a sign-out, which deletes the pieces, is what ends it. `SaveLocks` goes on without the write lock where a living session has it or it
cannot be made; that a dead one's is waited for is `SaverOutwaits` of `ClaudeLock`. `lost` is the
service's answer that never came, the answer of a run killed, or failing to save, before its copy
was made, and the one saved with no write lock, which a session may write over.

### What the engine promises: `Custody.tla`, and `SwitchCustody.tla`

`Custody` knows, of each account, only whether a login of its that the service still takes is
signed in, kept in the vault, or in somebody's hand: answered by the service and not saved yet.
Its steps are what may become of one: `Keep`, `PutIn`, `Empty`, `LetGo`, `Exchange` (the service
takes a login and gives another), `Save`, `SetDown`, `Forget`, and what others do, `Elsewhere`. A
place is left only where the account has another; from a hand alone a login may be lost, when its
holder dies or cannot write twice, and then the account is in `gone`.

`SwitchCustody` reads those places off `Switch`: `SignedIn` is the slot's account if the service
takes what is in it, `Kept` what a later run will find in the vault, `Hand` a session's or a run's
answer. Run `claude` checks that every step of `Switch` is a step of `Custody` or none, and
`SwitchImplementsCustody` proves it (6). That is stronger than `NothingLost`, which looks at states:
a step that loses one copy and makes another at once is refused. Two of Custody's steps are as loose
as the code is: a login may be exchanged from wherever it is (`Exchange`), since a parked copy a
session has meanwhile signed in with is spent in both places, and a session's `Save` leaves in hand
the answer a run may hold for the same account. Codex is not mapped: between its last read of the slot and the rename nothing
stops a session's write, and `NothingLost` excepts that window, where `Custody` has no such step.

### The vault's forms: `VaultForms.tla`

On Linux a home keeps its parks in the Secret Service of the session or in files of its own, and
`pitboard vault` moves them. The Secret Service may stop answering at any call, and another home
parks in the same one.

| Variable | Code |
|---|---|
| `items`, `answers` | what each form holds; whether the Secret Service answers |
| `theirs`, `made` | parks the other home wrote there and holds; names given so far |
| `saved`, `mem` | `State`: parks held, foreign, listed to be deleted, and `vault`: form, `moving_to`, `leaving` |
| `pending` | the list of names written down |
| `pc`, `run` | the one process holding `state.lock` |
| `used`, `gone` | history: parks whose login this home's tool has in use, had, or a renewal spent; parks the other home took, or the service refused |
| `crashes`, `faults`, `locks` | bounds spent |

| Code | Actions |
|---|---|
| `finish`, as `settle` and a renewal call it | `Start` |
| `forward` | `Copy` (one name), `Name` |
| `take_out` | `Delete` (one name), `TakenOut` |
| `move_to` | `Moves`, `Moving` |
| `pending::sweep`, `resolve`, `reclaim` | `Sweep`, `List`, `Reclaim` |
| `park::purge` | `Purge`, `Purged` |
| `reserve`, `store_at`, and the save after them | `Form`, `Reserve`, `Store`, `Record`, `Parking` |
| `forget`, an install that uses a park up | `LetsGo` |
| `renew_due`: twins dropped, a park refused, spent, its answer not written, nothing due | `Drops`, `Declines`, `Spends`, `GivesUp`, `Parking` |
| a run killed; the keyring; the other home | `Crash`, `Locks`, `Unlocks`, `OtherParks`, `OtherTakes` |

A name stands for what it holds, since a park is written once. A renewal by the schedule renews one
park. It goes on where a save of its fails, with the record it has in mind, writes its answer once
more under another name where the first write fails, and however it ends deletes what that record
lists (`purge`, `switch/renew.rs:175`), saved or not. So the saved record may go on naming a park
that is deleted, one of `used` or `gone` each time. One that a switch asks for stops at the failure
and purges nothing (`renew_one`); `Switch` has it. Copies of a live renewal, folders and the loss of
the index are not there. The other home stays on the Secret Service. Listing what the new form holds and
recording it (`Moving`) is one step. Where an account has several parks to give back, which older
one each replaces is any choice.

### Claude Desktop's data folder: `FolderMove.tla`

Claude Desktop keeps its login in a data folder: a cookie jar, whose session is the login, further
items, and the account keys in its settings. A switch renames them out into a folder under `parks`
and another account's in, one at a time, under a record (`moving`), with the app closed by then and
opened by whoever likes.

| Variable | Code |
|---|---|
| `root` | the data folder: each item and whose it is, the account keys |
| `folders` | each folder under `parks`: its manifest, its keys, its items |
| `saved`, `pending` | `State`: parks, `aside`, `moving`, `awaiting`, `discarded`, `in_use`; the names written down |
| `appOpen`, `issued`, `ended`, `ran` | the app: open or not; history: the sessions it was given, those it ended itself, whether it wrote since the last record |
| `opens`, `mishaps` | bounds spent: openings; crashes and failures together |
| `pc`, `run` | the one process holding `state.lock`: its next step, the row of `settle.rs` it is of, what it has still to rename and where |

| Code | Actions |
|---|---|
| `begin`, `settle`, and `pending`'s sweep of folders | `Start`, `Begin`, `Sweep`, `Settle` |
| the look at what is where (`verdict`), and what each command makes of it | `LookAtIt` |
| `reserve`, and the record before anything moves | `Reserve`, `Record` |
| `leave`, `arrive`, `set_aside`: one rename or write a step, verified at the end | `WorkStep`, in the order of `After`; `StepFails`, `Midway` |
| the record after it, or what undoes it | `CommitLeave`, `CommitArrive`, `Undone`, `Started`, `Enroll` |
| `repair --abandon` | `GiveUp`, `ListLeft`, `Hold`, `GivenUp` |
| `forget`, `purge`, `reclaim`, `index_asides` | `Forget`, `Purge`, `Reclaim`, `GiveBackAsides` |
| the app opened, killed, quit as it was, signed out or signed in | `Opens`, `Dies`, `QuitsAsItWas`, `QuitsLoggedOut`, `QuitsSignedIn` |
| a run killed | `Crash` |

The app may open at any step, and makes the stores it does not find; it may be killed at any step;
what it writes as it quits it writes with no run under way. `confirm` stands for the look the
sign-in wait (`awaited.rs`) and `uninstall` end with too. Left out: a folder of another machine, links, other volumes, another slot's data folder,
details that cannot be read, labels and times. The app writes the account's name in its settings
before either token cache takes a token, as `verdict.rs` counts on.

### The automatic switch: `AutoSwitch.tla`

`automatically` decides, under `state.lock`, whether Claude Code should be on another account: one
of its limits has reached the share, or the order chosen puts another account's week first. Nothing
but `autoswitch.json` keeps it from doing so again and again.

| Variable | Code |
|---|---|
| `now`, `readings` | the clock; `usage.json`, the last answer about each account |
| `stored`, `parked` | whose login Claude Code has; which accounts have one parked |
| `inUse`, `lastUsed` | `in_use` and each account's `last_used_at` in the index |
| `ledger` | `autoswitch.json`: tries by limit and account, by week moved to, and of asking |
| `pc`, `run` | the decision under way: the time it goes by, its order, its plan |
| `left`, `begun`, `unrecorded`, `logged`, `repeated` | history, by the window as it really is |
| `lastEarly` | history: when a move to each account before the share was last begun |

| Code | Actions |
|---|---|
| `automatically`, to whose login it is | `Begin`, `CannotTell` |
| `decide`, `early`, `judge` | the operators `Leaving`, `Early`, `Judged` |
| what comes of it | `Stays`, `Holds`, `Moves`, `Stops` |
| `switch_from`, and the record after it | `Switches`, `Finishes`, `Refused`, `RefusedUnkept`, `CutShort` |
| `record_read`; the next change after a crash | `Reads`, `Settled` |
| time, answers about usage, a person, a sign-in outside | `Tick`, `Answers`, `PersonSwitches`, `SignsIn` |

Windows follow one another at fixed ends (`Offset`, `Length`) and an answer gives an end up to
`Jitter` late, less than `Same` (`SAME_RESET`, a minute). Where two rows or two limits tie, either
may come first. `Lasting` bounds how long a decision takes: one that lasts over a reset, on a
machine that slept, saves a record and drops it at once, and says its reason twice (`Prompt`, 6).
The history forgets what the ledger is meant to forget: the moves to an account, once a limit of
it is met (`met_a_limit`); and a week that never ends, of an account that has no weekly limit, once
no move for it was begun for the length of one (`Tried::kept`). Left out: limits of one model, readings a session gives, an account with a
reading that lists not every limit, what a front end does before it asks for a decision, the pace
at which it asks, and what the log says of a login that could not be told. A renewal that makes
`known_at` later is not there either; `inUse.at` moves with whose login it is only.

### Abstractions to know

- In `Switch` the live login is renewed by its sessions only, and `settle` is without
  `vault::finish` and `refresh::finish`; they are in `VaultForms` and `Refresh`. In the latter what a change
  does once it has told whose the login is, is the end of the run.
- `Refresh` has one slot, so no copy left for another; a renewal that `stow` starts is not there.
  A read looks at the login before it takes `state.lock`, in the code; in the model it looks after,
  and `Again` reads it once more under the refresh lock as both do.
- In `AutoSwitch` `autoswitch.json` can always be read; one that cannot is taken for nothing tried
  (`duty/ledger.rs:81`), and then a limit may be left or a reason said once more. `FolderMove` has no failing read in `Settle` either.
- In `Refresh` a lock is Pitboard's until it lets go: a machine that sleeps through a renewal is
  `ClaudeLock`'s subject, and the code then saves all the same and warns.
- In `Switch` the three directory locks are one variable that only its holder lets go of, and a
  killed holder's is let go of at once. `LockExcludes`, proved about `ClaudeLock`, says when that
  is so. What a lock lost in the middle means for a switch is not composed: `ClaudeLock` says
  within what time the holder is told.
- The refresh lock is two directories (`.oauth_refresh.lock` and the older one) taken one after
  the other; each is an instance of `ClaudeLock`, the pair is not composed.
- A write of the vault reported done is done: `store_at` reads it back. Codex's second read of
  the park before the install is there, but never finds it missing.
- A moment is a number of its own per name. At `MaxNames` reserving fails as
  `ParkSlotExhausted` does.
- Whether an account's login has lapsed is the service's choice; a spent token may still verify,
  as its access token does. So `Prove` goes on with any park, or renews it.
- `repair`'s `reclaim` asks the store for items no list names. In `Switch` there are none, by
  `Accounted`, proved below; where another home parks too there may be, and `VaultForms` has it.
- At most one session renews at a time.

## 3. Properties

Each has its own comment above it. In `Switch.tla`:

- `NothingLost`: an enrolled account keeps a login its tool or Pitboard can use and will find:
  in the slot, recorded or listed in the vault, or in a session's hand. Excepted are accounts in
  `taken`: something outside ended one of its logins (a sign-in or a sign-out over it, the
  service's refusal) and nobody has signed in to it since, except that signing out of what a switch
  has just put in, and not yet seen to hold, takes nothing: it is still parked, and the switch is to
  find that and leave it so (`switch/mod.rs:882`); a run died, or could not write twice,
  with the service's answer in its memory; Codex's slot was written over in the window no lock
  covers, or by a session of its with an answer that the service had refused meanwhile. It counts whichever login was ended, not the last only: Pitboard cannot tell a login
  that was ended from one that was not, and may keep the one and let go of the other.
- `Accounted`: each item in the vault is recorded, listed for deletion, or on the list.
- `ParksTrue`, `InUseTrue`: what the index says of a park and of who is in use is so.
- `NoTwinAtRest`: with nothing left to finish, no usable Codex login is in two places.
- `LiveNotRenewed`: no renewal spends the login signed in.
- `WritesOverWhatItRead`: under Claude Code's locks a switch installs over the login it read.
- `RecoveryEnds`, `LeftoversGo`: an interrupted switch is settled, and what is listed goes.
- `GivenUpIsKept`: what the documentation says and the code does not do; see 5.

In `SwitchCustody.tla`:

- `Custodied`: every step of `Switch` is one `Custody` allows, or changes nothing it sees.

In `ClaudeLock.tla`:

- `Exclusive`: until the machine sleeps, a process dies or a call fails, and while it runs on
  time, two never keep the lock at once.
- `ToldWithinABeat`: whatever sleeps, dies or fails, a holder goes on no longer than a heartbeat
  (and two steps late) over a lock another took; except a guard that read back another's mtime.
- `OneIsTold`: nor do two keep the lock together for longer than two heartbeats, that guard
  included.
- `AlarmIsTrue`: no heartbeat finds its lock lost while the directory carries its mtime, unless a
  call failed.
- `SaverOutwaits`: a saver gives up on the write lock, and saves without it, only where somebody
  alive touched or let go of the lock it began asking for.
- `LeftIsReclaimed`: a lock whose holder died goes in the end, while it is asked for.

In `Refresh.tla`:

- `AnswerKept`: where the slot holds a login Pitboard spent, what replaces it is in the run's
  hands, or in the vault under a name the saved index has as waiting; `lost` excepted.
- `CopyNamed`: each copy in the vault is named in the saved index, to be saved or deleted.
- `NotSentTwice`: Pitboard sends no login it has spent whose answer it has.
- `SavesOverSent`: an answer replaces the login sent, an empty slot or what a write of it cut short
  left, and nothing else a session wrote in the document, unless the write lock was not had.
- `WaitingEnds`: a renewal left waiting is saved or let go of in the end, unless the slot stays for
  good as a write cut short left it. Without `Pieces` that is never so.

In `VaultForms.tla`:

- `HeldIsThere`: at every step a login an account keeps is in the form the saved index names, unless
  the other home took it from there, or the account has no use for it (`used`, `gone`): what its tool
  has in use, a renewal spent or the service refused, where a save that failed left it named.
- `NoneForgotten`: each item of either form is named by a record that a later run looks in that form
  by, or is the other home's.
- `OthersStay`: no step of this home deletes what the other wrote and holds, unless this home used
  that login up or has it in use.
- `MoveEnds`: a move recorded is finished, and what it left behind is deleted.

In `FolderMove.tla`:

- `ParksWhole`: a park the index offers is whole: its folder, its jar, each item its manifest lists
  and its keys, of one account and one session.
- `NotMixed`: nothing of another account is filed in it, whatever the app did half way, unless a
  session was signed in and out again in the middle of the move.
- `EveryFolderNamed`: a folder that holds part of a login is named by the index or the list.
- `NoSessionLost`: a session is where something reads it until the app itself ends it or its account
  is forgotten.
- `InUseTrue`: at rest and until the app next writes, the account recorded as in use is the one the
  data folder is signed in as.
- `OnlyForgottenDeleted`: a run writes over nothing and deletes nothing but folders recorded as
  forgotten.
- `MoveEnds`: a move recorded is settled or given up, unless a sign-in of the app's own is to be
  finished first.

In `AutoSwitch.tla`, where a window is the one that really runs, whatever reset an answer gave it:

- `LeftOnce`: one window of a limit is switched away from once, and one week moved to once, weeks
  that never end included, but for switches whose record was lost.
- `TriedAtMost`: no more than `Attempts` attempts for one of them, of those waiting would not mend.
- `SaidOnce`: a reason not to switch is logged once a window.
- `LeftAlone`: what the documentation says and the code does not do; see 5.

## 4. Runs

Bounds are given as (logins an account, names, crashes, faults, outside acts), with two accounts:
one in use and one to switch to is what each rule of the code speaks of. *K* is
`{read, write, save, list, journal}`. Accounts are interchangeable, so the safety runs use them
as a symmetry set; the liveness run does not.

| Run | Instance | Distinct states | Properties |
|---|---|---|---|
| `claude` | Claude Code, pieces, *K*, (2,3,2,1,1), no more than three of the last three together | 3.9 million | `TypeOK`, `Accounted`, `ParksTrue`, `InUseTrue`, `WritesOverWhatItRead`, `Custodied`, `LiveNotRenewed` |
| `codex` | Codex, *K*, (2,3,1,1,2), no more than three of the last three together | 7.7 million | `NothingLost`, `NoTwinAtRest` |
| `recovers` | Claude Code, pieces, `unlink` or `item` fails, (2,3,1,1,0), `FairSpec` | 0.2 million | `RecoveryEnds`, `LeftoversGo` |
| `given_up` | Claude Code, `write` fails, (2,3,1,1,0) | | `GivenUpIsKept`, violated |
| `stuck_journal` | Claude Code, `unlink` fails, (2,3,1,1,0) | | `NothingLost`, violated |

The lock's bounds are (processes, Stale, Beat, Late, Retries, sleeps, crashes, faults), in ticks:

| Run | Instance | Distinct states | Properties |
|---|---|---|---|
| `lock_sleeps` | (2,6,2,1,2,2,1,1) | 2.3 million | `TypeOK`, `Exclusive`, `ToldWithinABeat`, `OneIsTold`, `AlarmIsTrue` |
| `lock_reclaims` | (2,3,2,0,2,0,1,1), `FairSpec`, one of them saves in four rounds | 1 million | `LeftIsReclaimed`, `SaverOutwaits` |

`Stale` = 6 is `Beat + 4 * Late` exactly, the least for which the lock excludes: with 5 TLC finds
two holders. With `Beat` = 3 a tick is 2.5 s of the write lock.
In `lock_reclaims` one round is shorter than the staleness and four are longer, as the code's are.
Two processes are one that holds and one that takes over; two sleeps let a lock be taken over and
taken back. `LockExcludes` covers any number.

The renewal's bounds are (logins, copies, writes of the rest, crashes, faults, outside acts):

| Run | Instance | Distinct states | Properties |
|---|---|---|---|
| `renewal` | (4,2,1,1,1,1), every operation fails, `Pieces`, `FairSpec` | 1.7 million | `TypeOK`, `AnswerKept`, `CopyNamed`, `NotSentTwice`, `SavesOverSent`, `WaitingEnds` |

Four logins are one Pitboard spends, its answer, a session's renewal of that and a sign-in; two
copies are one left waiting and one made after it. One write of the rest by a session is what a
save can be late for. With one crash and one fault a run is killed or fails before, while or after
its answer is kept, and the run that finishes it then has the other happen to it.

The forms of the vault, the folder and the automatic switch:

| Run | Instance | Distinct states | Properties |
|---|---|---|---|
| `vault` | two parks, one crash, one failure, the Secret Service stops once, `FairSpec` | 1.8 million | `TypeOK`, `HeldIsThere`, `NoneForgotten`, `OthersStay`, `MoveEnds` |
| `folder` | two accounts, three sessions, three items, four folders, the app opened once, one crash or failure, `FairSpec` | 1.0 million | `TypeOK`, `ParksWhole`, `NotMixed`, `EveryFolderNamed`, `NoSessionLost`, `InUseTrue`, `OnlyForgottenDeleted`, `MoveEnds` |
| `auto` | two accounts, one with a weekly limit, eight instants, one reading an account a time, two events | 3.3 million | `LeftOnce`, `TriedAtMost`, `SaidOnce` |
| `auto_settles` | three accounts, both orders, no readings, one event | | `LeftAlone`, violated |

In `vault` two parks are one copied and one not when a move stops. In `folder` one session is
parked, one is in use and the third is what the app signs in with; an item already moved, one being
moved and one still to move need three, the jar among them because it goes first and last. Its
safety properties were checked once with larger bounds, and hold: the app opened twice (32 million
states), and two mishaps with five folders (8.2 million). In `auto` eight instants hold two windows of the
session limit and one reset of a week; an event is a person's switch, a sign-in outside, a save that
fails or a run that dies. Only one account has a week there, so which of two weeks comes first is
not decided in that run; in `auto_settles` it may be. Time is bounded in both, so they end, and
deadlock is not checked in them.

Why the bounds of `Switch` are enough to mean something: three names let a switch, the recovery of
it and a renewal each reserve one, so a stale park and a fresh one of the same account meet; two
logins let a parked login be renewed while an older copy of it is still listed, and a session's
renewal come between a read and a write; crashes and failures meet in every order in every sequence
of commands, because the commands are not bounded. Two crashes let the run that recovers die, and be
recovered. In `claude` and `codex` no more than three of crashes, failures and outside acts happen in
one behaviour, in any order (the constraint `Mishaps`); without it, all four, the same properties
were checked once, over 6.7 and 12.3 million states, and hold. Codex's were also checked once with
three logins, without failures, and with two crashes, without failures, two outside acts in each
(27.6 and 7.4 million states). Deadlock is checked in every run of `Switch`:
`Start` is always possible when idle.

In `claude` that nothing is lost follows from `Custodied` and `NoneIsLost`, and `NothingIsLost`
proves it (6); `codex` checks `NothingLost` itself.

*K* leaves out three operations, and the reason is the same each time, that logins are then lost
by what the code does: `unlink` (5, the second finding), `twin` and `item` (5, observed). They are the
three the proofs exclude (`Reliable`, 6), and none of the exclusions can be dropped.

### Fairness

`FairSpec` assumes that a process that can step does (`WF(Process)`), which the operating system
gives; that changes are asked for again and again (`SF(StartsSettling)`), without which nothing
settles anything, by design (`settle` runs at the start of a change); that a session saves its
answer (`WF(SessionSaves)`); and that where the journal can be settled by asking the service it
is at some time (`SF(ReconcileRead)`, `SF(ReconcileTorn)`): `Undetermined` is otherwise always
possible. Where the slot holds nothing, recovery may never end without a person:
`RecoveryUndetermined` is what the code says then, and both properties say `live = NoLogin`.

`FairSpec` of `ClaudeLock` assumes that a process that can step does (`WF(Acts)`), that the lock is
asked for again by whoever needs it (`WF(Ask)`; without it nobody removes a dead holder's
directory, by design) and that time passes (`SF(Tick)`: it is disabled while a step is overdue).

`FairSpec` of `Refresh` assumes that a process that can step does (`WF(Process)`), that changes are
asked for (`WF(Start)`; nothing else finishes a renewal, by design), that a session saves or
writes what it holds a lock for (`WF(SessionSaves)`, `WF(SessionWrites)`), and that a dead holder's
lock goes (`WF(Lapses)`, which is `LeftIsReclaimed`). Nothing makes the service answer, or a
failing operation succeed but the bound on failures.

`FairSpec` of `VaultForms` assumes that a run steps on (`WF(Step)`), that the keyring is unlocked at
some time (`WF(Unlocks)`; while it is locked nothing can be moved out of it), and that changes that
settle are asked for (`SF(Settling)`, strong because another run may be under way whenever
one is). A renewal the schedule asks for does not settle and is not counted on.

`FairSpec` of `FolderMove` assumes that a run goes on (`WF(Working)`), that an open app is quit or
dies (`WF(appOpen /\ App)`), and that what the refusal of a command names is done: `repair
--abandon` and `enroll` are asked for (`SF` of each). Where the app stopped half way through a
sign-in, neither ends the move before the person has signed in, which nothing promises: `MoveEnds`
excuses that verdict, `unfinished`.

## 5. Findings

1. `given_up`. `abandon` says it keeps every copy the record names (`switch/journal.rs:400`). A
   rolled-back install lists the park for deletion and saves; killed before the journal goes,
   `abandon` parks the name again while it is still in `discarded`, and the next purge deletes
   what it kept.
2. `stuck_journal`. A removal of `journal.json` that fails is not noticed
   (`switch/journal.rs:146`), and the change goes on under a journal already settled. Settled
   again later it drops or replaces a login renewed since, against "a spare copy of a login,
   never a missing one" (`ARCHITECTURE.md`, Logins).
3. `auto_settles`. An account is not to be switched away from within `SETTLING_SECONDS` of its
   being put in use, "by anyone" (`duty/autoswitch.rs:33`; also
   `docs/reference/automatic-switching.mdx:68`). `automatically` takes `now` before it asks whose
   login is stored (`switch/auto.rs:43`); asking records the account at a time of its own
   (`switch/identify.rs:447`). A second between them makes `now - at` negative, which
   `settling` (`duty/autoswitch.rs:549`) does not take for recent, and the account somebody just
   signed in to is left in the same decision. The tests keep one fixed clock.

Observed in the code while modelling it, with no run:

- The documentation of `MoveOnly` (`provider/mod.rs:407`) says there are never two usable copies of
  a Codex login, "not even between two steps of a switch". `switch_from` stores the park
  (`switch/mod.rs:794`) before it installs (848): two copies between them. What does hold is
  `NoTwinAtRest`.
- A parked copy of the login in use "is dropped instead" of renewed (`switch/renew.rs:128`). Where
  the slot cannot be read, `live_twins` (`park.rs:503`) finds none, `renew_due` goes on
  (`renew.rs:133`) and the copy is renewed, which spends the login in use; the next switch then parks
  the spent login over the renewed one. For Claude Code such a copy is there after a switch died
  between `ParkStore` and the install, and `repair --abandon` gave it back. With the constants of
  `stuck_journal` and `Failing = {"twin"}` TLC finds `LiveNotRenewed` violated in 24 states, and with
  `MaxNames = 4` `NothingLost` in 47.
- An item the sweep cannot read keeps its place in the list (`pending.rs:194`). With `Failing =
  {"item"}` and `MaxNames = 4` TLC finds `NothingLost` violated: a renewal dies between storing its
  answer and recording it; the next sweep cannot read the item; the older login the record still
  names is spent, but `prove_incoming` proves it by its access token, and it is put in use or switched
  out again under a newer name, beside which the next sweep takes the item for the older one and
  deletes the only login that works.
- "A lock that was taken over belongs to its new owner now, and removing it would be the corruption
  the lock prevents" (`lock.rs:126`). The release goes by the flag of the last heartbeat
  (`lock.rs:128`) and looks at nothing: a machine that slept since, and a lock taken over since, and
  the directory removed is the taker's. The window is a heartbeat at most, 7.5 s for the write lock.
- After a move of the vault has recorded a park as another home's, and before `forward` copies it,
  that home may delete its copy; this home's own copy in the form it leaves is then deleted without
  a look (`switch/vault.rs:197`). `HeldIsThere` excepts what the other home took.
- A write of a login in several items of Credential Manager that stops partway leaves what no read
  joins (`store/mod.rs:176`). If it was the save of an answer, the copy waits, every run that finds
  it so stops (`switch/refresh.rs:343`), and nothing of Pitboard's ends that: a sign-in or a sign-out
  does. The answer itself is kept (`AnswerKept`), and a sign-in replaces it unsaved.
- A save of a renewal that fails does not keep its purge from deleting what is listed in memory
  (`switch/renew.rs:175`): a run killed before the purge's own save leaves the index naming a park
  that is gone. It was spent, in use or refused, and `repair` and the next sweep give the answer
  back in its place; until then `status` offers a login that cannot be loaded.
- A decision of the automatic switch that lasts over a reset saves its record and drops it at once,
  and logs its reason twice. With `Lasting` = 3 TLC finds `SaidOnce` violated in 9 states; the run's
  `Lasting` rules it out, and so does the theorem's hypothesis, `Prompt` (6).

## 6. Proofs

`SwitchProofs.tla` proves, for every value of the constants (any accounts, bounds, tool and set
of failing operations):

| Theorem | States |
|---|---|
| `InvHolds` | `Spec => []Inv` |
| `TypeCorrect` | `Spec => []TypeOK` |
| `ParksAreTrue` | `Spec => []ParksTrue` |
| `InUseIsTrue` | `Spec => []InUseTrue` |
| `EveryItemAccounted` | `Spec => []Accounted` |
| `LocksGuardTheSlot` | `Spec => WritesOverWhatItRead` |
| `TwinlessHolds` | `Spec => [](Moving => Twinless)` |
| `NoLoginIsTwice` | `Spec => []NoTwinAtRest` |

They rest on the two assumptions of `Switch.tla` (`NobodyAssumption`, `SwitchBounds`: the bounds
are numbers, and Nobody is no account), which TLC evaluates in every run.

`TypeOK` is not inductive: that the park a renewal records is an item of that account's, say,
depends on what an earlier step reserved and wrote. `Inv` adds, for each step, what the process
knows there: an index, saved or in mind, offers only parks that are their account's and match
the vault (`IndexTrue`); the vault's items are of the account they are named for (`VaultTrue`);
the list's names are past (`ListTrue`); a journal's two sides differ and its incoming login is
there (`JournalTrue`); the run is bound to an account and another goes out (`Bound`); the
service's answers are kept apart (`Asked`); a reserved name is referenced by nothing until it is
recorded (`Reserved`, `Unused`). The proof has one lemma an action or group of actions
(`...Fits`), over lemmas about the operators of the index (`DiscardFits`, `ParkForFits`,
`RepairedFits`, `GivenUpFits`, `StoreFits`).

`Accounted` needs a second invariant, `Found`: not only the saved index but the one in mind
accounts for every item, since a later step saves it; and in a sweep what the list is about to
lose the index has named first. That is the order `resolve` saves in, and the reason for it.
`WritesOverWhatItRead` needs a third, `Locked`: from `ready` to the install the lock is
Pitboard's, no session renews under it, and so the slot is what was read, or was signed out of.

`NoTwinAtRest` is about a tool without locks, and only while no operation has failed (`Moving`);
runs may be killed at any step, and sessions, sign-ins and sign-outs come between any two. A change
does park the login signed in, before it installs over it, so what it promises at rest is not kept
in the middle. `Twinless` says how far it is kept there: with no journal, and at every step
but those from the park's record to the record of who is in use and those of a run that finds a
journal, no index names a park of the login signed in (`Parted`); under a journal such a park is one of the journal's two, under the name the
journal has for it, with its item there (`JournalParted`), which is what repairing or giving up the
journal goes by. `RunParted` says what the run holds at each step of a repair, a renewal and a
change, `Coherent` when the index in mind is the saved one, and `Dated` that all logins held were
issued and that what a session is answered is nobody else's, so that neither a login saved by a
session nor one signed in with is ever parked already. An index only ever drops parks and takes at
most one more (`Adds`), which is what most steps need. `FaultsStay` lets the proof go backwards:
where nothing has failed now, nothing had before.

`ClaudeLockProofs.tla` proves, for every set of processes and every timing:

| Theorem | States |
|---|---|
| `TypeCorrect` | `Spec => []TypeOK` |
| `HolderIsTold` | `Spec => []ToldWithinABeat` |
| `AlarmsAreTrue` | `Spec => AlarmIsTrue` |
| `LockExcludes` | under `OnTime`, `Spec => []Exclusive` |
| `OneOfTwoIsTold` | under `StepsApart`, `Spec => []OneIsTold` |
| `SaversOutwait` | under `Outwaits`, `Spec => SaverOutwaits` |

The first three need `TimingAssumption` only. `HolderIsTold` rests on `Timed` (no process is at a
step past its limit), `Remembers` (a guard knows the mtime it stored, unless it misread) and
`Astray` (the directory has not carried a holder's mtime for longer than the holder has been at
its step and the one before). `OnTime` is `Beat + 4 * Late <= Stale`:
with 7.5 s of heartbeat and 15 s of staleness each step of the write lock may be 1.8 s late, and
each of the refresh lock (5 s and 60 s) over 13 s. The invariant says
where the mtime's age stands at each step of its holder, and that whoever is about to remove the
directory saw a lock nobody kept.

`StepsApart` is `Late < Beat`: a step is less late than the 5 or 7.5 s of a heartbeat. Without it two
that are as late as they beat could touch the directory in turns for ever. The invariant, `Pairs`,
is of every two that both keep the lock, at each pair of their steps. Either one is `Doomed`: the
directory carries another's mtime, and as one once replaced is never stored again, its next look
tells it (or, if it has yet to read back, the time starts anew). Or both go on (`GoesOn`), and then no lap
but the first is over for both, as the one that touches last finds the other between two looks. In
each case the time they have kept it together is bounded by what their steps have taken.

`Outwaits` is `(SaveRounds * Retries - 1 - MaxFaults) * Wait > Stale`: a saver's waits, but one and
but one for each removal that may fail, outlast the staleness. An attempt at a lock past its
staleness does not wait, and where the removal fails it is an attempt gone; with as many failures as
attempts TLC finds `SaverOutwaits` violated. In the code the four rounds of ten waits are 30 s in all
(`switch/refresh.rs:31`, `lock.rs:30`) against 15 s; the model's waits are all as long as each
other. The invariant, `Patient`, says that a lock which stood when a saver began asking, and which
nobody has touched since, is as old as the saver's waits so far, less one for each failure, or past
its staleness; and that the waits were not past it when the last of them began. At the last attempt
the two contradict `Outwaits`.

`RefreshProofs.tla` proves, for any bounds and any set of failing operations:

| Theorem | States |
|---|---|
| `InvHolds` | `Spec => []Inv` |
| `TypeCorrect` | `Spec => []TypeOK` |
| `CopiesAreNamed` | `Spec => []CopyNamed` |
| `OnlySentIsReplaced` | `Spec => SavesOverSent` |

They rest on `RefreshBounds`, which says the bounds are numbers. `Inv` has three parts beside the
types. `Knows`: what the process has in its locals at each step, so that a login sent is one, a
copy let go of has a name, and an answer in mind is of a login spent. `Named`: `CopyNamed` of the
saved index is not inductive, as a later step saves the index in mind, so that one names every copy
too, and from `reserve` to the copy both name the copy to be made. `Guarded`: from the write lock
to the write the lock is Pitboard's, so the document is what `save` read,
or was signed out of, or is what a write of it cut short left.

And, as generally:

| Theorem | States |
|---|---|
| `KeptHolds` | `Spec => [](Inv /\ KInv)` |
| `AnswersAreKept` | `Spec => []AnswerKept` |
| `SpentIsNotSent` | `Spec => NotSentTwice` |

`AnswerKept` is not inductive, and speaks of the slot alone: a login Pitboard spent may come back
into the store from a document a session read before and has yet to write. So `KInv` asks the same
of both (`Held`), and only a session that holds the write lock has such a document (`Sessions`). A copy found in the vault is the answer to the login its renewal names, and Pitboard
spends that answer only when the login named can come back no more (`Copied`). A renewal may be on
the saved list though the run has let go of it, if the save failed; such a one has no copy, or is
of a login that is gone, or of one in `lost` whose answer nobody has read (`Dropped`), else
`reserve`, which saves the list in mind, would forget a copy still needed. The rest is what each
step has done: which renewals left waiting are yet to be looked at, and that none is when Pitboard
renews (`ToDo`), which is why no login is sent twice (`Sending`); where the answer in hand is
(`Carrying`); what the save leaves (`Left`); that logins and copies are new when they are made
(`Issue`, `Copies`). One lemma an action, over a few for the steps that move or end the run only.

`VaultFormsProofs.tla` proves, for any parks and any crashes, failures and silences of the Secret
Service:

| Theorem | States |
|---|---|
| `InvHolds` | `Spec => []Inv` |
| `TypeCorrect` | `Spec => []TypeOK` |
| `HeldAreThere` | `Spec => []HeldIsThere` |
| `EveryItemIsNamed` | `Spec => []NoneForgotten` |
| `OthersAreKept` | `Spec => OthersStay` |

They rest on `NoneAssumption` (None is no park and no form) and `VaultBounds` (the bounds are
numbers). `HeldIsThere` is not inductive: the record that names the new form is saved by a step that
copies nothing, so the invariant says what the copies before it did, and that nothing was parked
between them (`Copies`). Its parts: a record agrees with itself (`Sound`), and one that names no
form names nothing (`Blank`); what the record in mind no longer says of another home's, or lists,
is used up or no longer there (`Agrees`); in a renewal, whose saves may fail, it differs from the
saved one only in parks of no use to the account, each listed, gone or the other home's, and, before
the last purge, in an answer that is written down and there (`Strays`), and in no other run does it
keep other parks or list more; every name was reserved by one home
(`Reserved`); a held park is in the form the record names, and another home's in the Secret Service
whichever form that is (`Kept`); what is another home's is known to be while this home is in the
Secret Service or on its way there (`Others`, which `OthersStay` needs); and what each step of a
move, a deletion, a sweep and a change has done by then (`Copies`, `Leaves`, `Sweeps`, `Writes`).
`MindNames`, `MindOthers` and `MindKept` draw from `Agrees` and `Strays` what the record in mind is
good for, and `ChangeKeeps` is what every change keeps of the parts, saved or not. One lemma an
action (`...Fits`).

`SwitchCustodyProofs.tla` proves, for any accounts, logins, names, crashes and failures, under
`Reliable`:

| Theorem | States |
|---|---|
| `NothingIsLost` | `Spec => []NothingLost` |
| `SwitchImplementsCustody` | `Spec => Custodied`: `Switch` implements `Custody` |
| `SignedInIsNotRenewed` | `Spec => LiveNotRenewed` |
| `NoneIsLost` | `Keeping!Spec => []Keeping!NoneLost`, of `Custody` (without `Reliable`) |
| `SwitchLosesNone` | `Spec => []Keeping!NoneLost` |

`Reliable` is `Locking` and that the operations `unlink`, `twin` and `item` do not fail. `read`,
`write`, `save`, `list` and `journal` may fail at every use, and a run may be killed at every step,
any number of times. Each of the four parts is needed: 5 has a behaviour that loses a login for each
operation, and Codex, without locks, is not mapped. A fault bound does not enter: the proof is for
any `MaxFaults`, `MaxCrashes` and `MaxOutside`.

`NoneIsLost` is of `Custody` alone: its proof opens nothing of what `SwitchCustody` puts for
Custody's places, and its invariant, `NoneMissing`, adds that Pitboard answers for accounts only.

`NothingLost` says where a login is now; whether it stays depends on what the run in progress
will do, which it decides by what it has read before. `Guarded` is the inductive invariant:

- `Basis`: `Inv`, `Found` and `Locked` of `SwitchProofs`.
- `Traced`: a login held anywhere was given by the service and a name anywhere was reserved; an answer
  a session has is nowhere else; what is in the vault and listed to be deleted by the saved index the
  index in mind lists too.
- `Answers`: an answer the run has not recorded is parked for nobody, and in the vault only under
  listed names that no deletion is noted for.
- `Staged`: what the steps before have done. When there is a journal; when nothing is listed any
  longer, or only names of the account going in, or the one just reserved; when the index in mind is
  the saved one; that a change's park, its record and its journal agree; that what a refusal said of a
  login is still so.
- `Secure`: each account is `Safe` (its tool has a usable login, a session its answer, or it is in
  `taken`) or its login is `Stored`: of all items a later run may offer the account, by the record or
  by the list, those of one usable login are there and stay there, and every other is of a login
  spent and has an older name, which is how the sweep chooses. It says so of the saved index and of
  the one in mind, and one such item is offered by both, as a crash leaves the first and the next save
  makes it the second. That is what `NothingLost` lacks to be inductive: a newer item under a listed
  name that is spent breaks nothing until the sweep.
- `Slot`: what is in the slot against what the run has read of it (`SlotHolds`); that what a journal
  parked is recorded (`JournalBacked`); that the account whose login is let go of or written over has
  another, and that what was put in the slot stays stored until it is seen to hold (`SlotSafe`); and
  that after `drop_live_twins` no park and no answer is the login signed in
  (`SlotTwins`, which is also why `LiveNotRenewed` holds).

Each action has a lemma that it keeps `Guarded` (`...Keeps`), over lemmas on what a park, a discard, a
sweep, a repair and a purge do to `Stored`. `Settled` strengthens it for the refinement: from the
sweep's end until a change reserves a name, the parks in mind are the saved ones and no deletion in
mind is unsaved, so that an account is forgotten with nothing in mind that the disk does not have.
Then each action is a step of `Custody` or changes nothing it sees (`...Keeping`).

Proving these found two mistakes in the models, both mended. `taken` counted an account only where
its last login went, or while a run had read it; but a login ended beside another may be the one
Pitboard then keeps, as it cannot tell. And `Custody`'s `Exchange` and `Save` did not allow an answer
in one hand while another session saved its own.

`FolderMoveProofs.tla` and `FolderMoveOwnedProofs.tla`, which extends it, prove, for any accounts,
sessions, items and folders, and any number of openings of the app, crashes and failures:

| Theorem | States |
|---|---|
| `InvHolds` | `Spec => []Inv` |
| `TypeCorrect` | `Spec => []TypeOK` |
| `ParksAreWhole` | `Spec => []ParksWhole` |
| `FoldersAreNamed` | `Spec => []EveryFolderNamed` |
| `ForgottenOnlyDeleted` | `Spec => OnlyForgottenDeleted` |
| `OwnedHolds` | `Spec => [](Inv /\ Owned)` |
| `NoSessionIsLost` | `Spec => []NoSessionLost` |
| `InUseIsTrue` | `Spec => []InUseTrue` |
| `MixHolds` | `Spec => [](Inv /\ Owned /\ Mix)` |
| `LoginsAreNotMixed` | `Spec => []NotMixed` |

They rest on the named assumptions of `FolderMove.tla`: a login has a first item, sessions and
accounts are none of the other values, each session has an owner, and the bounds are numbers. No
item is assumed to be listed once, nor any set to be finite.

`ParksWhole` is not inductive: the save that records a park trusts what the renames before it did,
and the app may have been opened between any two of them. `Inv` has two parts beside the types.

- `Data` holds of the record and the disk wherever a run is, or was killed. No folder is named twice
  by the record (`Once`), and what a move names nothing else names but the park an arrive is of
  (`Apart`); else one account's folder could be emptied as another's. The park of a move is written
  in the order manifest, keys, items, and holds no jar but the one recorded (`MovePark`); that is
  what lets a settling tell from the disk alone how far a killed run came.
- `RunInv` is of the run. What a command may be doing (`Ops`, `Halves`); that the park a switch will
  arrive with is whole all through the leave before it (`SwitchPark`); what a record is made from
  (`Reserving`); the folder being made, a write at a time (`Building`); for each row of `settle.rs`,
  the steps it goes through and what each finds (`RowInv`); and that a save which files a park finds
  it whole (`Committing`).

Each action has a lemma that it keeps `Inv` (`...Inv`), over lemmas on what each operation of the
record names afterwards (`ParkOf`, `DiscardOf`, `GivenBackOf`, `ResolvedOf`, `RemovedOf`) and on what
a save needs of the record it writes (`CommitData`, `FiledData`).

`OnlyForgottenDeleted` is an action property and needs `Inv` alone. `Keeps` is what a step may do to
an item. A step moves one item between the app's folder and one under `parks`, where it is in the
one and not in the other (`MovedKept`), so one of its places gives way to one other (`OneForOne`,
over the library's facts on the cardinality of finite sets); and a folder is deleted without being
recorded as forgotten only where it holds nothing (`PurgeKept`).

`Inv` says how much of a login is where, not whose it is. `NoSessionLost` and `InUseTrue` need the
latter: a commit files under an account the session it finds, and a forget takes with it what is
recorded as that account's. `Owned`, in `FolderMoveOwnedProofs`, is inductive beside `Inv`; TLC was let
look for a step out of it on the run's instance, and on one with a second opening of the app, before
it was proved. Its parts again are of the record and the disk (`OwnData`) and of a run (`OwnRun`).

- A session is in one place (`Kept`): so a rename neither makes two of it nor writes over one, and
  the one place it is deleted from is the last. What is deleted with all it holds has only sessions
  that are over (`RecordOwned`).
- Each thing that says whose a session is, a park, an aside, a manifest, a move, says so truly
  (`RecordOwned`, `ManifestsOwned`, `MoveOwned`).
- The settings may not, because an app killed while it signed in as another has the new jar and the
  old settings. Then their token caches are empty and no record has the session (`RootOwned`), so
  that a leave is recorded only of an account that both name.
- Until the app writes, what is recorded as in use is what is there, at rest (`UseOwned`); while a
  leave is under way the record has the login that is moving (`MoveOwned`).
- A look happens steps before what goes by it: the account an enrol read before it gave a move up
  (`EnrollOwned`), the login a leave is recorded of (`ReserveOwned`), and what each row of
  `settle.rs` leaves in the app's folder until its commit (`RowOwned`, `CommitOwned`).

The app, which goes on between any two steps of a run, is in `ran`: what a run was going by is not
claimed once the app has written, and each step that goes by it looks first.

`NotMixed` is about the items beside the jar, which carry no name of whose they are: nothing at
run time could check it. `Mix` is inductive beside the other two, and was checked on the run's
instance (`LeaveUnmixed`, `ArriveUnmixed` and `OutUnmixed` with it) before it was proved. What may
lie beside an account's login (`Beside`) is its own, what the app made, and what is left of a session
that is over.

- Of the disk (`MixData`): beside a session in the app's folder (`RootUnmixed`), in a folder whose
  manifest names a login (`FolderUnmixed`), and in both places of what a move is of (`MoveUnmixed`)
  lies nothing of another account. A folder made of leftovers, or of what the app made meanwhile,
  has a manifest that names no login, so it may hold anything and is never offered as a park.
- Of a run (`MixRun`): an arrive finds the app's folder with nothing of another account, item by item
  as it sets aside what it finds (`ArriveUnmixed`); only what the move lists goes into its park, and
  only with its own session, or none, in the app's folder (`OutUnmixed`); and a switch's leave leaves
  in the app's folder only what it has still to move, so that at its commit the arrive after it
  needs no folder to set anything aside in (`LeaveUnmixed`).

An app opened in the middle of a run makes stores where it finds none. What it writes as it quits
comes between runs: signed in, it makes the stores it finds its own login's, and so nothing of
another's stays beside the session it leaves.

The proof changed the model in three places, none of which the runs could show. Two operators chose
among overlapping cases, where TLA+ leaves open which is taken and the code does not (`Continues`,
`KeysAre`: a chain of returns and an if chain in the code). The instance's first park takes a name, so `MaxNames` is
not 0. And `None` had been assumed apart from too little.

`AutoSwitchProofs.tla` proves, for any accounts, windows, shares, waits and clock, and any number of
answers, switches by a person, sign-ins, failures and deaths of a run:

| Theorem | States |
|---|---|
| `AlwaysHeard` | `Spec => []Heard` |
| `LeavesOnce` | `Spec => []LeftOnce` |
| `TriesAtMost` | `Spec => []TriedAtMost` |
| `SaysOnce` | under `Prompt`, `Spec => []SaidOnce` |

They rest on `AutoSwitchAssumption`, of which the parts that matter are that two answers give one
reset less than `Same` apart, that windows are longer than that, and that the clock starts later
than the longest wait. The properties are about history, by the window as it really is; a decision
goes by records kept under whatever reset an answer gave. `Heard`, the inductive invariant, ties the
two. `RecEnd` is the window a record is of whatever answer it was kept under, and for each thing
either its record is in the ledger (`Kept`) or its window is over for every answer still to come
(`Gone`). A thing whose record is kept counts no more attempts than the record (`Tallied`), was
switched for only where the record says so, but for the switch just made and those unrecorded
(`Switched`), and had said of it only what the record has (`Spoken`); of a thing that is gone nothing
is done again, because a decision is about windows that an answer says may still run. That a record
found for one answer's reset is the record of the same window (`OneReset`, `EndsApart`) is what
`SAME_RESET` is for. No record is of a later window than the last answer about it (`Behind`), so a
newer window never gives way to an older one. While a decision is under way its plan is of a record
in the ledger with the attempt counted (`Planned`).

`Prompt` is `Lasting + Jitter <= Same`: a decision is over within the minute of `SAME_RESET`, less
how late an answer gives a reset. A decision goes by the time it began, and records are dropped by
the time they are saved. `Prompt` says that a window not over at the first still has its record at
the second. A switch is a few requests of some seconds each; only a machine that sleeps in the
middle takes longer. The other three theorems do without it, as what counts for `left` and `begun`
is a thing not gone when the attempt is saved.

Proving `TriesAtMost` showed the model's property to be false past the run's bounds: the ledger
forgets the moves for an account without a week seven days after the last, and the history did not.
By the code's own comment that is meant, so the history now forgets with it.

Only model-checked:

- `NothingLost` for Codex.
- The liveness properties (`RecoveryEnds`, `LeftoversGo`, `LeftIsReclaimed`, `WaitingEnds`, the two
  `MoveEnds`), which need fairness and are beyond the prover.

## 7. Not modelled, and the plan

Done: `Switch`, `Custody` and the refinement, `ClaudeLock`, `Refresh`, `VaultForms`, `FolderMove`,
`AutoSwitch`, with the proofs of 6. Left, in this order; each module with its own configurations,
the proofs in a module of their own, no recursive operator in a module proved about.

1. The proof of `NothingLost` for Codex.
2. `Enroll` (`switch/enroll.rs`, `switch/adopt.rs`): the private sign-in folder, and a run killed
   while the person signs in.
3. `stow` (the login file behind the keychain), and the warm-up with its own ledger entries; the
   decision of `AutoSwitch` over `Switch` instead of a switch in one step.
4. A read that records whose the login is (`record_read`) beside `Switch`; in `AutoSwitch` it is one
   step.
5. `Lanes` (`crates/pitboard-model`): the app's requests and answers out of order.

Not to be modelled: command line, FFI, apps, bindings, packaging and website (presentation and
distribution); the host layer and the providers' document shapes (input and output of the
operating systems and services, of which the models take what the engine uses); audit log,
redaction, words and errors (text); settings, proxy and schedules (when runs start: the models
start them at any time).

## 8. Running

    tlc -workers 2 -config SwitchClaude.cfg MCSwitch.tla
    tlapm SwitchProofs.tla
    tlapm SwitchCustodyProofs.tla
    tlc -workers 4 -config ClaudeLockSleeps.cfg MCClaudeLock.tla
    tlapm ClaudeLockProofs.tla
    tlc -workers 2 -config Refresh.cfg MCRefresh.tla
    tlapm RefreshProofs.tla
    tlc -workers 2 -config VaultForms.cfg MCVaultForms.tla
    tlapm VaultFormsProofs.tla
    tlc -workers 2 -config FolderMove.cfg MCFolderMove.tla
    tlapm FolderMoveProofs.tla
    tlapm FolderMoveOwnedProofs.tla
    tlc -workers 2 -config AutoSwitch.cfg MCAutoSwitch.tla
    tlapm AutoSwitchProofs.tla

Each configuration `Switch*.cfg` is for `MCSwitch.tla`, each `ClaudeLock*.cfg` for
`MCClaudeLock.tla`, each `AutoSwitch*.cfg` for `MCAutoSwitch.tla`, and each takes five minutes at
most. The operators marked "Mutant" are
the wrong versions of the definition below them that `PROJECT.json` pairs with a property: with
any of them in place that property fails.
