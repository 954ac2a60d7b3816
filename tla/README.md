# tauri-plugin-hot-update: a verification project

TLA+ models, TLC instances and TLAPS proofs for the crate in this repository:
a Tauri plugin that downloads signed frontend bundles, serves them instead of
the embedded frontend, and rolls back when a bundle does not start. Everything
is translated from the Rust in `src/`; `PROJECT.json` maps each definition to
the lines it stands for.

## 1. The system

| part | code | state | operations |
|---|---|---|---|
| rollback state machine | `src/machine.rs` | the `State` record: `committed`, `last_good`, `staged`, `booting`, `booting_strikes`, `failed`, `max_version_seen`, `versions` | `resolve_boot`, `ack`, `promote_staged`, `stage`, `reset`: pure, each returns a new state and `DeleteBundle` effects |
| bundle store | `src/store.rs` | `hot-update/state.json`, `hot-update/bundles/seq-<N>`, temp entries, a write mutex | `load_state`, `save_state` (temp file and rename), `update` (read, transform, save under the mutex), `present_seqs`, `allocate_seq`, `apply_effects`, `sweep_foreign_entries` |
| runtime | `src/runtime.rs` | `Shared` (`page_acked`, `reload_pending`, `gate`) and `Activation` (`current`, `embedded_version`, `update_lock`), one per process | `initialize`, `notify_app_ready`, `apply_staged`, `reset`, `current_bundle` |
| plugin setup | `src/lib.rs` | none of its own | setup hook (`initialize`, then spawn boot recovery), page-load hook, command registration |
| update pipeline | `src/update.rs`, `src/download.rs` | one run at a time, under `update_lock`; a `dl-*.part` file, an `extract-*` directory, then a bundle directory | `gate`, `check`, `check_and_download` |
| boot recovery | `src/recovery.rs` | one task per process: attempt number, whether it switched | `recover_once`, `run` |
| archive extraction | `src/extract.rs` | counters of entries and bytes | `extract_tar_gz` |
| assets provider | `src/assets.rs` | none; reads `current` on each request | `get`, `csp_hashes`, `iter` |
| manifest verification | `src/manifest.rs` | none | `verify_and_parse`, `validate`, `BaseVersion` |
| IPC commands | `src/commands.rs` | `last_emit` of a download's `ProgressThrottle` | one command per method |
| release signing tool | `src/sign.rs` | the release directory: archives named by version, `manifest.json`, `manifest.json.minisig` | `sign_release` |
| config, errors, guest bindings, packaging | the remaining files | none | parsing, thin wrappers |

How they interact. A page calls a command on the process's one command thread,
or from several threads through the Rust API; `check_and_download` and boot
recovery run on the async runtime. All of them share `state.json` through the
store's write mutex, which covers exactly one read-transform-save. Everything
else happens outside it: directories are listed before, effects are applied
after, `current` is swapped later. `gate` serializes an ack with recovery's
check-and-switch, but `apply` from a page and `reset` do not take it.
`update_lock` serializes pipeline runs with each other and with nothing else.
A process can die anywhere; `hot-update/` is all that survives. The provider
reads `current` anew for every lookup of every request. The signing tool and the
app share nothing but the channel's files, which the app fetches one request at
a time.

What is hard, and what makes the parts correct:

- *state machine*: the strike count, the watermark and the blacklist must stay
  right over any sequence of launches of older and newer shells, trials,
  commits and resets; a rollback lands on the last committed bundle; no bundle
  is under two pointers, since `ack` and `stage` delete what they replace
  without looking whether another pointer names it.
- *store*: a kill, a failed save or a failed delete between two steps leaves
  pointers and directories out of step. Nothing referenced may be missing or
  torn; orphans must go at the next boot.
- *runtime*: the rollback marker is on disk before the bundle is served, though
  the save and the swap are two steps with other threads in between.
- *pipeline*: a state that moved on between the gate and staging; the new
  directory renamed into place before the pointer flips.
- *boot recovery*: an ack must not slip in between its check and its switch,
  and an ack from the old page must not commit the bundle just switched to;
  retries end; locks are given back.
- *assets provider*: between two lookups of one request, and between two requests
  of one page, serving may switch and directories may go.
- *extraction*: three caps in one loop, at exact limits, over headers that may
  lie; a sum that must not wrap.
- *channel* (signing tool, manifest, download): manifest, signature and archive
  may come from three releases; a version signed again overwrites an archive
  that is being downloaded.

`PROJECT.json` lists the 39 places where this can go wrong ("hazards"), the
ones no property covers yet included, with the reason.

## 2. The modules

```
Machine          machine.rs, operators only
  Store          + state.json and the directories
    Runtime      + one process: methods, page loads, exit
      Update     + the pipeline
        Recovery + the recovery task
          HotUpdate       Init, Next, fairness, all properties
            TrialHistory  + a history of armings, for the two-strike rule
            Assets        + requests to the assets provider
TrialPointer     abstract: what HotUpdate implements

Semver           the version order of the semver crate
Extract          extract.rs
  Acquire        + signing tool, verification, gate, download (and Semver)

MachineProofs          what each transition does to the state
  HotUpdateProofs      types, soundness; who can do what
    PointerProofs      the refinement, the memory, the committed bundle, boot GC
      MarkerProofs     the marker, what is served, what an ack commits
        DirectoryProofs    directories and deletes (about HotUpdate, like the three above)
      HistoryProofs    the two-strike rule (about TrialHistory)
        AssetsProofs     requests (about Assets)
AcquireProofs          about Extract and Acquire

MCHotUpdate, MCTrialHistory, MCAssets, MCAcquire  instances for TLC
```

The two halves meet in `Staged`: `Update` runs the pipeline among the threads of
the plugin with bundles reduced to a version, a hash and a base; `Acquire` runs
it alone against a channel, with real sizes, archives and versions.

**Machine.** The `State` of `state.json` as a record and each transition as an
operator. `None` is 0; a semver is a positive number; `versions` is a function
with `Absent` for a missing key. `ResolveBoot` composes one operator per
numbered step of `resolve_boot`. An operator returns `[state, effects]` where
the code returns a tuple. Values that are only reported (`rolled_back`,
`AckOutcome`, which refusal) are left out.

**Store.** `disk` is the parsed `state.json`; `bundles[seq]` describes what is
under `bundles/seq-<N>`: which bundle, and whether all of it. `save_state` is
atomic (temp file, fsync, rename), so a save happens or fails (`SaveFails`). Each
delete is best effort (`ApplyEffects`). The constant `Faults` says what may go
wrong: `save`, `delete`, `state_lost`, `dir_lost`, `reload`, `read`.

**Runtime.** `proc`, `shell`, `current`, `page_acked`, `reload_pending`, `gate`
and `page[w]` are the process; `call[t]` is what a thread remembers between two
steps of a method. A method is cut wherever another thread can get in:

| method | steps |
|---|---|
| `notify_app_ready` | `AckBegin` (take the gate, set `page_acked`, read `current`), `AckUpdate` or `AckFail`, `AckReturn` (deletes, gate) |
| `apply_staged` | `ApplyBegin` (list directories), `ApplyArm`, `ApplyDiscard`, `ApplyRefuse` or `ApplyFail` (the update), `ApplyVersion` (read the state again, for the version), `ApplySwap` (switch `current`), `ApplyGC` |
| `reset` | `ResetBegin` (read `current`), `ResetUpdate` or `ResetFail`, `ResetReturn` (deletes and the sweep of temp entries) |
| `initialize` | one step: nothing else runs during setup. `LaunchSaved`, `LaunchUnsaved` (state not saved: serve the committed bundle, delete nothing) and `LaunchKilled` (killed after the save, before the deletes) |

`wiped` and `ran` are history variables: whether the state was reset or lost in
this process, and which bundles some page of it was loaded from. `Exit` is
enabled at every moment a process is up.

**Update.** `job[r]` is one call of `check_and_download`: its place and its locals.
A page has one of `Downloads`, boot recovery has `Recoverer`; `LockFree` says that
nobody is inside `update_lock`, which `JobLock` asks for before anything is read.
Then a run goes on one await at a time: `JobGate` when the manifest is here
(`Gate` is `gate()`; the server may publish any member of `Manifests`), `JobExtract`,
`JobAllocate` (listing and state are read, the number chosen), `JobRename`,
`JobStage` (staging checks again; `JobRefused`, `JobUnsaved`), `JobReturn` (deletes).
Transport, digest, signature and archive errors are one action, `JobFail`, possible
until the rename. `swept` records that a `reset` removed the run's temp directory:
the download then cannot be reopened, an extraction goes on and recreates the
parents it needs. A run that returns forgets everything, its lock included, but for
the outcome that recovery awaits.

**Recovery.** `rec` is the task. Its waits may elapse at any time. `RecPageIsFine` and
`RecCall` are its look at `page_acked`; the run it then asks for waits for the lock
(`RecLocks`), goes its own way and is collected (`RecCollect`): there may be acks
between all of these. It calls `apply_staged` as the thread `Recoverer`, with
the gate held from the check of `page_acked` (`RecSwitch`) to `reload_pending`
(`RecFlag`). `RecReload` is `window.reload()` together with the Started event it
causes, one window at a time, app pages only.

**TrialHistory** counts in `chances` how often the bundle under `booting` was
really armed, to compare with the persisted strike count. A launch arms what its
resolved state has under `booting`; one that could not save that state serves the
committed bundle instead and arms nothing.

**TrialPointer** is the abstract specification: one bundle is `good`, one may be
on `trial` with `chances` left, hashes are `condemned`, nothing at or below
`floor` is tried. Its steps are `Arm`, `Commit`, `Boot`, `Forget`. There are no
directories, saves, threads or strikes. `HotUpdate` instantiates it as
`Rollback`: `good` and `trial` are the metadata under `committed` and `booting`,
`chances` is 2 minus the persisted strikes, `floor` is `max_version_seen`, and
`intact`, an input, says which of the two still has its directory. Staging,
deletes, swaps and everything of a process are stutters.

**Assets** adds `fetch[w]`, a window's request. `get` is a lookup (`FindOta`,
`FallBack`) and a read (`Read`, or `ReadFails` when the directory is gone or, with the
fault `read`, when a file that is there cannot be read); `csp_hashes` is a second
lookup (`CspHashes`). `Under` is any step of the rest; the ghost `moved` notes that
what is served changed during the request, `error` that the embedded document stands
in for one that could not be read. Which candidates tauri asks for, and that it calls
`csp_hashes` after `get`, is external. A directory whose extraction was swept lacks
the keys `TornLacks`.

**Extract** is `extract_with_limits`: `NextEntry` is one turn of the loop up to the
entry's data (count, kind, path, saturating sum, in the code's order),
`EntryData` the copy under `CappedReader`, which may be cut in the middle,
`EndOfArchive` the trailer. An entry's `declared` and `data` are independent.

**Acquire** has the publisher (`CreateArchive`, `FinishArchive`, `WriteManifest`,
`WriteSignature`, `SignAborted`: `sign_release` file by file) and one pipeline run
(`FetchManifest`, `FetchSignature`, `Verify` with `Gate`, `GetArchive`,
`ReceiveChunk` with the progress throttle, `EndOfStream`, `Unpack`,
`ExtractReturns`, and `Mishap` anywhere). A request answers with the file as it is
at that moment, so the interleavings are those of separate requests. `Commit`
stands for the rest of the plugin. What extraction is judged by, `Acceptable`, is
a definition over the whole archive: its true sums (`Totals`, a recursive
function), against which the loop's counters are compared. A digest is modelled by equality of content
and size, a signature by the document it is over and its key.

**Semver** orders versions twice: `Below` as the crate's `Ord` does, with build
metadata, and `Precedes` as semver precedence, without.

## 3. What TLC checks

Passing runs. But for `acquisition`, and unless the table says otherwise, they use
versions 1 to 3, shells 1 and 2 (so the app can be updated and downgraded), two
archive hashes, one calling thread, one download call, and two published bundles: a
release (version 2) and a fix (version 3).

| run | instance | distinct states | properties |
|---|---|---|---|
| `desktop` | two calling threads (a symmetry set; all properties are safety); ack, apply, download; saves and deletes may fail; the fix is bound to shell 1; seqs 1 to 4 | about 1 761 000 | `MetadataTracked`, `TrialIsNew`, `MarkerOnDisk`, `ReferencedOnDisk`, `ServedAsReported`, `ServedBeatsShell`, `EffectsSafe`, `ImplementsRollback`, `CommittedSurvivesTrials` |
| `recovery` | `FairSpec`; recovery with one retry, ack, download, reset; one window that may show a remote page; saves may fail, `state.json` may vanish; one release, shell 1, seqs 1, 2 | about 580 000 | types, `NoDoubleDownload`, `RecoveryYieldsToPage`, `AcksHeardAgain`, `CommitFromRunningPage`, `RecoveryEnds` |
| `serving` | `Assets`; recovery, ack, reset; `state.json` and directories may vanish, reads may fail; keys `index`, `page` (the release's only) and `help` (the shell's only); seqs 1, 2 | about 1 207 000 | `AlwaysAnswered`, `HashesFollowKey`, `MixedPageIsReloaded`, `PointersDistinct`, `MemoryOnlyGrows` |
| `trials` | `TrialHistory` with `RelaunchSpec`; ack, apply, download, reset, vanishing directories; seqs 1, 2 | about 503 000 | `TwoChances`, `ImplementsRollback`, `BlacklistTakesTwo`, `BootCollects`, `TrialEnds` |
| `acquisition` | `Acquire`; caps of 2 files and 4 bytes; 13 release plans; shells 1, 2 and 2 with build metadata; two mishaps | about 50 000 | `StagedIsOneRelease`, `StagedKeepsBase`, `FullProgressShown`, `OnlyAcceptable`, `LimitsAreInclusive`, `CapsHold`, `LastReleaseArrives` |

Why these bounds are enough. Two versions above the lower shell give a
committed bundle, a newer one on trial or staged, and a shell that catches up
with the first. The system holds at most three referenced bundles
(`committed`, `staged`, `booting`); seqs 1 to 4 add one orphan. Two hashes let
one be blacklisted while the other is tried. Two calling threads race an `apply`
with an ack, and with the other `apply`; a third could only wait for what they hold.
Elsewhere the second party to every race is the pipeline or recovery, and recovery's
run next to one download is enough for two runs at once.
`MaxChances` in `TrialHistory` stops the history one above what the property
allows. `ReferencedOnDisk` is checked without vanished
directories, which it would have to exclude, and without `reset`, whose race
with a download (below) breaks it; `BootCollects` is about launches whose save
and deletes succeed, so its instance has no such faults. `recovery` offers one
release, to the page and to recovery alike: what its properties tell apart is
which bundle a page was loaded from, and the embedded frontend and the release
are two. `serving` stages through recovery only; three keys give each way a lookup
can go: in the bundle, only in the shell, in neither.

In `acquisition` the caps are small enough to be met and passed by one unit:
archives with exactly `MaxFiles` entries and one more, `MaxBytes` declared and one
more, a stream that ends exactly at its cap and one past it, a sum that would wrap
at `MaxU64`, data and metadata far longer than declared. `MaxU64` is one unit
where a wrap could hide a cap, not 2^64: `SaturatingAdd` is translated with the
limit as a parameter. The plans sign a version twice, go back a version, rotate
keys, bind to prerelease, invalid and newer bases, and follow each bad archive
with a good one. Chunks are any split of the bytes. `MaxMishaps` bounds failures
so that `LastReleaseArrives` has a last one.

Each property has a mutant in `PROJECT.json`: a plausible bug in a mapped
definition (a strike not counted, the flag not set, the delete before the
pointer flip) under which the same run fails.

Fairness (`FairSpec`). A thread inside a method runs on (`MethodStep`): the code
between two lock operations is straight-line. A pipeline run proceeds or fails
(`PipelineStep`); this assumes network I/O ends, which the code itself bounds
only for connecting. Recovery's timers fire (`RecoveryNext`), and a mutex that is
free again and again is eventually granted (strong fairness on `TakesLock`:
`gate` is a std mutex, `update_lock` a FIFO tokio mutex). Nobody has to call a
command, load a page or quit. `RelaunchSpec` assumes instead that people keep
quitting and starting the app. That acks are heard again after
a switch is an invariant of what recovery leaves behind (`AcksHeardAgain`), in an
instance without failing reloads; with those nothing bounds the wait. In `Acquire` fairness on `AppStep` says that the app keeps
checking and that a run goes on until it ends; the publisher may stop anywhere.

Disagreements found, each shown by a run of its own that TLC must find violated:

| run | what the code does, and what it says |
|---|---|
| `torn_bundle` | `reset` sweeps the `extract-*` directory of a running download; extraction recreates what it still needs and an incomplete bundle is renamed into place and staged. `update.rs:163`: "atomically rename the fully extracted dir into place". |
| `untried_commit` | The page-load hook clears `reload_pending` for any webview; a remote page starting in a second window lets the old page's ack commit the new bundle. `CHANGELOG.md:18`: "an ack from the pre-switch page never commits the new bundle". |
| `reset_race` | `reset` reads the served bundle before the write lock; a recovery switch in between makes it delete what is served. `machine.rs:505`: the served bundle "is deliberately not deleted". |
| `stale_snapshot` | `apply_staged` lists directories before the write lock; a bundle staged in between is discarded as missing. `runtime.rs:239` lists the only reasons for a discard. |
| `stale_csp` | `csp_hashes` looks the served directory up again after `get`; a switch in between, to a bundle without the document, sends a page of the old bundle with the embedded hashes. `assets.rs:14-15`: "Never stale hashes for fresh content". |
| `base_kept` | The base gate runs when arming only; a committed bundle is still served by a newer shell. `manifest.rs:35`: "an OTA never replaces a newer native build's embedded frontend". |
| `unreadable_asset` | `get` takes the embedded document whenever reading the bundle's file fails; `csp_hashes` only asks whether that file is there, and adds no hashes. `assets.rs:13`: "When a key falls back to the embedded assets, the embedded hashes are delegated to". |

Three things these instances leave to others. `desktop` has no reset and no lost
`state.json`: with those a swap can find no entry for the bundle it armed, and the
code then reports the shell's version, so that `ServedAsReported` would not hold; it
is stated where the entry cannot go away. `MarkerOnDisk` excuses a process whose state
was reset or lost (`wiped`), since nothing can be on disk for it. `HashesFollowKey` is
about serving that does not move and reads that work; `unreadable_asset` and
`stale_csp` are what happens otherwise.

Noticed while reading, without a run: the one-strike wording in `README.md` and
`guest-js/index.ts` next to two-strike code; a page that calls `apply` and acks
before it reloads commits a bundle that has not run (`reload_pending` is
recovery's alone); the archive of the bundle on trial passes the gate again,
since the gate compares with the staged one only, though `update.rs:115` says that
the loser of a race reports `AlreadyStaged`; a seq can be reused, for it is one
above what exists, not above what ever existed; `lib.rs` lists five commands and
registers six; the base gate compares with `>` of `semver::Version`, in which build
metadata counts, so a shell `2+1` refuses a bundle built from base `2`, though
`manifest.rs:38` has "plain semver precedence, build metadata ignored".

## 4. What is proved

Every invariant and every action property of the passing runs is also a theorem,
for every value of the constants: any sets of seqs, versions, shells, windows,
threads and manifests, with or without recovery, any archives, plans and caps. The
assumptions are the named `ASSUME`s of the modules: seqs and versions are positive
numbers, shells are versions, `Recoverer` is not a caller and `NoThread` no thread,
manifests are well typed, `Absent` is neither metadata nor a directory, the embedded
frontend ships its index; in the channel, plans are sequences of releases, archives have a size, and the caps are
numbers whose sum is within the u64.

A few theorems need more of the constants, and say so in their own `ASSUME`. None
of these hypotheses is there for the proof's sake: TLC finds each property violated
in an instance that lacks one (a run that is kept is named), or the property is
about what the hypothesis excludes.

| hypothesis | theorems | without it |
|---|---|---|
| no `dir_lost` | `DeletesSpareReferenced`, `ReferencedStaysOnDisk`, `ServesWhatItReports`, `ServedStaysOnDisk` | a directory that vanishes by itself is missing |
| no `dir_lost` | `DeletesAreSafe` | the number of a vanished bundle is given out anew while a thread still has it on its list |
| no `reset` | `ReferencedStaysOnDisk`, `ServesWhatItReports`, `DeletesAreSafe`, `ServedStaysOnDisk`, `ServedIsNewer` | `torn_bundle` and `reset_race`; a swap that finds the state cleared reports the shell's version |
| no `state_lost` | `ServesWhatItReports`, `ServedIsNewer` | the same swap, when the file is lost before it |
| no `save`, no `delete` fault | `BootCollectsAll` | a launch that cannot save deletes nothing, on purpose |
| no `apply`, one kind of page | `CommitsWhatRan` | an app that acks before it reloads; `untried_commit` |
| no `reload` fault | `AcksAreHeard` | the page from before the switch stays, its acks ignored |
| no `apply`, no `reload` fault | `MixedPagesAreReloaded` | a page that calls `apply` stays, with files of two bundles, until it reloads itself; so does one whose reload failed |
| `MaxBytes < MaxU64` | `OnlyAcceptableDelivered`, `AcceptableNeverRefused` | a saturated sum would equal the cap and pass. The code's cap is 500 MiB |

Every cfg of a passing run satisfies the hypotheses of the properties it checks
(`recovery.cfg` has one window, so remote pages in it are no second kind of page).

**MachineProofs.** `Sound(st)` is the inductive invariant of `state.json`: the
type, pointers distinct, `versions` exactly the referenced seqs, trial above the
watermark and committed not, nothing blacklisted staged or tried, strikes 0 or 1
and only on a trial. It does not depend on fairness, on the page or on what is on
disk. Inside `resolve_boot` the steps break the part about `versions` and rejoin it
at the last one, hence the weaker `Loose`, kept by steps 1 to 4, one lemma each.
Each transition keeps `Sound` (`ResolveBootSound`, `AckSound`, and lemmas for arm,
discard, stage, reset). A second set of lemmas (`LetsGo`) says that no transition but
`stage` refers to anything new, that what stays referenced keeps its metadata, and
that what is returned to be deleted is exactly of what was let go; `DirectoryProofs`
rests on it.

**HotUpdateProofs.** `Typed` (types, `Sound(disk)`, and `JobsTyped`: a run past
the gate has its metadata, one past the choice of a number has that) is inductive for
`Next`, one lemma per group of actions. Types alone are not: what a
handler writes is well typed only because the state it read was sound. `CallsVersioned` (a
thread about to swap has the version it read) comes next to it. From it:
`TypeCorrect`, `PointersStayDistinct`, `MetadataStaysTracked`, `TrialStaysNew`.

**PointerProofs.** `StateImplementsPointer` is the refinement. A step of the system
does one of seven things to `state.json` (`DiskMoves`, lemma `StepMoves`): nothing,
`resolve_boot`, `ack`, arm, discard, stage or clear. Per transition one lemma says
what it does to the abstract variables (`TrialResolved` and `BootView` for boot,
`AckView`, `ArmView`, `DiscardView`, `StageView`), and `PointerStep` maps each to a
step of `TrialPointer` or a stutter. `Sound` is what makes it work: `BootView` needs
strikes to be 0 or 1 on a trial, `AckView` that the pointers are distinct, or the
metadata `ack` drops could be that of the new commit. From the same seven cases:
`MemoryGrows`; `CommittedSurvives`, which also needs `AckedFirst` (an ack in flight
has set `page_acked`); and `BootCollectsAll`.

One run at a time: `Serial` (two runs are never both inside `update_lock`) is
inductive, and with it `JobsMove` says what a step does to the runs. What one run is
working on passed the gate under the lock, and nobody else can stage it since
(`WorkStep`): `RunsDoNotRepeat`.

**MarkerProofs.** `ServedIsMarked`: outside a reset, whatever a process serves is
already under `booting` or `committed` in `state.json`. The invariant alone is not
inductive, because `apply` swaps after its save and takes no gate. It is
strengthened by `GateHeld` (who can hold the gate), `ArmedMarked` (a call between
save and swap names the bundle on trial, and there is one) and `AckMarked` (an ack
in flight is about the committed bundle or about the trial that is still served).
A step either leaves all of this alone or is one of seven (`StepServes`).
`RecoveryYields` follows from `GateHeld` and the gate. `Reported` adds that the
metadata of what is served, or about to be, is above the shell, and gives
`ServedIsRecorded` and `ServedIsNewer`. `Ran` says that an ack in flight names a
bundle that ran, and that what is served ran once a page is up and
`reload_pending` is off; it gives `CommitsWhatRan`. `ToReload` (while acks are ignored,
a window with a page of the app is still on recovery's list) gives `AcksAreHeard`.

**DirectoryProofs.** A handler lists what to delete under the write lock and deletes
later, so that `ReferencedOnDisk` and `EffectsSafe` are about ownership. A directory
is in use (referenced, or just renamed by the pipeline), or waits in the list of
exactly one holder, a thread or the pipeline (`Holders`, `Pending`), or is left for
boot GC; what a transition lets go of passes
from the first to the second, and nothing passes back: `Kept` (with: the
number a run has chosen stays free until the rename, which needs `Serial`),
`Deleting` and `RunEnds`, inductive on top of `Typed`. Were a directory on two lists, one thread
could delete it, the pipeline reuse its number, and the other delete the new bundle:
hence the clause of `Deleting` that lists are disjoint. `DeletesSpareReferenced`
holds with resets and lost state files too: they cost completeness (`torn_bundle`),
never a directory that is still named. That the *served* directory is spared needs
more when `state.json` is lost under the process, since then no pointer names it:
`Spared` says that what is served, armed or about to be acked is named or `Stray`
(on disk, unused, on no list), and the one direction in which directories pass on
(`HandsOn`) keeps a stray a stray. It gives `DeletesAreSafe` and `ServedStaysOnDisk`.

**HistoryProofs.** `TwoChancesOnly` and `BlacklistNeedsTwo`, without hypotheses. A
boot re-arms the trial with its first strike or arms another with none
(`BootTrial`); nothing done in a session re-arms (`SessionTrial`); so the count in
`state.json` follows the armings through kills, launches that cannot save, commits
and resets. `TwoChances` is inductive given `Typed`.

**AssetsProofs.** A request changes nothing of the rest, so invariants of `Spec` are
invariants of `AssetsSpec`. `Answering` is the inductive invariant: while it is answered
a request has a candidate left, the last of which the embedded frontend has; and as
long as serving has not moved, what it found in the served bundle, or did not find, is
still so (`Found`). From it `EveryRequestIsAnswered` and `HashesGoWithKey`, under any
faults, resets and switches. `MixedPagesAreReloaded` is about time instead of one
request: `Behind` (a window's page of the app is of the bundle served, or recovery has
just switched and has this window on its list) and `GotFrom` (an answer is taken from
the page's bundle, from the one served now or from the embedded frontend).
`PagesMove` says in which of three ways a step touches pages, serving and the list;
that only recovery's switch moves serving is where `GateHeld` and the missing `apply`
come in.

**AcquireProofs.** `CapsAlwaysHold` and `StagedStaysOneRelease` from `ChannelInv`:
types; what each step of a run knows (`RunKnows`: the manifest it holds was
published; once past verification its key is trusted; when unpacking, the body is
the whole archive that manifest names); and the extraction invariant, in which the
bytes written plus the bytes the reader may still give are within the stream cap.
The properties alone are not inductive: `StagedIsOneRelease` says nothing of a run
that is about to stage, nor `CapsHold` of the budget left. `RunShows` (how much was
downloaded and shown at each step) gives `CompleteDownloadsShow100`, `Gated` (past
the gate the shell is not below the base) gives `StagedFitsShell`.
`OnlyAcceptableDelivered` and `AcceptableNeverRefused` say that the loop, which
counts with a saturating sum, a reader that runs dry in the middle and early
returns, judges every archive as its true sums do. Their invariant `Judged` relates
the counters to the sums of the entries done (`Counted`), so that a refusal on a
prefix condemns the whole (`NotAcceptable`) and `saturating_add` never hides a sum
above the cap (`BudgetIsTrue`). The library's induction rules cannot be used here;
induction over the archive goes through the least counterexample instead
(`LeastNatural`, from `WFMin`; `UpTo`), which gives `TotalsFacts`: the recursion of
`Totals` is well founded and its sums grow.

Only model-checked: the liveness properties `RecoveryEnds`, `TrialEnds` and `LastReleaseArrives`, since the prover has no
rules for fairness with `ENABLED`.

## 5. What is not modelled

Cryptography, URLs, JSON and the string checks of `validate` and of path
building; wording; configuration parsing; the tool's command line, key files and
its refusal of an empty dist directory; reading an archive file while it is
being overwritten within one response (a response is the file at the moment of
the request, which may be a part of it); a manifest read half written (its
signature cannot match); PAX records as such (they are bytes of an entry's
`head`; `declared` is the size field of its own header, which is what the budget
counts, and its `data` is of any length). In `HotUpdate` versions are numbers; prerelease and build
metadata are in `Acquire`. `check` and `current_bundle` change nothing and have no
action. A power loss that keeps a rename but loses file contents is excluded:
every file is fsynced before its rename. Errors, guest bindings, capability files
and test support have no state of their own.

## 6. Plan

Done, in this order: Machine, Store, Runtime, Update, Recovery, HotUpdate, the
runs, TrialHistory, the proofs of types, soundness and the marker; then
TrialPointer and its refinement, Assets, Semver, Extract and Acquire; then the
proofs of every safety and action property that a passing run checks.

Next models: one hash published under two versions;
`Update` shown to implement `Acquire`'s pipeline; a timed transfer, once the client
has a read timeout to model.

Next proofs: the positive side of the findings (what `apply_staged` discards when
nothing is staged in between, what `reset` deletes when recovery is off); that a
failed run of the pipeline leaves `state.json` as it was; that what is staged passes
the gates it passed for as long as it waits.
