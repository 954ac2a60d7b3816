------------------------------ MODULE Machine ------------------------------
(***************************************************************************)
(* The rollback pointer of src/machine.rs: what state.json holds and every *)
(* pure transition on it.  Nothing here does I/O; a transition returns the *)
(* new state and the set of bundle directories the caller should delete    *)
(* (the code's Vec<Effect>).                                               *)
(*                                                                         *)
(* Bundles are numbered by seq.  Semver versions are positive numbers, an  *)
(* archive's sha256 is a member of Hashes.  The code's `None` is 0 for a   *)
(* pointer, a version or a base; Absent stands for "no such key".          *)
(***************************************************************************)
EXTENDS Integers

CONSTANTS
    Seqs,       \* bundle numbers the store may give out
    Versions,   \* bundle and shell versions
    Hashes,     \* archive hashes
    Absent      \* no metadata, or no directory, under a seq

ASSUME SeqsAssumption == Seqs \subseteq Nat \ {0}
ASSUME VersionsAssumption == Versions \subseteq Nat \ {0}

NoSeq == 0
Embedded == 0       \* Active::Embedded; Active::Ota(seq) is seq itself
NoVersion == 0
NoBase == 0         \* no baseVersion in the manifest
InvalidBase == -1   \* a baseVersion that is not a semver

BundleMeta == [version        : Versions,
               archive_sha256 : Hashes,
               base_version   : Versions \cup {NoBase, InvalidBase}]

ASSUME AbsentAssumption == Absent \notin BundleMeta

Pointer == Seqs \cup {NoSeq}

State == [committed        : Pointer,
          last_good        : Pointer,
          staged           : Pointer,
          booting          : Pointer,
          booting_strikes  : Nat,
          failed           : SUBSET Hashes,
          max_version_seen : Versions \cup {NoVersion},
          versions         : [Seqs -> BundleMeta \cup {Absent}]]

Default == [committed        |-> NoSeq,
            last_good        |-> NoSeq,
            staged           |-> NoSeq,
            booting          |-> NoSeq,
            booting_strikes  |-> 0,
            failed           |-> {},
            max_version_seen |-> NoVersion,
            versions         |-> [seq \in Seqs |-> Absent]]

Referenced(st) == {st.committed, st.last_good, st.staged, st.booting} \ {NoSeq}

Recorded(st) == {seq \in Seqs : st.versions[seq] # Absent}

MaxVersion(a, b) == IF a < b THEN b ELSE a

(***************************************************************************)
(* The gates a staged bundle passes before it is armed.                    *)
(***************************************************************************)
BaseRefused(meta, shell) ==
    \/ meta.base_version = InvalidBase
    \/ meta.base_version # NoBase /\ shell > meta.base_version

\* Mutant: a twin of a blacklisted archive, staged before the hash was
\* blacklisted, is armed after it.
ArmableUnchecked(st, shell, present, watermark) ==
    /\ st.staged \in present
    /\ st.versions[st.staged] # Absent
    /\ ~BaseRefused(st.versions[st.staged], shell)
    /\ st.versions[st.staged].version > watermark

Armable(st, shell, present, watermark) ==
    /\ st.staged \in present
    /\ st.versions[st.staged] # Absent
    /\ ~BaseRefused(st.versions[st.staged], shell)
    /\ st.versions[st.staged].archive_sha256 \notin st.failed
    /\ st.versions[st.staged].version > watermark

\* Mutant: the staged pointer is copied, not taken.
ArmWithoutTaking(st) ==
    [st EXCEPT !.booting = st.staged, !.booting_strikes = 0]

Arm(st) ==
    [st EXCEPT !.booting = st.staged, !.staged = NoSeq, !.booting_strikes = 0]

(***************************************************************************)
(* resolve_boot, step by step.                                             *)
(***************************************************************************)
\* Mutant: a rollback goes all the way to the embedded frontend.
DropTrialToEmbedded(st) ==
    [st EXCEPT !.booting = NoSeq, !.booting_strikes = 0,
               !.committed = NoSeq, !.last_good = NoSeq]

DropTrial(st) == [st EXCEPT !.booting = NoSeq, !.booting_strikes = 0]

\* The embedded frontend has caught up with the bundle on trial.
Superseded(st, shell) ==
    /\ st.versions[st.booting] # Absent
    /\ st.versions[st.booting].version <= shell

\* The first miss: still recorded and on disk.
OneMoreChance(st, present) ==
    /\ st.booting_strikes = 0
    /\ st.booting \in present
    /\ st.versions[st.booting] # Absent

Blacklist(st, seq) ==
    [st EXCEPT !.failed = @ \cup {m.archive_sha256 :
                                  m \in {st.versions[seq]} \ {Absent}}]

\* Mutant: the first miss already blacklists.
ResolveTrialOneStrike(st, shell, present) ==
    IF st.booting = NoSeq THEN st
    ELSE IF Superseded(st, shell) THEN DropTrial(st)
    ELSE DropTrial(Blacklist(st, st.booting))

\* Mutant: the re-arm forgets to count the miss.
ResolveTrialNoCount(st, shell, present) ==
    IF st.booting = NoSeq THEN st
    ELSE IF Superseded(st, shell) THEN DropTrial(st)
    ELSE IF OneMoreChance(st, present) THEN st
    ELSE DropTrial(Blacklist(st, st.booting))

\* Step 1: the bundle armed last launch was never acked.
ResolveTrial(st, shell, present) ==
    IF st.booting = NoSeq THEN st
    ELSE IF Superseded(st, shell) THEN DropTrial(st)
    ELSE IF OneMoreChance(st, present) THEN [st EXCEPT !.booting_strikes = 1]
    ELSE DropTrial(Blacklist(st, st.booting))

\* Mutant: the watermark follows the shell, down as well as up.
FoldWatermarkDown(st, shell) == [st EXCEPT !.max_version_seen = shell]

\* Step 2: the embedded version enters the watermark.
FoldWatermark(st, shell) ==
    [st EXCEPT !.max_version_seen = MaxVersion(@, shell)]

OtaBeatsEmbedded(st, seq, shell, present) ==
    /\ seq \in present
    /\ st.versions[seq] # Absent
    /\ st.versions[seq].version > shell

KeepIfNewer(st, seq, shell, present) ==
    IF seq # NoSeq /\ OtaBeatsEmbedded(st, seq, shell, present)
    THEN seq ELSE NoSeq

\* Mutant: a committed bundle is kept whatever the new shell embeds.
DropStaleNever(st, shell, present) == st

\* Step 3: a committed bundle the shell caught up with, or whose directory
\* vanished, is dropped.
DropStale(st, shell, present) ==
    [st EXCEPT !.committed = KeepIfNewer(st, @, shell, present),
               !.last_good = KeepIfNewer(st, @, shell, present)]

\* Step 4: the staged bundle goes on trial, or is discarded; it waits while
\* a re-armed trial occupies `booting`.
PromoteAtBoot(st, shell, present) ==
    IF st.booting # NoSeq \/ st.staged = NoSeq THEN st
    ELSE IF Armable(st, shell, present, st.max_version_seen) THEN Arm(st)
    ELSE [st EXCEPT !.staged = NoSeq]

\* Step 6: metadata nobody points at is dropped.
CollectGarbage(st) ==
    [st EXCEPT !.versions = [seq \in Seqs |->
        IF seq \in Referenced(st) THEN st.versions[seq] ELSE Absent]]

\* Steps 1 to 6 in order.
ResolveBoot(st, shell, present) ==
    LET tried    == ResolveTrial(st, shell, present)
        folded   == FoldWatermark(tried, shell)
        fresh    == DropStale(folded, shell, present)
        promoted == PromoteAtBoot(fresh, shell, present)
    IN  CollectGarbage(promoted)

\* Step 5: what a state serves (NoSeq is Embedded).
ActiveOf(st) == IF st.booting # NoSeq THEN st.booting ELSE st.committed

\* Step 6: the directories the resolved state no longer points at.
BootEffects(resolved, present) == present \ Referenced(resolved)

(***************************************************************************)
(* ack: `booted` is what the process serves.                               *)
(***************************************************************************)
Commit(st) ==
    [st EXCEPT
        !.booting          = NoSeq,
        !.booting_strikes  = 0,
        !.committed        = st.booting,
        !.last_good        = st.booting,
        !.max_version_seen =
            IF st.versions[st.booting] = Absent THEN @
            ELSE MaxVersion(@, st.versions[st.booting].version)]

Superfluous(st, prev) == {prev} \ (Referenced(st) \cup {NoSeq})

Forget(st, seqs) ==
    [st EXCEPT !.versions = [seq \in Seqs |->
        IF seq \in seqs THEN Absent ELSE st.versions[seq]]]

\* Mutant: the watermark does not follow the commit.
AckKeepingWatermark(st, booted) ==
    IF booted = Embedded \/ st.booting # booted
    THEN [state |-> st, effects |-> {}]
    ELSE LET done == [Commit(st) EXCEPT !.max_version_seen = st.max_version_seen]
             gone == Superfluous(done, st.committed)
         IN  [state |-> Forget(done, gone), effects |-> gone]

\* Mutant: the acked bundle is deleted instead of the one it replaces.
AckDeletingWrong(st, booted) ==
    IF booted = Embedded \/ st.booting # booted
    THEN [state |-> st, effects |-> {}]
    ELSE [state |-> Forget(Commit(st), Superfluous(Commit(st), st.committed)),
          effects |-> {booted}]

Ack(st, booted) ==
    IF booted = Embedded \/ st.booting # booted
    THEN [state |-> st, effects |-> {}]
    ELSE LET gone == Superfluous(Commit(st), st.committed)
         IN  [state |-> Forget(Commit(st), gone), effects |-> gone]

(***************************************************************************)
(* promote_staged: arming in the running process.                          *)
(***************************************************************************)
PromoteDecision(st, shell, present) ==
    IF st.booting # NoSeq THEN "TrialPending"
    ELSE IF st.staged = NoSeq THEN "NothingStaged"
    ELSE IF Armable(st, shell, present, MaxVersion(st.max_version_seen, shell))
         THEN "Applied"
    ELSE "Discarded"

\* A bundle promote_staged gives up: forgotten, and deleted if it was seen.
Discard(st, present) ==
    [state   |-> Forget([st EXCEPT !.staged = NoSeq], {st.staged}),
     effects |-> {st.staged} \cap present]

(***************************************************************************)
(* stage and reset.                                                        *)
(***************************************************************************)
StageRefused(st, seq, meta) ==
    \/ meta.version <= st.max_version_seen
    \/ meta.archive_sha256 \in st.failed
    \/ seq \in Referenced(st) \cup Recorded(st)

\* Mutant: the replaced bundle's metadata stays behind.
StageLeaking(st, seq, meta) ==
    [state   |-> [st EXCEPT !.staged = seq, !.versions[seq] = meta],
     effects |-> {st.staged} \ {NoSeq}]

Stage(st, seq, meta) ==
    [state   |-> [Forget(st, {st.staged}) EXCEPT !.staged = seq,
                                                 !.versions[seq] = meta],
     effects |-> {st.staged} \ {NoSeq}]

Reset(st, shell, active) ==
    [state   |-> [Default EXCEPT !.max_version_seen = shell],
     effects |-> Recorded(st) \ {active}]
=============================================================================
