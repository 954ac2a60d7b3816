--------------------------- MODULE MachineProofs ---------------------------
(***************************************************************************)
(* Every transition of Machine keeps state.json sound, for any number of   *)
(* bundles, versions and hashes, any shell and any set of directories.     *)
(***************************************************************************)
EXTENDS Machine, TLAPS

(***************************************************************************)
(* The invariant of the persisted state.                                   *)
(***************************************************************************)
Distinct(st) ==
    /\ st.last_good = st.committed
    /\ st.staged # NoSeq => st.staged # st.committed /\ st.staged # st.booting
    /\ st.booting # NoSeq => st.booting # st.committed

\* Every bundle a pointer names has metadata.
Known(st) ==
    /\ st.committed # NoSeq => st.versions[st.committed] # Absent
    /\ st.staged # NoSeq => st.versions[st.staged] # Absent
    /\ st.booting # NoSeq => st.versions[st.booting] # Absent

\* Nothing else has.
NoLeak(st) ==
    \A seq \in Seqs :
        st.versions[seq] # Absent =>
            seq = st.committed \/ seq = st.staged \/ seq = st.booting

TrialNew(st) ==
    st.booting # NoSeq =>
        /\ st.versions[st.booting].version > st.max_version_seen
        /\ st.versions[st.booting].archive_sha256 \notin st.failed

StagedClean(st) ==
    st.staged # NoSeq => st.versions[st.staged].archive_sha256 \notin st.failed

CommittedSeen(st) ==
    st.committed # NoSeq =>
        st.versions[st.committed].version <= st.max_version_seen

StrikesOK(st) ==
    /\ st.booting_strikes \in {0, 1}
    /\ st.booting = NoSeq => st.booting_strikes = 0

\* What holds between the steps of resolve_boot.
Loose(st) ==
    /\ st \in State
    /\ Distinct(st)
    /\ Known(st)
    /\ TrialNew(st)
    /\ st.booting # NoSeq => StagedClean(st)
    /\ CommittedSeen(st)
    /\ StrikesOK(st)

Sound(st) == Loose(st) /\ StagedClean(st) /\ NoLeak(st)

(***************************************************************************)
(* Types.                                                                  *)
(***************************************************************************)
LEMMA MetaFacts ==
    ASSUME NEW m \in BundleMeta
    PROVE  /\ m.version \in Nat
           /\ m.version > 0
           /\ m.version \in Versions
           /\ m.archive_sha256 \in Hashes
<1>1. m.version \in Versions /\ m.archive_sha256 \in Hashes
    BY DEF BundleMeta
<1>2. m.version \in Nat \ {0}
    BY <1>1, VersionsAssumption DEF VersionsAssumption
<1>3. QED
    BY <1>1, <1>2

LEMMA WatermarkIsNat == \A v \in Versions \cup {NoVersion} : v \in Nat
BY VersionsAssumption DEF VersionsAssumption, NoVersion

LEMMA StateFacts ==
    ASSUME NEW st \in State
    PROVE  /\ st.max_version_seen \in Nat
           /\ NoSeq \notin Seqs
           /\ \A seq \in Seqs : st.versions[seq] # Absent =>
                  /\ st.versions[seq] \in BundleMeta
                  /\ st.versions[seq].version \in Versions
                  /\ st.versions[seq].version \in Nat
                  /\ st.versions[seq].archive_sha256 \in Hashes
<1>1. st.max_version_seen \in Nat
    <2>1. st.max_version_seen \in Versions \cup {NoVersion}
        BY DEF State
    <2>2. QED
        BY <2>1, WatermarkIsNat
<1>2. NoSeq \notin Seqs
    BY SeqsAssumption DEF SeqsAssumption, NoSeq
<1>3. \A seq \in Seqs : st.versions[seq] # Absent =>
          st.versions[seq] \in BundleMeta
    BY DEF State
<1>4. QED
    BY <1>1, <1>2, <1>3, MetaFacts

LEMMA DropTrialType ==
    ASSUME NEW st \in State
    PROVE  /\ DropTrial(st) \in State
           /\ DropTrial(st).booting = NoSeq
<1>1. DropTrial(st) = [st EXCEPT !.booting = NoSeq, !.booting_strikes = 0]
    BY DEF DropTrial
<1>2. NoSeq \in Pointer /\ 0 \in Nat
    BY DEF Pointer
<1>3. QED
    BY <1>1, <1>2 DEF State

LEMMA MaxVersionFacts ==
    ASSUME NEW a \in Versions \cup {NoVersion}, NEW b \in Versions \cup {NoVersion}
    PROVE  /\ MaxVersion(a, b) \in {a, b}
           /\ MaxVersion(a, b) >= a
           /\ MaxVersion(a, b) >= b
BY VersionsAssumption DEF VersionsAssumption, MaxVersion, NoVersion

\* A fresh install, and a lost state.json, are sound.
LEMMA DefaultSound == Sound(Default)
<1>1. Default \in State
    BY DEF Default, State, Pointer, NoSeq, NoVersion
<1>2. QED
    BY <1>1 DEF Sound, Loose, Default, Distinct, Known, NoLeak, TrialNew,
                StagedClean, CommittedSeen, StrikesOK, NoSeq

(***************************************************************************)
(* resolve_boot.                                                           *)
(***************************************************************************)
LEMMA ResolveTrialLoose ==
    ASSUME NEW st, Sound(st),
           NEW shell \in Versions, NEW present \in SUBSET Seqs
    PROVE  LET tried == ResolveTrial(st, shell, present)
           IN  /\ Loose(tried)
               /\ tried.booting # NoSeq =>
                      tried.versions[tried.booting].version > shell
<1> DEFINE tried == ResolveTrial(st, shell, present)
<1> st \in State /\ shell \in Nat
    BY VersionsAssumption DEF VersionsAssumption, Sound, Loose
<1>1. CASE st.booting = NoSeq
    BY <1>1 DEF ResolveTrial, Sound, Loose
<1>2. CASE st.booting # NoSeq /\ Superseded(st, shell)
    <2>1. tried = DropTrial(st)
        BY <1>2 DEF ResolveTrial
    <2>2. tried \in State
        BY <2>1, DropTrialType
    <2>3. QED
        BY <2>1, <2>2 DEF DropTrial, State, Sound, Loose, Distinct, Known,
           TrialNew, StagedClean, CommittedSeen, StrikesOK, NoSeq
<1>3. CASE st.booting # NoSeq /\ ~Superseded(st, shell) /\ OneMoreChance(st, present)
    <2>1. tried = [st EXCEPT !.booting_strikes = 1]
        BY <1>3 DEF ResolveTrial
    <2>2. tried \in State
        BY <2>1 DEF State
    <2>3. Loose(tried)
        BY <1>3, <2>1, <2>2 DEF State, Sound, Loose, Distinct, Known,
           TrialNew, StagedClean, CommittedSeen, StrikesOK
    <2>4. st.booting \in Seqs
        BY <1>3 DEF State, Pointer
    <2>5. st.versions[st.booting].version > shell
        BY <1>3, <2>4, StateFacts DEF Superseded, OneMoreChance
    <2>6. QED
        BY <2>1, <2>3, <2>5 DEF State
<1>4. CASE st.booting # NoSeq /\ ~Superseded(st, shell) /\ ~OneMoreChance(st, present)
    <2>1. tried = DropTrial(Blacklist(st, st.booting))
        BY <1>4 DEF ResolveTrial
    <2>2. st.booting \in Seqs
        BY <1>4 DEF State, Pointer
    <2>3. {m.archive_sha256 : m \in {st.versions[st.booting]} \ {Absent}} \subseteq Hashes
        BY <2>2, StateFacts
    <2>4. st.failed \cup {m.archive_sha256 : m \in {st.versions[st.booting]} \ {Absent}}
              \in SUBSET Hashes
        BY <2>3 DEF State
    <2>5. Blacklist(st, st.booting) \in State
        BY <2>4 DEF Blacklist, State
    <2>6. tried \in State
        BY <2>1, <2>5, DropTrialType
    <2>7. QED
        BY <2>1, <2>6 DEF DropTrial, Blacklist, State, Sound, Loose, Distinct,
           Known, TrialNew, StagedClean, CommittedSeen, StrikesOK, NoSeq
<1>5. QED
    BY <1>1, <1>2, <1>3, <1>4

LEMMA FoldWatermarkLoose ==
    ASSUME NEW st, Loose(st), NEW shell \in Versions,
           st.booting # NoSeq => st.versions[st.booting].version > shell
    PROVE  Loose(FoldWatermark(st, shell))
<1> DEFINE folded == FoldWatermark(st, shell)
<1> st \in State
    BY DEF Loose
<1>1. folded \in State
    BY MaxVersionFacts DEF FoldWatermark, State
<1>2. folded.max_version_seen = MaxVersion(st.max_version_seen, shell)
    BY DEF FoldWatermark, State
<1>3. st.max_version_seen \in Versions \cup {NoVersion}
    BY DEF State
<1>4. TrialNew(folded)
    BY <1>2, <1>3, MaxVersionFacts DEF FoldWatermark, State, Loose, TrialNew
<1>5. CommittedSeen(folded)
    <2>1. SUFFICES ASSUME st.committed # NoSeq
                   PROVE  st.versions[st.committed].version <= folded.max_version_seen
        BY DEF FoldWatermark, State, CommittedSeen
    <2>2. st.committed \in Seqs /\ st.versions[st.committed] # Absent
        BY <2>1 DEF Loose, Known, State, Pointer
    <2>3. st.versions[st.committed].version \in Nat
        BY <2>2, StateFacts
    <2>4. st.versions[st.committed].version <= st.max_version_seen
        BY <2>1 DEF Loose, CommittedSeen
    <2>5. folded.max_version_seen >= st.max_version_seen
        BY <1>2, <1>3, MaxVersionFacts
    <2>6. st.max_version_seen \in Nat /\ folded.max_version_seen \in Nat
        BY <1>1, StateFacts
    <2>7. QED
        BY <2>3, <2>4, <2>5, <2>6
<1>6. QED
    BY <1>1, <1>4, <1>5 DEF FoldWatermark, State, Loose, Distinct, Known,
       StagedClean, StrikesOK

LEMMA DropStaleLoose ==
    ASSUME NEW st, Loose(st), NEW shell \in Versions,
           NEW present \in SUBSET Seqs
    PROVE  Loose(DropStale(st, shell, present))
<1> DEFINE fresh == DropStale(st, shell, present)
<1> st \in State
    BY DEF Loose
<1>1. /\ fresh.committed \in {st.committed, NoSeq}
      /\ fresh.last_good = fresh.committed
      /\ fresh = [st EXCEPT !.committed = fresh.committed,
                            !.last_good = fresh.committed]
    BY DEF DropStale, KeepIfNewer, Loose, Distinct, State
<1>2. fresh \in State
    BY <1>1 DEF State, Pointer
<1>3. QED
    BY <1>1, <1>2 DEF State, Loose, Distinct, Known, TrialNew, StagedClean,
       CommittedSeen, StrikesOK

\* Armed at boot: the gates were asked against the folded watermark.
LEMMA ArmLoose ==
    ASSUME NEW st, Loose(st), NEW shell, NEW present \in SUBSET Seqs,
           NEW watermark \in Nat, watermark >= st.max_version_seen,
           st.booting = NoSeq, st.staged # NoSeq,
           Armable(st, shell, present, watermark)
    PROVE  /\ Loose(Arm(st))
           /\ Arm(st).staged = NoSeq
           /\ Arm(st).booting = st.staged
<1> DEFINE armed == Arm(st)
<1> st \in State
    BY DEF Loose
<1>1. /\ armed.staged = NoSeq
      /\ armed.booting = st.staged
      /\ armed.booting_strikes = 0
      /\ armed.committed = st.committed
      /\ armed.last_good = st.last_good
      /\ armed.failed = st.failed
      /\ armed.max_version_seen = st.max_version_seen
      /\ armed.versions = st.versions
    BY DEF Arm, State
<1>2. armed \in State
    BY DEF Arm, State, Pointer
<1>3. st.staged \in Seqs
    BY DEF State, Pointer
<1>4. TrialNew(armed)
    <2>1. st.versions[st.staged] # Absent /\ st.versions[st.staged].version > watermark
        BY DEF Armable
    <2>2. st.versions[st.staged].version \in Nat /\ st.max_version_seen \in Nat
        BY <1>3, <2>1, StateFacts
    <2>3. st.versions[st.staged].version > st.max_version_seen
        BY <2>1, <2>2
    <2>4. QED
        BY <1>1, <2>3 DEF TrialNew, Armable
<1>5. QED
    BY <1>1, <1>2, <1>4 DEF Loose, Distinct, Known, StagedClean, CommittedSeen,
       StrikesOK, NoSeq

LEMMA PromoteAtBootLoose ==
    ASSUME NEW st, Loose(st), NEW shell \in Versions,
           NEW present \in SUBSET Seqs
    PROVE  LET promoted == PromoteAtBoot(st, shell, present)
           IN  /\ Loose(promoted)
               /\ StagedClean(promoted)
<1> DEFINE promoted == PromoteAtBoot(st, shell, present)
<1> st \in State
    BY DEF Loose
<1>1. CASE st.booting # NoSeq \/ st.staged = NoSeq
    BY <1>1 DEF PromoteAtBoot, Loose, StagedClean
<1>2. CASE /\ st.booting = NoSeq /\ st.staged # NoSeq
           /\ Armable(st, shell, present, st.max_version_seen)
    <2>1. promoted = Arm(st)
        BY <1>2 DEF PromoteAtBoot
    <2>2. st.max_version_seen \in Nat
        BY StateFacts
    <2>3. Loose(promoted) /\ promoted.staged = NoSeq
        BY <1>2, <2>1, <2>2, ArmLoose
    <2>4. QED
        BY <2>3 DEF StagedClean
<1>3. CASE /\ st.booting = NoSeq /\ st.staged # NoSeq
           /\ ~Armable(st, shell, present, st.max_version_seen)
    <2>1. promoted = [st EXCEPT !.staged = NoSeq]
        BY <1>3 DEF PromoteAtBoot
    <2>2. promoted \in State
        BY <2>1 DEF State, Pointer
    <2>3. QED
        BY <2>1, <2>2 DEF State, Loose, Distinct, Known, TrialNew, StagedClean,
           CommittedSeen, StrikesOK
<1>4. QED
    BY <1>1, <1>2, <1>3

LEMMA CollectGarbageSound ==
    ASSUME NEW st, Loose(st), StagedClean(st)
    PROVE  Sound(CollectGarbage(st))
<1> DEFINE kept == CollectGarbage(st)
<1> st \in State
    BY DEF Loose
<1>1. kept \in State
    BY DEF CollectGarbage, State
<1>2. /\ kept.committed = st.committed
      /\ kept.last_good = st.last_good
      /\ kept.staged = st.staged
      /\ kept.booting = st.booting
      /\ kept.booting_strikes = st.booting_strikes
      /\ kept.failed = st.failed
      /\ kept.max_version_seen = st.max_version_seen
    BY DEF CollectGarbage, State
<1>3. \A seq \in Seqs : kept.versions[seq] =
          IF seq \in Referenced(st) THEN st.versions[seq] ELSE Absent
    BY DEF CollectGarbage, State
<1>4. {st.committed, st.staged, st.booting} \subseteq Seqs \cup {NoSeq}
    BY DEF State, Pointer
<1>5. \A seq \in {st.committed, st.staged, st.booting} \ {NoSeq} :
          kept.versions[seq] = st.versions[seq]
    BY <1>3, <1>4 DEF Referenced
<1>6. NoLeak(kept)
    BY <1>2, <1>3 DEF NoLeak, Referenced, Loose, Distinct
<1>7. Distinct(kept) /\ Known(kept) /\ StrikesOK(kept)
    BY <1>2, <1>5 DEF Loose, Distinct, Known, StrikesOK
<1>8. TrialNew(kept) /\ StagedClean(kept) /\ CommittedSeen(kept)
    BY <1>2, <1>5 DEF Loose, TrialNew, StagedClean, CommittedSeen
<1>9. QED
    BY <1>1, <1>6, <1>7, <1>8 DEF Sound, Loose

\* Boot resolution, whatever shell starts on whatever directories, leaves a
\* sound state: a staged bundle is armed only through every gate, a trial
\* that is re-armed is still new, and no metadata leaks.
THEOREM ResolveBootSound ==
    ASSUME NEW st, Sound(st),
           NEW shell \in Versions, NEW present \in SUBSET Seqs
    PROVE  Sound(ResolveBoot(st, shell, present))
<1> DEFINE tried    == ResolveTrial(st, shell, present)
           folded   == FoldWatermark(tried, shell)
           fresh    == DropStale(folded, shell, present)
           promoted == PromoteAtBoot(fresh, shell, present)
<1> HIDE DEF tried, folded, fresh, promoted
<1>1. Loose(tried) /\ (tried.booting # NoSeq =>
                           tried.versions[tried.booting].version > shell)
    BY ResolveTrialLoose DEF tried
<1>2. Loose(folded)
    BY <1>1, FoldWatermarkLoose DEF folded
<1>3. Loose(fresh)
    BY <1>2, DropStaleLoose DEF fresh
<1>4. Loose(promoted) /\ StagedClean(promoted)
    BY <1>3, PromoteAtBootLoose DEF promoted
<1>5. Sound(CollectGarbage(promoted))
    BY <1>4, CollectGarbageSound
<1>6. QED
    BY <1>5 DEF ResolveBoot, tried, folded, fresh, promoted

(***************************************************************************)
(* promote_staged.                                                         *)
(***************************************************************************)
LEMMA ApplyArmSound ==
    ASSUME NEW st, Sound(st),
           NEW shell \in Versions, NEW present \in SUBSET Seqs,
           PromoteDecision(st, shell, present) = "Applied"
    PROVE  Sound(Arm(st))
<1> DEFINE watermark == MaxVersion(st.max_version_seen, shell)
<1> st \in State
    BY DEF Sound, Loose
<1>1. /\ st.booting = NoSeq
      /\ st.staged # NoSeq
      /\ Armable(st, shell, present, watermark)
    BY DEF PromoteDecision
<1>2. watermark \in Nat /\ watermark >= st.max_version_seen
    <2>1. st.max_version_seen \in Versions \cup {NoVersion}
        BY DEF State
    <2>2. QED
        BY <2>1, MaxVersionFacts, WatermarkIsNat
<1>3. Loose(Arm(st)) /\ Arm(st).staged = NoSeq /\ Arm(st).booting = st.staged
    BY <1>1, <1>2, ArmLoose DEF Sound
<1>4. Arm(st).committed = st.committed /\ Arm(st).versions = st.versions
    BY DEF Arm, State
<1>5. NoLeak(Arm(st))
    BY <1>1, <1>3, <1>4, StateFacts DEF NoLeak, Sound
<1>6. QED
    BY <1>3, <1>5 DEF Sound, StagedClean

\* What Forget leaves alone.
LEMMA ForgetFacts ==
    ASSUME NEW st \in State, NEW seqs
    PROVE  /\ Forget(st, seqs) \in State
           /\ Forget(st, seqs).committed = st.committed
           /\ Forget(st, seqs).last_good = st.last_good
           /\ Forget(st, seqs).staged = st.staged
           /\ Forget(st, seqs).booting = st.booting
           /\ Forget(st, seqs).booting_strikes = st.booting_strikes
           /\ Forget(st, seqs).failed = st.failed
           /\ Forget(st, seqs).max_version_seen = st.max_version_seen
           /\ \A seq \in Seqs : Forget(st, seqs).versions[seq] =
                  IF seq \in seqs THEN Absent ELSE st.versions[seq]
<1>1. [seq \in Seqs |-> IF seq \in seqs THEN Absent ELSE st.versions[seq]]
          \in [Seqs -> BundleMeta \cup {Absent}]
    BY DEF State
<1>2. QED
    BY <1>1 DEF Forget, State

LEMMA DiscardSound ==
    ASSUME NEW st, Sound(st), NEW present,
           st.staged # NoSeq
    PROVE  Sound(Discard(st, present).state)
<1> DEFINE dropped == [st EXCEPT !.staged = NoSeq]
           after   == Forget(dropped, {st.staged})
<1> st \in State
    BY DEF Sound, Loose
<1>1. /\ dropped \in State
      /\ dropped.staged = NoSeq
      /\ dropped.committed = st.committed
      /\ dropped.last_good = st.last_good
      /\ dropped.booting = st.booting
      /\ dropped.booting_strikes = st.booting_strikes
      /\ dropped.failed = st.failed
      /\ dropped.max_version_seen = st.max_version_seen
      /\ dropped.versions = st.versions
    BY DEF State, Pointer
<1> HIDE DEF dropped
<1>1a. /\ after \in State
      /\ after.staged = dropped.staged
      /\ after.committed = dropped.committed
      /\ after.last_good = dropped.last_good
      /\ after.booting = dropped.booting
      /\ after.booting_strikes = dropped.booting_strikes
      /\ after.failed = dropped.failed
      /\ after.max_version_seen = dropped.max_version_seen
      /\ \A seq \in Seqs : after.versions[seq] =
             IF seq \in {st.staged} THEN Absent ELSE dropped.versions[seq]
    BY <1>1, ForgetFacts
<1> HIDE DEF after
<1>2. /\ after \in State
      /\ after.staged = NoSeq
      /\ after.committed = st.committed
      /\ after.last_good = st.last_good
      /\ after.booting = st.booting
      /\ after.booting_strikes = st.booting_strikes
      /\ after.failed = st.failed
      /\ after.max_version_seen = st.max_version_seen
      /\ \A seq \in Seqs : after.versions[seq] =
             IF seq = st.staged THEN Absent ELSE st.versions[seq]
    BY <1>1a, <1>1
<1>3. st.committed \in Seqs \cup {NoSeq} /\ st.booting \in Seqs \cup {NoSeq}
    BY DEF State, Pointer
<1>4. /\ st.committed # NoSeq => after.versions[st.committed] = st.versions[st.committed]
      /\ st.booting # NoSeq => after.versions[st.booting] = st.versions[st.booting]
    BY <1>2, <1>3 DEF Sound, Loose, Distinct
<1>5. Distinct(after) /\ Known(after) /\ StrikesOK(after) /\ StagedClean(after)
    BY <1>2, <1>4 DEF Sound, Loose, Distinct, Known, StrikesOK, StagedClean
<1>6. TrialNew(after) /\ CommittedSeen(after)
    BY <1>2, <1>4 DEF Sound, Loose, TrialNew, CommittedSeen
<1>7. NoLeak(after)
    BY <1>2 DEF Sound, NoLeak
<1>8. Sound(after)
    BY <1>2, <1>5, <1>6, <1>7 DEF Sound, Loose
<1>9. QED
    BY <1>8 DEF Discard, after, dropped

(***************************************************************************)
(* ack.                                                                    *)
(***************************************************************************)
LEMMA CommitFacts ==
    ASSUME NEW st, Sound(st), st.booting # NoSeq
    PROVE  /\ Commit(st) \in State
           /\ Commit(st).committed = st.booting
           /\ Commit(st).last_good = st.booting
           /\ Commit(st).staged = st.staged
           /\ Commit(st).booting = NoSeq
           /\ Commit(st).booting_strikes = 0
           /\ Commit(st).failed = st.failed
           /\ Commit(st).versions = st.versions
           /\ Commit(st).max_version_seen >= st.versions[st.booting].version
<1> st \in State
    BY DEF Sound, Loose
<1>1. st.booting \in Seqs /\ st.versions[st.booting] # Absent
    BY DEF Sound, Loose, Known, State, Pointer
<1> DEFINE seen == MaxVersion(st.max_version_seen, st.versions[st.booting].version)
<1>2. st.max_version_seen \in Versions \cup {NoVersion}
    BY DEF State
<1>3. st.versions[st.booting].version \in Versions
    BY <1>1, StateFacts
<1>4. seen \in Versions \cup {NoVersion} /\ seen >= st.versions[st.booting].version
    BY <1>2, <1>3, MaxVersionFacts
<1> HIDE DEF seen
<1>5. Commit(st) = [st EXCEPT !.booting = NoSeq, !.booting_strikes = 0,
                              !.committed = st.booting, !.last_good = st.booting,
                              !.max_version_seen = seen]
    BY <1>1 DEF Commit, seen, State
<1>6. NoSeq \in Pointer /\ 0 \in Nat
    BY DEF Pointer
<1>7. QED
    BY <1>4, <1>5, <1>6 DEF State

\* An ack, of whatever the process serves, keeps the state sound: the bundle
\* it commits leaves trial with the watermark raised to it, and the one it
\* replaces is forgotten unless a pointer still names it.
THEOREM AckSound ==
    ASSUME NEW st, Sound(st), NEW booted
    PROVE  Sound(Ack(st, booted).state)
<1> st \in State
    BY DEF Sound, Loose
<1>1. CASE booted = Embedded \/ st.booting # booted
    BY <1>1 DEF Ack
<1>2. CASE booted # Embedded /\ st.booting = booted
    <2> DEFINE done  == Commit(st)
               gone  == Superfluous(done, st.committed)
               after == Forget(done, gone)
    <2>1. st.booting # NoSeq
        BY <1>2 DEF Embedded, NoSeq
    <2>2. /\ done \in State
          /\ done.committed = st.booting
          /\ done.last_good = st.booting
          /\ done.staged = st.staged
          /\ done.booting = NoSeq
          /\ done.booting_strikes = 0
          /\ done.failed = st.failed
          /\ done.versions = st.versions
          /\ done.max_version_seen >= st.versions[st.booting].version
        BY <2>1, CommitFacts
    <2>3. gone = {st.committed} \ ({st.booting, st.staged} \cup {NoSeq})
        BY <2>2 DEF Superfluous, Referenced
    <2> HIDE DEF done, gone
    <2>4. /\ after \in State
          /\ after.committed = st.booting
          /\ after.last_good = st.booting
          /\ after.staged = st.staged
          /\ after.booting = NoSeq
          /\ after.booting_strikes = 0
          /\ after.failed = st.failed
          /\ after.max_version_seen >= st.versions[st.booting].version
          /\ \A seq \in Seqs : after.versions[seq] =
                 IF seq \in gone THEN Absent ELSE st.versions[seq]
        BY <2>2, ForgetFacts
    <2> HIDE DEF after
    <2>5. st.staged \in Seqs \cup {NoSeq} /\ st.booting \in Seqs
        BY <2>1 DEF State, Pointer
    <2>6. /\ st.staged # NoSeq => after.versions[st.staged] = st.versions[st.staged]
          /\ after.versions[st.booting] = st.versions[st.booting]
        BY <2>3, <2>4, <2>5
    <2>7. Distinct(after) /\ Known(after) /\ StrikesOK(after)
        BY <2>1, <2>4, <2>6 DEF Sound, Loose, Distinct, Known, StrikesOK
    <2>8. TrialNew(after) /\ StagedClean(after)
        BY <2>4, <2>6 DEF Sound, TrialNew, StagedClean
    <2>9. CommittedSeen(after)
        <3>1. st.versions[st.booting].version \in Nat
            BY <2>1, <2>5, StateFacts DEF Sound, Loose, Known
        <3>2. after.max_version_seen \in Nat
            BY <2>4, StateFacts
        <3>3. QED
            BY <2>4, <2>6, <3>1, <3>2 DEF CommittedSeen
    <2>10. NoLeak(after)
        BY <2>3, <2>4, StateFacts DEF Sound, NoLeak
    <2>11. Sound(after)
        BY <2>4, <2>7, <2>8, <2>9, <2>10 DEF Sound, Loose
    <2>12. QED
        BY <1>2, <2>11 DEF Ack, after, gone, done
<1>3. QED
    BY <1>1, <1>2

(***************************************************************************)
(* stage and reset.                                                        *)
(***************************************************************************)
LEMMA StageSound ==
    ASSUME NEW st, Sound(st), NEW seq \in Seqs, NEW meta \in BundleMeta,
           ~StageRefused(st, seq, meta)
    PROVE  Sound(Stage(st, seq, meta).state)
<1> DEFINE less  == Forget(st, {st.staged})
           after == [less EXCEPT !.staged = seq, !.versions[seq] = meta]
<1> st \in State
    BY DEF Sound, Loose
<1>1. /\ seq \notin Referenced(st)
      /\ meta.archive_sha256 \notin st.failed
    BY DEF StageRefused
<1>2. seq # st.committed /\ seq # st.booting /\ seq # st.staged /\ seq # NoSeq
    BY <1>1, StateFacts DEF Referenced
<1>3. /\ less \in State
      /\ less.committed = st.committed
      /\ less.last_good = st.last_good
      /\ less.booting = st.booting
      /\ less.booting_strikes = st.booting_strikes
      /\ less.failed = st.failed
      /\ less.max_version_seen = st.max_version_seen
      /\ \A s \in Seqs : less.versions[s] =
             IF s \in {st.staged} THEN Absent ELSE st.versions[s]
    BY ForgetFacts
<1> HIDE DEF less
<1>4. /\ after.staged = seq
      /\ after.committed = st.committed
      /\ after.last_good = st.last_good
      /\ after.booting = st.booting
      /\ after.booting_strikes = st.booting_strikes
      /\ after.failed = st.failed
      /\ after.max_version_seen = st.max_version_seen
      /\ \A s \in Seqs : after.versions[s] =
             IF s = seq THEN meta ELSE less.versions[s]
    BY <1>3 DEF State
<1>5. after \in State
    BY <1>3 DEF State, Pointer
<1> HIDE DEF after
<1>6. st.committed \in Seqs \cup {NoSeq} /\ st.booting \in Seqs \cup {NoSeq}
    BY DEF State, Pointer
<1>7. /\ after.versions[seq] = meta
      /\ st.committed # NoSeq => after.versions[st.committed] = st.versions[st.committed]
      /\ st.booting # NoSeq => after.versions[st.booting] = st.versions[st.booting]
    BY <1>2, <1>3, <1>4, <1>6 DEF Sound, Loose, Distinct
<1>8. meta # Absent
    BY AbsentAssumption DEF AbsentAssumption
<1>9. Distinct(after) /\ Known(after) /\ StrikesOK(after)
    BY <1>2, <1>4, <1>7, <1>8 DEF Sound, Loose, Distinct, Known, StrikesOK
<1>10. TrialNew(after) /\ StagedClean(after) /\ CommittedSeen(after)
    BY <1>1, <1>4, <1>7 DEF Sound, Loose, TrialNew, StagedClean, CommittedSeen
<1>11. NoLeak(after)
    BY <1>3, <1>4 DEF Sound, NoLeak
<1>12. Sound(after)
    BY <1>5, <1>9, <1>10, <1>11 DEF Sound, Loose
<1>13. QED
    BY <1>12 DEF Stage, after, less

LEMMA ResetSound ==
    ASSUME NEW st, NEW shell \in Versions, NEW active
    PROVE  Sound(Reset(st, shell, active).state)
<1> DEFINE after == [Default EXCEPT !.max_version_seen = shell]
<1>1. Default \in State
    BY DefaultSound DEF Sound, Loose
<1>2. after \in State
    BY <1>1 DEF State
<1>3. /\ after.committed = NoSeq
      /\ after.last_good = NoSeq
      /\ after.staged = NoSeq
      /\ after.booting = NoSeq
      /\ after.booting_strikes = 0
      /\ \A seq \in Seqs : after.versions[seq] = Absent
    BY DEF Default
<1> HIDE DEF after
<1>4. Sound(after)
    BY <1>2, <1>3 DEF Sound, Loose, Distinct, Known, NoLeak, TrialNew,
       StagedClean, CommittedSeen, StrikesOK
<1>5. QED
    BY <1>4 DEF Reset, after

(***************************************************************************)
(* What a transition lets go of.  Its effects are deleted after the lock   *)
(* is released, so it matters which bundles they can name.                 *)
(***************************************************************************)
\* `after` refers to no bundle that st did not, nor to another in its place.
LetsGo(st, after) ==
    /\ Referenced(after) \subseteq Referenced(st)
    /\ \A seq \in Referenced(after) : after.versions[seq] = st.versions[seq]

LEMMA ReferencedType ==
    ASSUME NEW st \in State
    PROVE  Referenced(st) \subseteq Seqs /\ NoSeq \notin Referenced(st)
BY DEF Referenced, State, Pointer

\* Metadata is kept for the referenced bundles.
LEMMA RecordedIsReferenced ==
    ASSUME NEW st, Sound(st)
    PROVE  Recorded(st) = Referenced(st)
<1>1. st \in State /\ Distinct(st) /\ Known(st) /\ NoLeak(st)
    BY DEF Sound, Loose
<1>2. Referenced(st) \subseteq Seqs
    BY <1>1, ReferencedType
<1>3. QED
    BY <1>1, <1>2, StateFacts DEF Recorded, Referenced, Distinct, Known, NoLeak

LEMMA ArmLetsGo ==
    ASSUME NEW st, Sound(st)
    PROVE  LetsGo(st, Arm(st))
BY DEF Arm, LetsGo, Referenced, Sound, Loose, State

LEMMA AckLetsGo ==
    ASSUME NEW st, Sound(st), NEW booted
    PROVE  /\ LetsGo(st, Ack(st, booted).state)
           /\ Ack(st, booted).effects \subseteq
                  Referenced(st) \ Referenced(Ack(st, booted).state)
<1> DEFINE done  == Commit(st)
           gone  == Superfluous(done, st.committed)
           after == Forget(done, gone)
<1>1. CASE booted = Embedded \/ st.booting # booted
    BY <1>1 DEF Ack, LetsGo
<1>2. CASE ~(booted = Embedded \/ st.booting # booted)
    <2>1. st \in State /\ st.booting # NoSeq
        BY <1>2 DEF Embedded, NoSeq, Sound, Loose
    <2>2. /\ done \in State
          /\ done.committed = st.booting
          /\ done.last_good = st.booting
          /\ done.staged = st.staged
          /\ done.booting = NoSeq
          /\ done.versions = st.versions
        BY <2>1, CommitFacts
    <2>3. /\ gone \subseteq Referenced(st) \ Referenced(done)
          /\ Referenced(done) \subseteq Referenced(st)
        BY <2>1, <2>2 DEF Superfluous, Referenced
    <2> HIDE DEF done, gone
    <2>4. /\ Referenced(after) = Referenced(done)
          /\ \A seq \in Seqs : after.versions[seq] =
                 IF seq \in gone THEN Absent ELSE done.versions[seq]
        BY <2>2, ForgetFacts DEF Referenced
    <2>5. Referenced(done) \subseteq Seqs
        BY <2>2, ReferencedType
    <2>6. Ack(st, booted).state = after /\ Ack(st, booted).effects = gone
        BY <1>2 DEF Ack, after, gone, done
    <2> HIDE DEF after
    <2>7. QED
        BY <2>2, <2>3, <2>4, <2>5, <2>6 DEF LetsGo
<1>3. QED
    BY <1>1, <1>2

LEMMA DiscardLetsGo ==
    ASSUME NEW st, Sound(st), NEW present, st.staged # NoSeq
    PROVE  /\ LetsGo(st, Discard(st, present).state)
           /\ Discard(st, present).effects \subseteq
                  Referenced(st) \ Referenced(Discard(st, present).state)
<1> DEFINE dropped == [st EXCEPT !.staged = NoSeq]
           after   == Forget(dropped, {st.staged})
<1>1. st \in State /\ Distinct(st)
    BY DEF Sound, Loose
<1>2. /\ dropped \in State
      /\ dropped.committed = st.committed
      /\ dropped.last_good = st.last_good
      /\ dropped.staged = NoSeq
      /\ dropped.booting = st.booting
      /\ dropped.versions = st.versions
    BY <1>1 DEF State, Pointer
<1>3. /\ Referenced(dropped) = Referenced(st) \ {st.staged}
      /\ st.staged \in Referenced(st)
      /\ Referenced(dropped) \subseteq Seqs
    BY <1>1, <1>2, ReferencedType DEF Referenced, Distinct
<1> HIDE DEF dropped
<1>4. /\ Referenced(after) = Referenced(dropped)
      /\ \A seq \in Seqs : seq # st.staged =>
             after.versions[seq] = st.versions[seq]
    BY <1>2, ForgetFacts DEF Referenced
<1>5. after = Discard(st, present).state
    BY DEF Discard, dropped
<1> HIDE DEF after
<1>6. Discard(st, present).effects \subseteq {st.staged}
    BY DEF Discard
<1>7. QED
    BY <1>3, <1>4, <1>5, <1>6 DEF LetsGo

LEMMA ResetLetsGo ==
    ASSUME NEW st, Sound(st), NEW embedded, NEW active
    PROVE  /\ LetsGo(st, Reset(st, embedded, active).state)
           /\ Reset(st, embedded, active).effects \subseteq
                  Referenced(st) \ Referenced(Reset(st, embedded, active).state)
<1>1. Referenced(Reset(st, embedded, active).state) = {}
    BY DEF Reset, Default, Referenced
<1>2. Reset(st, embedded, active).effects \subseteq Referenced(st)
    BY RecordedIsReferenced DEF Reset
<1>3. QED
    BY <1>1, <1>2 DEF LetsGo

\* Staging refers to one more bundle, the new one, and lets go of the one
\* that was staged.
LEMMA StageLetsGo ==
    ASSUME NEW st, Sound(st), NEW seq \in Seqs, NEW meta \in BundleMeta,
           ~StageRefused(st, seq, meta)
    PROVE  LET after == Stage(st, seq, meta).state
           IN  /\ Referenced(after) \subseteq Referenced(st) \cup {seq}
               /\ after.versions[seq] = meta
               /\ \A other \in Referenced(after) \ {seq} :
                      after.versions[other] = st.versions[other]
               /\ Stage(st, seq, meta).effects \subseteq
                      Referenced(st) \ Referenced(after)
<1> DEFINE less  == Forget(st, {st.staged})
           after == [less EXCEPT !.staged = seq, !.versions[seq] = meta]
<1>1. st \in State /\ Distinct(st) /\ seq \notin Referenced(st)
    BY DEF Sound, Loose, StageRefused
<1>2. Referenced(st) \subseteq Seqs
    BY <1>1, ReferencedType
<1>3. /\ less \in State
      /\ less.committed = st.committed
      /\ less.last_good = st.last_good
      /\ less.booting = st.booting
      /\ \A s \in Seqs : less.versions[s] =
             IF s \in {st.staged} THEN Absent ELSE st.versions[s]
    BY <1>1, ForgetFacts
<1>4. Stage(st, seq, meta) = [state |-> after, effects |-> {st.staged} \ {NoSeq}]
    BY DEF Stage
<1> HIDE DEF less
<1>5. /\ after.committed = st.committed
      /\ after.last_good = st.last_good
      /\ after.staged = seq
      /\ after.booting = st.booting
      /\ after.versions[seq] = meta
      /\ \A s \in Seqs \ {seq} : after.versions[s] = less.versions[s]
    BY <1>3 DEF State
<1> HIDE DEF after
<1>6. /\ Referenced(after) = (Referenced(st) \ {st.staged}) \cup {seq}
      /\ st.staged # seq
    <2>1. seq # NoSeq
        BY StateFacts, <1>1
    <2>2. Referenced(after) = ({st.committed, st.booting} \cup {seq}) \ {NoSeq}
        BY <1>1, <1>5 DEF Referenced, Distinct
    <2>3. Referenced(st) = {st.committed, st.staged, st.booting} \ {NoSeq}
        BY <1>1 DEF Referenced, Distinct
    <2>4. st.staged # seq
        BY <1>1, <2>1 DEF Referenced
    <2>5. QED
        BY <1>1, <2>1, <2>2, <2>3, <2>4 DEF Distinct
<1>7. \A other \in Referenced(after) \ {seq} :
          after.versions[other] = st.versions[other]
    BY <1>2, <1>3, <1>5, <1>6
<1>8. {st.staged} \ {NoSeq} \subseteq Referenced(st) \ Referenced(after)
    BY <1>6 DEF Referenced
<1>9. QED
    BY <1>4, <1>5, <1>6, <1>7, <1>8

\* Boot resolution moves pointers about and drops them; it makes up none.
LEMMA BootLetsGo ==
    ASSUME NEW st, Sound(st), NEW embedded \in Versions, NEW present \in SUBSET Seqs
    PROVE  LetsGo(st, ResolveBoot(st, embedded, present))
<1> DEFINE tried    == ResolveTrial(st, embedded, present)
           folded   == FoldWatermark(tried, embedded)
           fresh    == DropStale(folded, embedded, present)
           promoted == PromoteAtBoot(fresh, embedded, present)
           boot     == CollectGarbage(promoted)
<1>1. st \in State
    BY DEF Sound, Loose
<1>2. /\ Loose(tried)
      /\ tried.booting # NoSeq => tried.versions[tried.booting].version > embedded
    BY ResolveTrialLoose
<1>3. Loose(folded)
    BY <1>2, FoldWatermarkLoose
<1>4. Loose(fresh)
    BY <1>3, DropStaleLoose
<1>5. Loose(promoted)
    BY <1>4, PromoteAtBootLoose
<1>6. Referenced(tried) \subseteq Referenced(st) /\ tried.versions = st.versions
    BY <1>1 DEF ResolveTrial, DropTrial, Blacklist, Referenced, State
<1>7. Referenced(folded) = Referenced(tried) /\ folded.versions = tried.versions
    BY <1>2 DEF FoldWatermark, Referenced, Loose, State
<1>8. Referenced(fresh) \subseteq Referenced(folded) /\ fresh.versions = folded.versions
    BY <1>3 DEF DropStale, KeepIfNewer, Referenced, Loose, State
<1>9. /\ Referenced(promoted) \subseteq Referenced(fresh)
      /\ promoted.versions = fresh.versions
    BY <1>4 DEF PromoteAtBoot, Arm, Referenced, Loose, State
<1>10. /\ Referenced(boot) = Referenced(promoted)
       /\ \A seq \in Seqs : seq \in Referenced(promoted) =>
              boot.versions[seq] = promoted.versions[seq]
    BY <1>5 DEF CollectGarbage, Referenced, Loose, State
<1>11. Referenced(promoted) \subseteq Seqs
    BY <1>5, ReferencedType DEF Loose
<1>12. boot = ResolveBoot(st, embedded, present)
    BY DEF ResolveBoot
<1> HIDE DEF tried, folded, fresh, promoted, boot
<1>13. QED
    BY <1>6, <1>7, <1>8, <1>9, <1>10, <1>11, <1>12 DEF LetsGo

(***************************************************************************)
(* What each transition does to the two pointers that are served from.     *)
(***************************************************************************)
LEMMA AckPointers ==
    ASSUME NEW st, Sound(st), NEW booted
    PROVE  IF booted = Embedded \/ st.booting # booted
           THEN Ack(st, booted).state = st
           ELSE /\ Ack(st, booted).state.committed = booted
                /\ Ack(st, booted).state.booting = NoSeq
<1>1. CASE booted = Embedded \/ st.booting # booted
    BY <1>1 DEF Ack
<1>2. CASE ~(booted = Embedded \/ st.booting # booted)
    <2>1. st.booting # NoSeq
        BY <1>2 DEF Embedded, NoSeq
    <2>2. /\ Commit(st) \in State
          /\ Commit(st).committed = booted
          /\ Commit(st).booting = NoSeq
        BY <1>2, <2>1, CommitFacts
    <2>3. /\ Forget(Commit(st), Superfluous(Commit(st), st.committed)).committed = booted
          /\ Forget(Commit(st), Superfluous(Commit(st), st.committed)).booting = NoSeq
        BY <2>2, ForgetFacts
    <2>4. QED
        BY <1>2, <2>3 DEF Ack
<1>3. QED
    BY <1>1, <1>2

LEMMA ArmPointers ==
    ASSUME NEW st \in State
    PROVE  Arm(st).booting = st.staged /\ Arm(st).committed = st.committed
BY DEF Arm, State

LEMMA DiscardPointers ==
    ASSUME NEW st \in State, NEW present
    PROVE  /\ Discard(st, present).state.booting = st.booting
           /\ Discard(st, present).state.committed = st.committed
<1> DEFINE dropped == [st EXCEPT !.staged = NoSeq]
<1>1. /\ dropped \in State
      /\ dropped.booting = st.booting
      /\ dropped.committed = st.committed
    BY DEF State, Pointer
<1> HIDE DEF dropped
<1>2. /\ Forget(dropped, {st.staged}).booting = st.booting
      /\ Forget(dropped, {st.staged}).committed = st.committed
    BY <1>1, ForgetFacts
<1>3. QED
    BY <1>2 DEF Discard, dropped

LEMMA StagePointers ==
    ASSUME NEW st \in State, NEW seq, NEW meta
    PROVE  /\ Stage(st, seq, meta).state.booting = st.booting
           /\ Stage(st, seq, meta).state.committed = st.committed
<1> DEFINE less == Forget(st, {st.staged})
<1>1. less \in State /\ less.booting = st.booting /\ less.committed = st.committed
    BY ForgetFacts
<1> HIDE DEF less
<1>2. /\ [less EXCEPT !.staged = seq, !.versions[seq] = meta].booting = st.booting
      /\ [less EXCEPT !.staged = seq, !.versions[seq] = meta].committed = st.committed
    BY <1>1 DEF State
<1>3. QED
    BY <1>2 DEF Stage, less

(***************************************************************************)
(* Only staging sets the staged pointer; all else keeps or clears it.      *)
(***************************************************************************)
LEMMA AckStaged ==
    ASSUME NEW st, Sound(st), NEW booted
    PROVE  Ack(st, booted).state.staged = st.staged
<1>1. CASE booted = Embedded \/ st.booting # booted
    BY <1>1 DEF Ack
<1>2. CASE ~(booted = Embedded \/ st.booting # booted)
    <2>1. st.booting # NoSeq
        BY <1>2 DEF Embedded, NoSeq
    <2>2. Commit(st) \in State /\ Commit(st).staged = st.staged
        BY <2>1, CommitFacts
    <2>3. Forget(Commit(st), Superfluous(Commit(st), st.committed)).staged = st.staged
        BY <2>2, ForgetFacts
    <2>4. QED
        BY <1>2, <2>3 DEF Ack
<1>3. QED
    BY <1>1, <1>2

LEMMA ArmAndDiscardStaged ==
    ASSUME NEW st \in State, NEW present
    PROVE  Arm(st).staged = NoSeq /\ Discard(st, present).state.staged = NoSeq
<1> DEFINE dropped == [st EXCEPT !.staged = NoSeq]
<1>1. dropped \in State /\ dropped.staged = NoSeq
    BY DEF State, Pointer
<1> HIDE DEF dropped
<1>2. Forget(dropped, {st.staged}).staged = NoSeq
    BY <1>1, ForgetFacts
<1>3. QED
    BY <1>2 DEF Discard, Arm, State, dropped

LEMMA BootStaged ==
    ASSUME NEW st, Sound(st), NEW embedded \in Versions, NEW present \in SUBSET Seqs
    PROVE  ResolveBoot(st, embedded, present).staged \in {st.staged, NoSeq}
<1> DEFINE tried    == ResolveTrial(st, embedded, present)
           folded   == FoldWatermark(tried, embedded)
           fresh    == DropStale(folded, embedded, present)
           promoted == PromoteAtBoot(fresh, embedded, present)
           boot     == CollectGarbage(promoted)
<1>1. st \in State
    BY DEF Sound, Loose
<1>2. /\ Loose(tried)
      /\ tried.booting # NoSeq => tried.versions[tried.booting].version > embedded
    BY ResolveTrialLoose
<1>3. Loose(folded)
    BY <1>2, FoldWatermarkLoose
<1>4. Loose(fresh)
    BY <1>3, DropStaleLoose
<1>5. Loose(promoted)
    BY <1>4, PromoteAtBootLoose
<1>6. tried.staged = st.staged
    BY <1>1 DEF ResolveTrial, DropTrial, Blacklist, State
<1>7. folded.staged = tried.staged
    BY <1>2 DEF FoldWatermark, Loose, State
<1>8. fresh.staged = folded.staged
    BY <1>3 DEF DropStale, Loose, State
<1>9. promoted.staged \in {fresh.staged, NoSeq}
    BY <1>4 DEF PromoteAtBoot, Arm, Loose, State
<1>10. boot.staged = promoted.staged
    BY <1>5 DEF CollectGarbage, Loose, State
<1>11. boot = ResolveBoot(st, embedded, present)
    BY DEF ResolveBoot
<1> HIDE DEF tried, folded, fresh, promoted, boot
<1>12. QED
    BY <1>6, <1>7, <1>8, <1>9, <1>10, <1>11

\* What boot resolution leaves under the two pointers that are served from is
\* on disk and newer than the shell; the committed bundle is kept whenever it
\* is both.
LEMMA BootPointers ==
    ASSUME NEW st, Sound(st), NEW embedded \in Versions, NEW present \in SUBSET Seqs
    PROVE  LET boot == ResolveBoot(st, embedded, present)
           IN  /\ boot.committed = IF /\ st.committed # NoSeq
                                      /\ st.committed \in present
                                      /\ st.versions[st.committed].version > embedded
                                   THEN st.committed ELSE NoSeq
               /\ boot.booting # NoSeq =>
                      /\ boot.booting \in present
                      /\ boot.versions[boot.booting].version > embedded
<1> DEFINE tried    == ResolveTrial(st, embedded, present)
           folded   == FoldWatermark(tried, embedded)
           fresh    == DropStale(folded, embedded, present)
           promoted == PromoteAtBoot(fresh, embedded, present)
           boot     == CollectGarbage(promoted)
<1>1. st \in State /\ Known(st)
    BY DEF Sound, Loose
<1>2. /\ Loose(tried)
      /\ tried.booting # NoSeq => tried.versions[tried.booting].version > embedded
    BY ResolveTrialLoose
<1>3. Loose(folded)
    BY <1>2, FoldWatermarkLoose
<1>4. Loose(fresh)
    BY <1>3, DropStaleLoose
<1>5. Loose(promoted)
    BY <1>4, PromoteAtBootLoose
<1>6. /\ tried.committed = st.committed /\ tried.versions = st.versions
      /\ tried.booting # NoSeq => tried.booting \in present
    BY <1>1 DEF ResolveTrial, OneMoreChance, DropTrial, Blacklist, State
<1>7. /\ folded.committed = st.committed /\ folded.versions = st.versions
      /\ folded.booting = tried.booting
      /\ folded.max_version_seen = MaxVersion(tried.max_version_seen, embedded)
    BY <1>2, <1>6 DEF FoldWatermark, Loose, State
<1>8. /\ fresh.committed = KeepIfNewer(folded, st.committed, embedded, present)
      /\ fresh.versions = st.versions
      /\ fresh.booting = tried.booting
      /\ fresh.max_version_seen = folded.max_version_seen
    BY <1>3, <1>7 DEF DropStale, Loose, State
<1>9. /\ promoted.committed = fresh.committed
      /\ promoted.versions = st.versions
      /\ promoted.max_version_seen = fresh.max_version_seen
      /\ promoted.booting # NoSeq => promoted.booting \in present
    BY <1>4, <1>6, <1>8 DEF PromoteAtBoot, Armable, Arm, Loose, State
<1>10. /\ boot.committed = promoted.committed
       /\ boot.booting = promoted.booting
       /\ boot.max_version_seen = promoted.max_version_seen
    BY <1>5 DEF CollectGarbage, Loose, State
<1>11. boot = ResolveBoot(st, embedded, present)
    BY DEF ResolveBoot
<1>12. Sound(boot)
    BY <1>11, ResolveBootSound
<1>13. boot.max_version_seen \in Nat /\ boot.max_version_seen >= embedded
    <2>1. tried.max_version_seen \in Nat /\ embedded \in Nat
        BY <1>2, WatermarkIsNat, VersionsAssumption
        DEF VersionsAssumption, Loose, State
    <2>2. QED
        BY <1>7, <1>8, <1>9, <1>10, <2>1 DEF MaxVersion
<1> HIDE DEF tried, folded, fresh, promoted, boot
<1>14. boot.booting # NoSeq =>
           /\ boot.booting \in present
           /\ boot.versions[boot.booting].version > embedded
    <2>1. boot.booting # NoSeq =>
              /\ boot.versions[boot.booting].version > boot.max_version_seen
              /\ boot.versions[boot.booting].version \in Nat
        <3>1. boot \in State /\ TrialNew(boot) /\ Known(boot)
            BY <1>12 DEF Sound, Loose
        <3>2. boot.booting \in Seqs \cup {NoSeq}
            BY <3>1 DEF State, Pointer
        <3>3. QED
            BY <3>1, <3>2, StateFacts DEF TrialNew, Known
    <2>2. embedded \in Nat
        BY VersionsAssumption DEF VersionsAssumption
    <2>3. QED
        BY <1>9, <1>10, <1>13, <2>1, <2>2
<1>15. boot.committed = IF /\ st.committed # NoSeq
                           /\ st.committed \in present
                           /\ st.versions[st.committed].version > embedded
                        THEN st.committed ELSE NoSeq
    BY <1>1, <1>7, <1>8, <1>9, <1>10 DEF KeepIfNewer, OtaBeatsEmbedded, Known
<1>16. QED
    BY <1>11, <1>14, <1>15
=============================================================================
