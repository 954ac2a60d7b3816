---------------------------- MODULE PointerProofs --------------------------
(***************************************************************************)
(* state.json implements the abstract rollback pointer, and its memory     *)
(* only grows: for any set of bundles, versions, shells, windows, threads  *)
(* and manifests, every fault, and every interleaving.                     *)
(*                                                                         *)
(* Each transition of Machine is first shown to be a step of TrialPointer; *)
(* a step of the system is then one of them, or leaves state.json alone.   *)
(***************************************************************************)
EXTENDS HotUpdateProofs

(***************************************************************************)
(* What the abstract pointer sees of a state.                              *)
(***************************************************************************)
BundleIn(st, seq) == IF seq = NoSeq THEN Absent ELSE st.versions[seq]
ChancesIn(st) == IF st.booting = NoSeq THEN 0 ELSE 2 - st.booting_strikes

\* `after` looks the same.
SameView(st, after) ==
    /\ BundleIn(after, after.committed) = BundleIn(st, st.committed)
    /\ BundleIn(after, after.booting) = BundleIn(st, st.booting)
    /\ ChancesIn(after) = ChancesIn(st)
    /\ after.failed = st.failed
    /\ after.max_version_seen = st.max_version_seen

\* `meta` may go on trial in a state with these two fields.
Fresh(meta, failed, max_version_seen) ==
    /\ meta \in BundleMeta
    /\ meta.version > max_version_seen
    /\ meta.archive_sha256 \notin failed

OnTrial(st) ==
    /\ Fresh(BundleIn(st, st.booting), st.failed, st.max_version_seen)
    /\ ChancesIn(st) = 2

OffTrial(st) == BundleIn(st, st.booting) = Absent /\ ChancesIn(st) = 0

Beaten(st, seq, embedded) ==
    BundleIn(st, seq) # Absent /\ BundleIn(st, seq).version > embedded

LEMMA BundleInType ==
    ASSUME NEW st \in State, NEW seq \in Pointer
    PROVE  BundleIn(st, seq) \in BundleMeta \cup {Absent}
BY DEF BundleIn, State, Pointer

LEMMA SoundFacts ==
    ASSUME NEW st, Sound(st)
    PROVE  /\ st \in State
           /\ {st.committed, st.staged, st.booting} \subseteq Pointer
           /\ st.booting # NoSeq => /\ st.booting \in Seqs
                                    /\ st.versions[st.booting] \in BundleMeta
                                    /\ st.versions[st.booting] # Absent
           /\ st.staged # NoSeq => /\ st.staged \in Seqs
                                   /\ st.versions[st.staged] \in BundleMeta
           /\ st.max_version_seen \in Nat
           /\ st.booting_strikes \in {0, 1}
           /\ Absent \notin BundleMeta
<1>1. st \in State /\ Known(st) /\ StrikesOK(st)
    BY DEF Sound, Loose
<1>2. {st.committed, st.staged, st.booting} \subseteq Pointer
    BY <1>1 DEF State
<1>3. QED
    BY <1>1, <1>2, StateFacts, Constants DEF Known, StrikesOK, Pointer

(***************************************************************************)
(* resolve_boot.                                                           *)
(***************************************************************************)
\* Step 1, the miss: what becomes of the trial.
LEMMA TrialResolved ==
    ASSUME NEW st, Sound(st), NEW embedded \in Versions, NEW present \in SUBSET Seqs
    PROVE  LET tried == ResolveTrial(st, embedded, present)
           IN  /\ tried.committed = st.committed
               /\ tried.staged = st.staged
               /\ tried.versions = st.versions
               /\ tried.max_version_seen = st.max_version_seen
               /\ \/ /\ tried.booting # NoSeq
                     /\ tried.booting = st.booting
                     /\ tried.booting_strikes = 1
                     /\ tried.failed = st.failed
                     /\ Beaten(st, st.booting, embedded)
                     /\ st.booting \in present
                     /\ st.booting_strikes = 0
                  \/ /\ tried.booting = NoSeq
                     /\ tried.booting_strikes = 0
                     /\ st.booting # NoSeq =>
                            \/ ~Beaten(st, st.booting, embedded)
                            \/ st.booting_strikes = 1
                            \/ st.booting \notin present
                     /\ tried.failed = st.failed \cup
                            (IF Beaten(st, st.booting, embedded)
                             THEN {BundleIn(st, st.booting).archive_sha256}
                             ELSE {})
<1> DEFINE tried == ResolveTrial(st, embedded, present)
<1>1. st \in State /\ embedded \in Nat
    BY SoundFacts, VersionsAssumption DEF VersionsAssumption
<1>2. CASE st.booting = NoSeq
    <2>1. tried = st
        BY <1>2 DEF ResolveTrial
    <2>2. st.booting_strikes = 0
        BY <1>2 DEF Sound, Loose, StrikesOK
    <2>3. QED
        BY <1>2, <2>1, <2>2 DEF Beaten, BundleIn
<1>3. CASE st.booting # NoSeq
    <2>1. /\ BundleIn(st, st.booting) = st.versions[st.booting]
          /\ st.versions[st.booting] # Absent
          /\ st.versions[st.booting].version \in Nat
        BY <1>1, <1>3, SoundFacts, MetaFacts DEF BundleIn
    <2>2. Superseded(st, embedded) <=> ~Beaten(st, st.booting, embedded)
        BY <1>1, <2>1 DEF Superseded, Beaten
    <2>3. CASE Superseded(st, embedded)
        <3>1. tried = DropTrial(st)
            BY <1>3, <2>3 DEF ResolveTrial
        <3>2. QED
            BY <1>1, <1>3, <2>2, <2>3, <3>1 DEF DropTrial, State
    <2>4. CASE ~Superseded(st, embedded) /\ OneMoreChance(st, present)
        <3>1. tried = [st EXCEPT !.booting_strikes = 1]
            BY <1>3, <2>4 DEF ResolveTrial
        <3>2. QED
            BY <1>1, <1>3, <2>2, <2>4, <3>1 DEF OneMoreChance, State
    <2>5. CASE ~Superseded(st, embedded) /\ ~OneMoreChance(st, present)
        <3>1. tried = DropTrial(Blacklist(st, st.booting))
            BY <1>3, <2>5 DEF ResolveTrial
        <3>2. st.booting_strikes = 1 \/ st.booting \notin present
            BY <2>1, <2>5, SoundFacts DEF OneMoreChance
        <3>3. {m.archive_sha256 : m \in {st.versions[st.booting]} \ {Absent}}
                  = {st.versions[st.booting].archive_sha256}
            BY <2>1
        <3>4. tried.failed = st.failed \cup {st.versions[st.booting].archive_sha256}
            BY <1>1, <3>1, <3>3 DEF DropTrial, Blacklist, State
        <3>5. QED
            BY <1>1, <1>3, <2>1, <2>2, <2>5, <3>1, <3>2, <3>4
            DEF DropTrial, Blacklist, State
    <2>6. QED
        BY <2>3, <2>4, <2>5
<1>4. QED
    BY <1>2, <1>3

\* All of it, as the abstract pointer sees it.
LEMMA BootView ==
    ASSUME NEW st, Sound(st), NEW embedded \in Versions, NEW present \in SUBSET Seqs
    PROVE  LET boot == ResolveBoot(st, embedded, present)
           IN  /\ boot.max_version_seen = MaxVersion(st.max_version_seen, embedded)
               /\ BundleIn(boot, boot.committed) =
                      IF Beaten(st, st.committed, embedded) /\ st.committed \in present
                      THEN BundleIn(st, st.committed) ELSE Absent
               /\ \/ /\ Beaten(st, st.booting, embedded)
                     /\ st.booting \in present
                     /\ ChancesIn(st) = 2
                     /\ ChancesIn(boot) = 1
                     /\ BundleIn(boot, boot.booting) = BundleIn(st, st.booting)
                     /\ boot.failed = st.failed
                  \/ /\ BundleIn(st, st.booting) # Absent =>
                            \/ ~Beaten(st, st.booting, embedded)
                            \/ ChancesIn(st) = 1
                            \/ st.booting \notin present
                     /\ boot.failed = st.failed \cup
                            (IF Beaten(st, st.booting, embedded)
                             THEN {BundleIn(st, st.booting).archive_sha256}
                             ELSE {})
                     /\ OffTrial(boot) \/ OnTrial(boot)
<1> DEFINE tried    == ResolveTrial(st, embedded, present)
           folded   == FoldWatermark(tried, embedded)
           fresh    == DropStale(folded, embedded, present)
           promoted == PromoteAtBoot(fresh, embedded, present)
           boot     == CollectGarbage(promoted)
<1>1. boot = ResolveBoot(st, embedded, present)
    BY DEF ResolveBoot
<1>2. /\ Loose(tried)
      /\ tried.booting # NoSeq => tried.versions[tried.booting].version > embedded
    BY ResolveTrialLoose
<1>3. Loose(folded)
    BY <1>2, FoldWatermarkLoose
<1>4. Loose(fresh)
    BY <1>3, DropStaleLoose
<1>5. Loose(promoted)
    BY <1>4, PromoteAtBootLoose
<1>6. Sound(boot)
    BY <1>1, ResolveBootSound
<1>7. /\ folded.committed = st.committed
      /\ folded.staged = st.staged
      /\ folded.booting = tried.booting
      /\ folded.booting_strikes = tried.booting_strikes
      /\ folded.failed = tried.failed
      /\ folded.versions = st.versions
      /\ folded.max_version_seen = MaxVersion(st.max_version_seen, embedded)
    BY <1>2, TrialResolved DEF FoldWatermark, Loose, State
<1>8. /\ fresh.committed = KeepIfNewer(folded, st.committed, embedded, present)
      /\ fresh.staged = st.staged
      /\ fresh.booting = tried.booting
      /\ fresh.booting_strikes = tried.booting_strikes
      /\ fresh.failed = tried.failed
      /\ fresh.versions = st.versions
      /\ fresh.max_version_seen = MaxVersion(st.max_version_seen, embedded)
    BY <1>3, <1>7 DEF DropStale, Loose, State
<1>9. /\ promoted.committed = fresh.committed
      /\ promoted.failed = fresh.failed
      /\ promoted.versions = st.versions
      /\ promoted.max_version_seen = fresh.max_version_seen
    BY <1>4, <1>8 DEF PromoteAtBoot, Arm, Loose, State
<1>10. /\ boot.committed = promoted.committed
       /\ boot.booting = promoted.booting
       /\ boot.booting_strikes = promoted.booting_strikes
       /\ boot.failed = promoted.failed
       /\ boot.max_version_seen = promoted.max_version_seen
       /\ \A seq \in Seqs : seq \in Referenced(promoted) =>
              boot.versions[seq] = st.versions[seq]
    BY <1>5, <1>9 DEF CollectGarbage, Loose, State
<1>11. promoted.committed \in Pointer /\ promoted.booting \in Pointer
    BY <1>5 DEF Loose, State
<1>12. /\ BundleIn(boot, boot.committed) = BundleIn(st, promoted.committed)
       /\ BundleIn(boot, boot.booting) = BundleIn(st, promoted.booting)
    BY <1>10, <1>11 DEF BundleIn, Referenced, Pointer
<1> HIDE DEF tried, folded, fresh, promoted, boot
<1>13. boot.max_version_seen = MaxVersion(st.max_version_seen, embedded)
    BY <1>8, <1>9, <1>10
<1>14. BundleIn(boot, boot.committed) =
           IF Beaten(st, st.committed, embedded) /\ st.committed \in present
           THEN BundleIn(st, st.committed) ELSE Absent
    BY <1>7, <1>8, <1>9, <1>12
    DEF KeepIfNewer, OtaBeatsEmbedded, Beaten, BundleIn
<1>15. CASE tried.booting # NoSeq
    <2>1. /\ tried.booting = st.booting
          /\ tried.booting_strikes = 1
          /\ tried.failed = st.failed
          /\ Beaten(st, st.booting, embedded)
          /\ st.booting \in present
          /\ st.booting_strikes = 0
        BY <1>15, TrialResolved DEF tried
    <2>2. promoted = fresh
        BY <1>8, <1>15 DEF promoted, PromoteAtBoot
    <2>3. ChancesIn(st) = 2 /\ ChancesIn(boot) = 1
        BY <1>8, <1>10, <1>15, <2>1, <2>2 DEF ChancesIn
    <2>4. BundleIn(boot, boot.booting) = BundleIn(st, st.booting)
        BY <1>8, <1>12, <2>1, <2>2
    <2>5. boot.failed = st.failed
        BY <1>8, <1>10, <2>1, <2>2
    <2>6. QED
        BY <1>1, <1>13, <1>14, <2>1, <2>3, <2>4, <2>5
<1>16. CASE tried.booting = NoSeq
    <2>1. /\ tried.booting_strikes = 0
          /\ st.booting # NoSeq => \/ ~Beaten(st, st.booting, embedded)
                                   \/ st.booting_strikes = 1
                                   \/ st.booting \notin present
          /\ tried.failed = st.failed \cup
                 (IF Beaten(st, st.booting, embedded)
                  THEN {BundleIn(st, st.booting).archive_sha256} ELSE {})
        BY <1>16, TrialResolved DEF tried
    <2>2. BundleIn(st, st.booting) # Absent =>
              \/ ~Beaten(st, st.booting, embedded)
              \/ ChancesIn(st) = 1
              \/ st.booting \notin present
        BY <2>1 DEF BundleIn, ChancesIn
    <2>3. boot.failed = tried.failed
        BY <1>8, <1>9, <1>10
    <2>4. OffTrial(boot) \/ OnTrial(boot)
        <3>1. CASE boot.booting = NoSeq
            BY <3>1 DEF OffTrial, BundleIn, ChancesIn
        <3>2. CASE boot.booting # NoSeq
            <4>1. boot.booting_strikes = 0
                BY <1>4, <1>8, <1>10, <1>16, <2>1
                DEF promoted, PromoteAtBoot, Arm, Loose, State
            <4>2. Fresh(BundleIn(boot, boot.booting), boot.failed,
                        boot.max_version_seen)
                BY <1>6, <3>2, SoundFacts
                DEF Sound, Loose, TrialNew, Fresh, BundleIn
            <4>3. QED
                BY <3>2, <4>1, <4>2 DEF OnTrial, ChancesIn
        <3>3. QED
            BY <3>1, <3>2
    <2>5. QED
        BY <1>1, <1>13, <1>14, <2>1, <2>2, <2>3, <2>4
<1>17. QED
    BY <1>15, <1>16

(***************************************************************************)
(* The other transitions.                                                  *)
(***************************************************************************)
\* An ack commits the bundle on trial, or changes nothing.
LEMMA AckView ==
    ASSUME NEW st, Sound(st), NEW booted
    PROVE  LET after == Ack(st, booted).state
           IN  \/ after = st
               \/ /\ BundleIn(st, st.booting) # Absent
                  /\ BundleIn(after, after.committed) = BundleIn(st, st.booting)
                  /\ OffTrial(after)
                  /\ after.failed = st.failed
                  /\ after.max_version_seen = BundleIn(st, st.booting).version
                  /\ after.max_version_seen > st.max_version_seen
<1> DEFINE done  == Commit(st)
           gone  == Superfluous(done, st.committed)
           after == Forget(done, gone)
<1>1. CASE booted = Embedded \/ st.booting # booted
    BY <1>1 DEF Ack
<1>2. CASE ~(booted = Embedded \/ st.booting # booted)
    <2>1. /\ st \in State /\ st.booting # NoSeq /\ st.booting \in Seqs
          /\ st.versions[st.booting] # Absent
        BY <1>2, SoundFacts DEF Embedded, NoSeq
    <2>2. /\ done \in State
          /\ done.committed = st.booting
          /\ done.last_good = st.booting
          /\ done.staged = st.staged
          /\ done.booting = NoSeq
          /\ done.failed = st.failed
          /\ done.versions = st.versions
        BY <2>1, CommitFacts
    <2>3. done.max_version_seen =
              MaxVersion(st.max_version_seen, st.versions[st.booting].version)
        BY <2>1 DEF Commit, State
    <2>4. /\ st.versions[st.booting].version > st.max_version_seen
          /\ st.versions[st.booting].version \in Nat
          /\ st.max_version_seen \in Nat
        BY <2>1, SoundFacts, MetaFacts DEF Sound, Loose, TrialNew
    <2>5. done.max_version_seen = st.versions[st.booting].version
        BY <2>3, <2>4 DEF MaxVersion
    <2>6. st.booting \notin gone
        BY <2>2 DEF Superfluous, Referenced
    <2> HIDE DEF done, gone
    <2>7. /\ after.committed = st.booting
          /\ after.booting = NoSeq
          /\ after.failed = st.failed
          /\ after.max_version_seen = st.versions[st.booting].version
          /\ after.versions[st.booting] = st.versions[st.booting]
        BY <2>1, <2>2, <2>5, <2>6, ForgetFacts
    <2>8. Ack(st, booted).state = after
        BY <1>2 DEF Ack, after, gone, done
    <2> HIDE DEF after
    <2>9. QED
        BY <2>1, <2>4, <2>7, <2>8 DEF BundleIn, OffTrial, ChancesIn
<1>3. QED
    BY <1>1, <1>2

\* promote_staged puts the staged bundle on trial.
LEMMA ArmView ==
    ASSUME NEW st, Sound(st), NEW embedded \in Versions, NEW present \in SUBSET Seqs,
           PromoteDecision(st, embedded, present) = "Applied"
    PROVE  LET after == Arm(st)
           IN  /\ BundleIn(st, st.booting) = Absent
               /\ OnTrial(after)
               /\ BundleIn(after, after.committed) = BundleIn(st, st.committed)
               /\ after.failed = st.failed
               /\ after.max_version_seen = st.max_version_seen
<1>1. st \in State /\ st.booting = NoSeq /\ st.staged # NoSeq
    BY SoundFacts DEF PromoteDecision
<1>2. /\ Arm(st).booting = st.staged
      /\ Arm(st).booting_strikes = 0
      /\ Arm(st).committed = st.committed
      /\ Arm(st).versions = st.versions
      /\ Arm(st).failed = st.failed
      /\ Arm(st).max_version_seen = st.max_version_seen
    BY <1>1 DEF Arm, State
<1>3. Sound(Arm(st))
    BY ApplyArmSound
<1>4. /\ TrialNew(Arm(st))
      /\ Arm(st).versions[Arm(st).booting] \in BundleMeta
    BY <1>1, <1>2, <1>3, SoundFacts DEF Sound, Loose
<1>5. QED
    BY <1>1, <1>2, <1>4 DEF OnTrial, Fresh, TrialNew, BundleIn, ChancesIn

\* A discarded bundle was on no trial, and nor is a newly staged one.
LEMMA DiscardView ==
    ASSUME NEW st, Sound(st), NEW present, st.staged # NoSeq
    PROVE  SameView(st, Discard(st, present).state)
<1> DEFINE dropped == [st EXCEPT !.staged = NoSeq]
           after   == Forget(dropped, {st.staged})
<1>1. /\ st \in State /\ Distinct(st)
      /\ st.committed \in Pointer /\ st.booting \in Pointer
    BY SoundFacts DEF Sound, Loose
<1>2. /\ dropped \in State
      /\ dropped.committed = st.committed
      /\ dropped.booting = st.booting
      /\ dropped.booting_strikes = st.booting_strikes
      /\ dropped.failed = st.failed
      /\ dropped.max_version_seen = st.max_version_seen
      /\ dropped.versions = st.versions
    BY <1>1 DEF State, Pointer
<1>3. after = Discard(st, present).state
    BY DEF Discard
<1> HIDE DEF dropped
<1>4. /\ after.committed = st.committed
      /\ after.booting = st.booting
      /\ after.booting_strikes = st.booting_strikes
      /\ after.failed = st.failed
      /\ after.max_version_seen = st.max_version_seen
      /\ \A seq \in Seqs : seq # st.staged =>
             after.versions[seq] = st.versions[seq]
    BY <1>2, ForgetFacts
<1> HIDE DEF after
<1>5. SameView(st, after)
    BY <1>1, <1>4 DEF SameView, BundleIn, ChancesIn, Distinct, Pointer
<1>6. QED
    BY <1>3, <1>5

LEMMA StageView ==
    ASSUME NEW st, Sound(st), NEW seq \in Seqs, NEW meta \in BundleMeta,
           ~StageRefused(st, seq, meta)
    PROVE  SameView(st, Stage(st, seq, meta).state)
<1> DEFINE less  == Forget(st, {st.staged})
           after == [less EXCEPT !.staged = seq, !.versions[seq] = meta]
<1>1. /\ st \in State /\ Distinct(st)
      /\ st.committed \in Pointer /\ st.booting \in Pointer
      /\ seq \notin {st.committed, st.booting}
    BY SoundFacts, StateFacts DEF Sound, Loose, StageRefused, Referenced
<1>2. /\ less \in State
      /\ less.committed = st.committed
      /\ less.booting = st.booting
      /\ less.booting_strikes = st.booting_strikes
      /\ less.failed = st.failed
      /\ less.max_version_seen = st.max_version_seen
      /\ \A s \in Seqs : s # st.staged => less.versions[s] = st.versions[s]
    BY <1>1, ForgetFacts
<1>3. after = Stage(st, seq, meta).state
    BY DEF Stage
<1> HIDE DEF less
<1>4. /\ after.committed = st.committed
      /\ after.booting = st.booting
      /\ after.booting_strikes = st.booting_strikes
      /\ after.failed = st.failed
      /\ after.max_version_seen = st.max_version_seen
      /\ \A s \in Seqs : s \notin {seq, st.staged} =>
             after.versions[s] = st.versions[s]
    BY <1>2 DEF State
<1> HIDE DEF after
<1>5. SameView(st, after)
    BY <1>1, <1>4 DEF SameView, BundleIn, ChancesIn, Distinct, Pointer
<1>6. QED
    BY <1>3, <1>5

(***************************************************************************)
(* What any step of the system makes of state.json.                        *)
(***************************************************************************)
Booted(after) ==
    \E sh \in Shells : after = ResolveBoot(disk, sh, Present)
Acked(after) ==
    \E t \in Threads : call[t].pc = "ack" /\ after = Ack(disk, call[t].seq).state
Promoted(after) ==
    \E present \in SUBSET Seqs :
        /\ PromoteDecision(disk, shell, present) = "Applied"
        /\ after = Arm(disk)
Discarded(after) ==
    \E present \in SUBSET Seqs :
        /\ disk.staged # NoSeq
        /\ after = Discard(disk, present).state
Staged(after) ==
    \E r \in Runs :
        /\ JobStage(r)
        /\ job[r].seq \in Seqs /\ job[r].meta \in BundleMeta
        /\ ~StageRefused(disk, job[r].seq, job[r].meta)
        /\ after = Stage(disk, job[r].seq, job[r].meta).state
Cleared(after) ==
    \E watermark \in Versions \cup {NoVersion} :
        after = [Default EXCEPT !.max_version_seen = watermark]

\* While a process runs, and whether one does or not.
SessionMoves ==
    \/ UNCHANGED disk
    \/ Acked(disk') \/ Promoted(disk')
    \/ Discarded(disk') \/ Staged(disk') \/ Cleared(disk')

DiskMoves == Booted(disk') \/ SessionMoves

LEMMA ApplyMoves ==
    ASSUME Typed, NEW t \in Threads,
           \/ ApplyArm(t) \/ ApplyVersion(t) \/ ApplySwap(t) \/ ApplyRefuse(t)
           \/ ApplyDiscard(t) \/ ApplyGC(t) \/ ApplyFail(t)
    PROVE  SessionMoves
<1>1. call[t].seen \in SUBSET Seqs
    BY DEF Typed, TypeOK, RuntimeTypeOK
<1>2. CASE ApplyArm(t)
    BY <1>1, <1>2 DEF ApplyArm, ApplyDecides, SaveState, SessionMoves, Promoted
<1>3. CASE ApplyDiscard(t)
    <2>1. disk.staged # NoSeq /\ disk' = Discard(disk, call[t].seen).state
        BY <1>3 DEF ApplyDiscard, ApplyDecides, PromoteDecision, SaveState
    <2>2. QED
        BY <1>1, <2>1 DEF SessionMoves, Discarded
<1>4. CASE \/ ApplyVersion(t) \/ ApplySwap(t) \/ ApplyRefuse(t) \/ ApplyGC(t)
           \/ ApplyFail(t)
    BY <1>4 DEF ApplyVersion, ApplySwap, ApplyRefuse, ApplyGC, ApplyFail, SaveFails,
       storeVars, SessionMoves
<1>5. QED
    BY <1>2, <1>3, <1>4

LEMMA SessionStepMoves == Typed /\ Session => SessionMoves
<1> SUFFICES ASSUME Typed, Session PROVE SessionMoves
    OBVIOUS
<1>1. CASE Quit
    BY <1>1 DEF Quit, Exit, storeVars, SessionMoves
<1>2. CASE PageStep
    BY <1>2 DEF PageStep, PageLoad, RemoteLoad, storeVars, SessionMoves
<1>3. CASE Environment
    <2>1. Default = [Default EXCEPT !.max_version_seen = NoVersion]
        BY DEF Default
    <2>2. QED
        BY <1>3, <2>1 DEF Environment, LoseState, StateLost, DirLost, SessionMoves,
           Cleared
<1>4. ASSUME NEW t \in Callers, notify_app_ready(t) PROVE SessionMoves
    <2>1. t \in Threads
        BY Constants
    <2>2. QED
        BY <1>4, <2>1 DEF notify_app_ready, AckBegin, AckUpdate, AckFail,
           AckReturn, SaveState, SaveFails, storeVars, SessionMoves, Acked
<1>5. ASSUME NEW t \in Callers, apply_staged(t) PROVE SessionMoves
    <2>1. CASE ApplyBegin(t)
        BY <2>1 DEF ApplyBegin, storeVars, SessionMoves
    <2>2. QED
        BY <1>5, <2>1, ApplyMoves, Constants DEF apply_staged
<1>6. ASSUME NEW t \in Callers, reset(t) PROVE SessionMoves
    <2>1. shell \in Versions
        BY DEF Typed, TypeOK, RuntimeTypeOK
    <2>2. QED
        BY <1>6, <2>1 DEF reset, ResetBegin, ResetUpdate, ResetFail, ResetReturn,
           Reset, SaveState, SaveFails, storeVars, SessionMoves, Cleared
<1>7. CASE check_and_download
    <2> PICK r \in Runs : Download(r) \/ JobStep(r)
        BY <1>7 DEF check_and_download
    <2>1. CASE JobStage(r)
        <3>1. job[r].seq \in Seqs /\ job[r].meta \in BundleMeta
            BY <2>1 DEF JobStage, Typed, JobsTyped, RunTyped
        <3>2. QED
            BY <2>1, <3>1 DEF JobStage, SaveState, SessionMoves, Staged
    <2>2. CASE ~JobStage(r)
        BY <2>2 DEF Download, JobStep, JobGate, JobExtract, JobFail, JobAllocate,
           JobRefused, JobUnsaved, SaveFails, JobReturn, JobRename, storeVars,
           SessionMoves
    <2>3. QED
        BY <2>1, <2>2
<1>8. CASE RecoveryNext
    <2>1. CASE \/ RecPageIsFine \/ RecCall \/ RecLocks \/ RecCollect
               \/ RecStagedOnly
               \/ \E w \in Windows : RecReload(w) \/ RecReloadFails(w)
               \/ RecFlag \/ RecReloaded \/ RecSwitch
        BY <2>1 DEF RecPageIsFine, RecCall, RecLocks, RecCollect, RecStagedOnly,
           RecReload, RecReloadFails, RecFlag, RecReloaded, RecSwitch, storeVars,
           SessionMoves
    <2>2. CASE \/ RecArm \/ RecVersion \/ RecSwap \/ RecKeep \/ RecDiscard
               \/ RecDiscarded \/ RecApplyFail
        BY <2>2, Constants, ApplyMoves DEF RecArm, RecVersion, RecSwap, RecKeep,
           RecDiscard, RecDiscarded, RecApplyFail
    <2>3. QED
        BY <1>8, <2>1, <2>2 DEF RecoveryNext
<1>9. QED
    BY <1>1, <1>2, <1>3, <1>4, <1>5, <1>6, <1>7, <1>8 DEF Session

LEMMA StepMoves == Typed /\ [Next]_vars => DiskMoves
<1> SUFFICES ASSUME Typed, [Next]_vars PROVE DiskMoves
    OBVIOUS
<1>1. CASE Launch
    BY <1>1 DEF Launch, LaunchSaved, LaunchUnsaved, SaveState, SaveFails,
       DiskMoves, SessionMoves, Booted
<1>2. CASE LaunchCut
    BY <1>2 DEF LaunchCut, LaunchKilled, DiskMoves, Booted
<1>3. CASE Session
    BY <1>3, SessionStepMoves DEF DiskMoves
<1>4. CASE UNCHANGED vars
    BY <1>4 DEF vars, DiskMoves, SessionMoves
<1>5. QED
    BY <1>1, <1>2, <1>3, <1>4 DEF Next

(***************************************************************************)
(* The refinement.                                                         *)
(***************************************************************************)
LEMMA View ==
    /\ BundleOf(disk.committed) = BundleIn(disk, disk.committed)
    /\ BundleOf(disk.booting) = BundleIn(disk, disk.booting)
    /\ ChancesLeft = ChancesIn(disk)
    /\ Intact \in SUBSET {"good", "trial"}
    /\ "good" \in Intact <=> disk.committed \in Present
    /\ "trial" \in Intact <=> disk.booting \in Present
BY DEF BundleOf, BundleIn, ChancesLeft, ChancesIn, Intact

LEMMA ViewNext ==
    /\ BundleOf(disk.committed)' = BundleIn(disk', disk'.committed)
    /\ BundleOf(disk.booting)' = BundleIn(disk', disk'.booting)
    /\ ChancesLeft' = ChancesIn(disk')
    /\ Intact' \in SUBSET {"good", "trial"}
BY DEF BundleOf, BundleIn, ChancesLeft, ChancesIn, Intact

LEMMA PointerInit == Init => Rollback!Init
BY View DEF Init, StoreInit, Default, Rollback!Init, BundleIn, ChancesIn,
   NoVersion, NoSeq

LEMMA PointerBoot ==
    ASSUME Typed, NEW sh \in Shells, disk' = ResolveBoot(disk, sh, Present)
    PROVE  Rollback!Boot(sh)
<1>1. Sound(disk) /\ sh \in Versions /\ Present \in SUBSET Seqs
    BY PresentType, Constants DEF Typed
<1> DEFINE boot == ResolveBoot(disk, sh, Present)
<1>2. /\ boot.max_version_seen = MaxVersion(disk.max_version_seen, sh)
      /\ BundleIn(boot, boot.committed) =
             IF Beaten(disk, disk.committed, sh) /\ disk.committed \in Present
             THEN BundleIn(disk, disk.committed) ELSE Absent
      /\ \/ /\ Beaten(disk, disk.booting, sh)
            /\ disk.booting \in Present
            /\ ChancesIn(disk) = 2
            /\ ChancesIn(boot) = 1
            /\ BundleIn(boot, boot.booting) = BundleIn(disk, disk.booting)
            /\ boot.failed = disk.failed
         \/ /\ BundleIn(disk, disk.booting) # Absent =>
                   \/ ~Beaten(disk, disk.booting, sh)
                   \/ ChancesIn(disk) = 1
                   \/ disk.booting \notin Present
            /\ boot.failed = disk.failed \cup
                   (IF Beaten(disk, disk.booting, sh)
                    THEN {BundleIn(disk, disk.booting).archive_sha256}
                    ELSE {})
            /\ OffTrial(boot) \/ OnTrial(boot)
    BY <1>1, BootView
<1>3. disk' = boot
    OBVIOUS
<1> HIDE DEF boot
<1>4. disk'.max_version_seen =
          IF disk.max_version_seen < sh THEN sh ELSE disk.max_version_seen
    BY <1>2, <1>3 DEF MaxVersion
<1>5. QED
    BY <1>2, <1>3, <1>4, View, ViewNext
    DEF Rollback!Boot, Rollback!KeepTrial, Rollback!EndTrial, Rollback!Beats,
        Rollback!NoTrial, Rollback!NewTrial, Beaten, OffTrial, OnTrial, Fresh

LEMMA PointerStep == Typed /\ [Next]_vars => Rollback!Next
<1> SUFFICES ASSUME Typed, [Next]_vars PROVE Rollback!Next
    OBVIOUS
<1>1. DiskMoves /\ Sound(disk) /\ shell \in Versions /\ Intact' \in SUBSET {"good", "trial"}
    BY StepMoves, ViewNext DEF Typed, TypeOK, RuntimeTypeOK
<1>2. ASSUME SameView(disk, disk') PROVE Rollback!Next
    BY <1>1, <1>2, View, ViewNext DEF SameView, Rollback!Next
<1>3. CASE UNCHANGED disk
    BY <1>2, <1>3 DEF SameView
<1>4. CASE Booted(disk')
    BY <1>1, <1>4, PointerBoot, Constants DEF Booted, Rollback!Next
<1>5. CASE Acked(disk')
    <2>1. PICK booted : disk' = Ack(disk, booted).state
        BY <1>5 DEF Acked
    <2>2. CASE disk' = disk
        BY <1>3, <2>2
    <2>3. CASE disk' # disk
        BY <1>1, <2>1, <2>3, AckView, View, ViewNext
        DEF OffTrial, Rollback!Next, Rollback!Commit, Rollback!NoTrial
    <2>4. QED
        BY <2>2, <2>3
<1>6. CASE Promoted(disk')
    <2>1. /\ BundleIn(disk, disk.booting) = Absent
          /\ OnTrial(disk')
          /\ BundleIn(disk', disk'.committed) = BundleIn(disk, disk.committed)
          /\ disk'.failed = disk.failed
          /\ disk'.max_version_seen = disk.max_version_seen
        BY <1>1, <1>6, ArmView DEF Promoted
    <2>2. QED
        BY <1>1, <2>1, View, ViewNext
        DEF OnTrial, Fresh, Rollback!Next, Rollback!Arm, Rollback!NewTrial
<1>7. CASE Discarded(disk')
    BY <1>1, <1>2, <1>7, DiscardView DEF Discarded
<1>8. CASE Staged(disk')
    BY <1>1, <1>2, <1>8, StageView DEF Staged
<1>9. CASE Cleared(disk')
    <2>1. PICK watermark \in Versions \cup {NoVersion} :
              disk' = [Default EXCEPT !.max_version_seen = watermark]
        BY <1>9 DEF Cleared
    <2>2. /\ disk'.committed = NoSeq
          /\ disk'.booting = NoSeq
          /\ disk'.failed = {}
          /\ disk'.max_version_seen \in Versions \cup {0}
        BY <2>1 DEF Default, NoVersion
    <2>3. QED
        BY <1>1, <2>2, ViewNext
        DEF BundleIn, ChancesIn, Rollback!Next, Rollback!Forget, Rollback!NoTrial
<1>10. QED
    BY <1>1, <1>3, <1>4, <1>5, <1>6, <1>7, <1>8, <1>9 DEF DiskMoves, SessionMoves

\* Whatever the threads, the pipeline, boot recovery, kills and faults do to
\* state.json, it goes through the transitions of the abstract rollback
\* pointer (machine.rs) and no others.
THEOREM StateImplementsPointer == Spec => ImplementsRollback
BY PointerInit, PointerStep, TypedAlways, PTL
DEF Spec, ImplementsRollback, Rollback!Spec

(***************************************************************************)
(* The memory.                                                             *)
(***************************************************************************)
LEMMA MemoryStep ==
    Typed /\ [Next]_vars =>
        \/ /\ disk'.max_version_seen >= disk.max_version_seen
           /\ disk.failed \subseteq disk'.failed
        \/ Forgotten(disk')
<1> DEFINE Grows == /\ disk'.max_version_seen >= disk.max_version_seen
                    /\ disk.failed \subseteq disk'.failed
<1> SUFFICES ASSUME Typed, [Next]_vars PROVE Grows \/ Forgotten(disk')
    OBVIOUS
<1>1. DiskMoves /\ Sound(disk) /\ shell \in Versions
    BY StepMoves DEF Typed, TypeOK, RuntimeTypeOK
<1>2. disk.max_version_seen \in Nat
    BY <1>1, SoundFacts
<1>3. CASE UNCHANGED disk
    BY <1>2, <1>3
<1>4. CASE Booted(disk')
    <2>1. PICK sh \in Shells : disk' = ResolveBoot(disk, sh, Present)
        BY <1>4 DEF Booted
    <2>2. sh \in Versions /\ Present \in SUBSET Seqs /\ sh \in Nat
        BY PresentType, Constants, VersionsAssumption DEF VersionsAssumption
    <2>3. /\ disk'.max_version_seen = MaxVersion(disk.max_version_seen, sh)
          /\ disk.failed \subseteq disk'.failed
        BY <1>1, <2>1, <2>2, BootView
    <2>4. QED
        BY <1>2, <2>2, <2>3 DEF MaxVersion
<1>5. CASE Acked(disk')
    <2>1. PICK booted : disk' = Ack(disk, booted).state
        BY <1>5 DEF Acked
    <2>2. \/ disk' = disk
          \/ /\ disk'.failed = disk.failed
             /\ disk'.max_version_seen > disk.max_version_seen
             /\ disk'.max_version_seen = BundleIn(disk, disk.booting).version
             /\ BundleIn(disk, disk.booting) # Absent
        BY <1>1, <2>1, AckView
    <2>3. BundleIn(disk, disk.booting) # Absent =>
              BundleIn(disk, disk.booting).version \in Nat
        BY <1>1, SoundFacts, MetaFacts DEF BundleIn
    <2>4. QED
        BY <1>2, <2>2, <2>3
<1>6. CASE Promoted(disk')
    BY <1>1, <1>2, <1>6, ArmView DEF Promoted
<1>7. CASE Discarded(disk')
    BY <1>1, <1>2, <1>7, DiscardView DEF Discarded, SameView
<1>8. CASE Staged(disk')
    BY <1>1, <1>2, <1>8, StageView DEF Staged, SameView
<1>9. CASE Cleared(disk')
    BY <1>9 DEF Cleared, Forgotten, Default
<1>10. QED
    BY <1>1, <1>3, <1>4, <1>5, <1>6, <1>7, <1>8, <1>9 DEF DiskMoves, SessionMoves

\* The watermark never falls and the blacklist never shrinks, in any
\* interleaving, except when the whole state is reset or lost.
THEOREM MemoryGrows == Spec => MemoryOnlyGrows
BY MemoryStep, TypedAlways, PTL DEF Spec, MemoryOnlyGrows

(***************************************************************************)
(* The committed bundle.                                                   *)
(***************************************************************************)
\* The metadata of a bundle stays the same for as long as a pointer names it.
LEMMA MetaStep ==
    Typed /\ [Next]_vars =>
        \A seq \in Referenced(disk) \cap Referenced(disk') :
            disk'.versions[seq] = disk.versions[seq]
<1> SUFFICES ASSUME Typed, [Next]_vars,
                    NEW seq \in Referenced(disk), seq \in Referenced(disk')
             PROVE  disk'.versions[seq] = disk.versions[seq]
    OBVIOUS
<1>1. DiskMoves /\ Sound(disk)
    BY StepMoves DEF Typed
<1>2. ASSUME LetsGo(disk, disk') PROVE disk'.versions[seq] = disk.versions[seq]
    BY <1>2 DEF LetsGo
<1>3. CASE Booted(disk')
    BY <1>1, <1>2, <1>3, BootLetsGo, PresentType, Constants DEF Booted
<1>4. CASE Acked(disk')
    BY <1>1, <1>2, <1>4, AckLetsGo DEF Acked
<1>5. CASE Promoted(disk')
    BY <1>1, <1>2, <1>5, ArmLetsGo DEF Promoted
<1>6. CASE Discarded(disk')
    BY <1>1, <1>2, <1>6, DiscardLetsGo DEF Discarded
<1>7. CASE Staged(disk')
    <2> PICK new \in Seqs, meta \in BundleMeta :
              ~StageRefused(disk, new, meta) /\ disk' = Stage(disk, new, meta).state
        BY <1>7 DEF Staged
    <2>1. ~StageRefused(disk, new, meta) /\ disk' = Stage(disk, new, meta).state
        OBVIOUS
    <2>2. seq # new
        BY <2>1 DEF StageRefused
    <2>3. QED
        BY <1>1, <2>1, <2>2, StageLetsGo
<1>8. CASE Cleared(disk')
    BY <1>8 DEF Cleared, Default, Referenced
<1>9. CASE UNCHANGED disk
    BY <1>9
<1>10. QED
    BY <1>1, <1>3, <1>4, <1>5, <1>6, <1>7, <1>8, <1>9 DEF DiskMoves, SessionMoves

\* An ack that got as far as the store has been noted for boot recovery.
AckedFirst == \A t \in Threads : call[t].pc = "ack" => page_acked

LEMMA AckedFirstStep == Typed /\ AckedFirst /\ [Next]_vars => AckedFirst'
<1> SUFFICES ASSUME Typed, AckedFirst, [Next]_vars PROVE AckedFirst'
    OBVIOUS
<1>1. Idle.pc = "idle"
    BY DEF Idle
<1>2. CASE Launch \/ Quit
    BY <1>1, <1>2 DEF Launch, LaunchSaved, LaunchUnsaved, Start, Quit, Exit, AckedFirst
<1>3. CASE InSession
    <2>1. \A t : AckBegin(t) => page_acked'
        BY DEF AckBegin
    <2>2. page_acked => page_acked'
        BY <1>3, <2>1 DEF InSession
    <2>3. QED
        BY <1>1, <1>3, <2>1, <2>2 DEF InSession, CallMoves, AckedFirst
<1>4. QED
    BY <1>2, <1>3, WhoMoves

LEMMA AckedFirstAlways == Spec => []AckedFirst
<1>1. Init => AckedFirst
    BY DEF Init, RuntimeInit, Idle, AckedFirst
<1>2. QED
    BY <1>1, AckedFirstStep, TypedAlways, PTL DEF Spec

\* Which launch a boot resolution belongs to: one that comes up, with the
\* shell it recorded, or one that was cut.
LEMMA WhoBoots ==
    Launch \/ LaunchCut =>
        /\ proc = "down"
        /\ \/ UNCHANGED disk
           \/ \E sh \in Shells : /\ disk' = ResolveBoot(disk, sh, Present)
                                 /\ proc' = "up" => sh = shell'
BY DEF Launch, LaunchSaved, LaunchUnsaved, SaveState, SaveFails, Start, LaunchCut,
   LaunchKilled, runtimeVars

\* Only an ack moves the committed pointer on, and only a launch, a reset or a
\* lost file takes it away.
LEMMA CommittedStep ==
    Typed /\ AckedFirst /\ [Next]_vars =>
        (disk.committed # NoSeq /\ disk'.committed # disk.committed =>
           \/ disk'.committed = disk.booting /\ page_acked
           \/ /\ disk'.committed = NoSeq
              /\ proc = "down"
              /\ \/ disk.committed \notin Present
                 \/ \E sh \in Shells : /\ VersionOn(disk.committed) <= sh
                                       /\ proc' = "up" => sh = shell'
           \/ Forgotten(disk'))
<1> DEFINE ByAck == disk'.committed = disk.booting /\ page_acked
           ByLaunch == /\ disk'.committed = NoSeq
                       /\ proc = "down"
                       /\ \/ disk.committed \notin Present
                          \/ \E sh \in Shells : /\ VersionOn(disk.committed) <= sh
                                                /\ proc' = "up" => sh = shell'
<1> SUFFICES ASSUME Typed, AckedFirst, [Next]_vars,
                    disk.committed # NoSeq, disk'.committed # disk.committed
             PROVE  ByAck \/ ByLaunch \/ Forgotten(disk')
    OBVIOUS
<1>1. Sound(disk) /\ disk \in State
    BY DEF Typed, Sound, Loose
<1>2. CASE Launch \/ LaunchCut
    <2>1. PICK sh \in Shells :
              disk' = ResolveBoot(disk, sh, Present) /\ (proc' = "up" => sh = shell')
        BY <1>2, WhoBoots
    <2>2. proc = "down"
        BY <1>2, WhoBoots
    <2>3. /\ disk'.committed = NoSeq
          /\ \/ disk.committed \notin Present
             \/ ~(disk.versions[disk.committed].version > sh)
        <3> DEFINE boot == ResolveBoot(disk, sh, Present)
        <3>1. sh \in Versions /\ Present \in SUBSET Seqs
            BY PresentType, Constants
        <3>2. boot.committed = IF /\ disk.committed # NoSeq
                                  /\ disk.committed \in Present
                                  /\ disk.versions[disk.committed].version > sh
                               THEN disk.committed ELSE NoSeq
            BY <1>1, <3>1, BootPointers
        <3>3. disk'.committed = boot.committed
            BY <2>1
        <3> HIDE DEF boot
        <3>4. QED
            BY <3>2, <3>3
    <2>4. disk.versions[disk.committed].version \in Nat /\ sh \in Nat
        BY <1>1, StateFacts, Constants, VersionsAssumption
        DEF VersionsAssumption, Sound, Loose, Known, State, Pointer
    <2>5. disk.committed \in Present => VersionOn(disk.committed) <= sh
        BY <2>3, <2>4 DEF VersionOn
    <2>6. ByLaunch
        BY <2>1, <2>2, <2>3, <2>5
    <2>7. QED
        BY <2>6
<1>3. CASE Session
    <2>1. SessionMoves
        BY <1>3, SessionStepMoves
    <2>2. CASE Acked(disk')
        <3>1. PICK t \in Threads : call[t].pc = "ack" /\ disk' = Ack(disk, call[t].seq).state
            BY <2>2 DEF Acked
        <3>2. page_acked
            BY <3>1 DEF AckedFirst
        <3>3. QED
            BY <1>1, <3>1, <3>2, AckPointers
    <2>3. CASE Promoted(disk')
        BY <1>1, <2>3, ArmPointers DEF Promoted
    <2>4. CASE Discarded(disk')
        BY <1>1, <2>4, DiscardPointers DEF Discarded
    <2>5. CASE Staged(disk')
        BY <1>1, <2>5, StagePointers DEF Staged
    <2>6. CASE Cleared(disk')
        BY <2>6 DEF Cleared, Forgotten, Default
    <2>7. QED
        BY <2>1, <2>2, <2>3, <2>4, <2>5, <2>6 DEF SessionMoves
<1>4. QED
    BY <1>2, <1>3 DEF Next, vars

\* A committed bundle is given up only for one that acked, or by a launch whose
\* shell has caught up with it or whose disk has lost it, or with all the
\* state: no failed trial costs it, in any interleaving and under any fault.
THEOREM CommittedSurvives == Spec => CommittedSurvivesTrials
BY CommittedStep, TypedAlways, AckedFirstAlways, PTL
DEF Spec, CommittedSurvivesTrials

(***************************************************************************)
(* The garbage of a boot.                                                  *)
(***************************************************************************)
LEMMA CollectStep ==
    ASSUME {"save", "delete"} \cap Faults = {}
    PROVE  Typed /\ [Next]_vars =>
               (proc = "down" /\ proc' = "up" =>
                   /\ Present' \subseteq Referenced(disk')
                   /\ Referenced(disk') \subseteq Present' \cup {disk'.staged})
<1> SUFFICES ASSUME Typed, [Next]_vars, proc = "down", proc' = "up"
             PROVE  /\ Present' \subseteq Referenced(disk')
                    /\ Referenced(disk') \subseteq Present' \cup {disk'.staged}
    OBVIOUS
<1>1. Launch
    BY WhoMoves DEF Quit, Exit, InSession
<1>2. PICK sh \in Shells : LaunchSaved(sh)
    BY <1>1 DEF Launch, LaunchUnsaved, SaveFails
<1> DEFINE boot == ResolveBoot(disk, sh, Present)
<1>3. /\ disk' = boot
      /\ bundles' = [seq \in Seqs |-> IF seq \in BootEffects(boot, Present)
                                      THEN Absent ELSE bundles[seq]]
    BY <1>2 DEF LaunchSaved, SaveState, ApplyEffects
<1>4. /\ boot.committed # NoSeq => boot.committed \in Present
      /\ boot.booting # NoSeq => boot.booting \in Present
    BY BootPointers, PresentType, Constants DEF Typed
<1>5. boot.last_good = boot.committed
    BY ResolveBootSound, PresentType, Constants DEF Typed, Sound, Loose, Distinct
<1> HIDE DEF boot
<1>6. Present' = Present \cap Referenced(boot)
    BY <1>3 DEF Present, BootEffects
<1>7. QED
    BY <1>3, <1>4, <1>5, <1>6 DEF Referenced

\* Where saves and deletes do not fail, a launch leaves exactly what state.json
\* names on disk, whatever killed runs left there; a staged bundle that waits
\* behind a trial may be missing.
THEOREM BootCollectsAll ==
    ASSUME {"save", "delete"} \cap Faults = {}
    PROVE  Spec => BootCollects
BY CollectStep, TypedAlways, PTL DEF Spec, BootCollects

(***************************************************************************)
(* One run at a time.                                                      *)
(***************************************************************************)
\* Holding update_lock.
Busy(r) == job[r].pc \notin {"idle", "done"}

Serial == \A q, r \in Runs : Busy(q) /\ Busy(r) => q = r

\* Past the gate, and not staged yet.
WorkPoints == {"download", "extract", "allocated", "renamed"}

\* Who moves the runs: the sweep of a reset, the end of the process, or one of
\* them, which takes the lock, goes on or has been collected.
RunMoves(r) ==
    /\ \A q \in Runs \ {r} : job'[q] = job[q]
    /\ \/ JobLock(r) /\ (proc = "up" \/ rec.pc = "job")
       \/ JobStep(r)
       \/ job'[r] = NoJob

JobsMove ==
    \/ UNCHANGED job
    \/ SweepTemp /\ \E t \in Threads : ResetReturn(t)
    \/ JobLost
    \/ \E r \in Runs : RunMoves(r)

LEMMA OneRunSteps ==
    ASSUME Typed, NEW r \in Runs, JobLock(r) \/ JobStep(r)
    PROVE  \A q \in Runs \ {r} : job'[q] = job[q]
<1>1. job \in [Runs -> JobRecord]
    BY DEF Typed, TypeOK, UpdateTypeOK, JobRecord
<1>2. QED
    BY <1>1 DEF JobLock, JobStep, JobGate, JobExtract, JobFail, JobAllocate,
       JobRename, JobStage, JobRefused, JobUnsaved, JobReturn, Goes, Finish

LEMMA WhoRuns == Typed /\ [Next]_vars => JobsMove
<1> SUFFICES ASSUME Typed, [Next]_vars PROVE JobsMove
    OBVIOUS
<1>1. CASE UNCHANGED job
    BY <1>1 DEF JobsMove
<1>2. CASE Launch \/ LaunchCut \/ Quit \/ PageStep \/ Environment \/ UNCHANGED vars
    BY <1>2 DEF Launch, LaunchCut, Quit, PageStep, Environment, vars, JobsMove
<1>3. ASSUME NEW t \in Callers, notify_app_ready(t) \/ apply_staged(t) \/ reset(t)
      PROVE  JobsMove
    BY <1>3, Constants DEF notify_app_ready, apply_staged, reset, JobsMove
<1>4. CASE check_and_download
    BY <1>4, OneRunSteps DEF check_and_download, Download, CanCall, RunMoves,
       JobsMove
<1>5. CASE RecoveryNext
    <2>1. CASE RecLocks
        BY <2>1, OneRunSteps, Constants DEF RecLocks, RunMoves, JobsMove
    <2>2. CASE RecCollect
        BY <2>2, Constants DEF RecCollect, RunMoves, JobsMove, Typed, TypeOK,
           UpdateTypeOK
    <2>3. CASE ~RecLocks /\ ~RecCollect
        BY <1>1, <1>5, <2>3 DEF RecoveryNext, RecPageIsFine, RecCall, RecStagedOnly,
           RecSwitch, RecArm, RecVersion, RecSwap, RecFlag, RecKeep, RecDiscard,
           RecDiscarded, RecApplyFail, RecReload, RecReloadFails, RecReloaded
    <2>4. QED
        BY <2>1, <2>2, <2>3
<1>6. QED
    BY <1>2, <1>3, <1>4, <1>5 DEF Next, Session

\* The sweep changes nothing but the files a run still has to come back to.
LEMMA SweepKeeps ==
    ASSUME Typed, SweepTemp, NEW r \in Runs
    PROVE  /\ job'[r].pc = job[r].pc /\ job'[r].meta = job[r].meta
           /\ job'[r].seq = job[r].seq /\ job'[r].effects = job[r].effects
           /\ job'[r].whole = job[r].whole /\ job'[r].outcome = job[r].outcome
<1>1. job[r] \in JobRecord
    BY DEF Typed, TypeOK, UpdateTypeOK, JobRecord
<1>2. QED
    BY <1>1 DEF SweepTemp, JobRecord

LEMMA StepIsBusy ==
    ASSUME NEW r \in Runs, JobStep(r)
    PROVE  Busy(r)
BY DEF Busy, JobStep, JobGate, JobExtract, JobFail, JobAllocate, JobRename,
   JobStage, JobRefused, JobUnsaved, JobReturn

LEMMA SerialStep == Typed /\ Serial /\ [Next]_vars => Serial'
<1> SUFFICES ASSUME Typed, Serial, [Next]_vars,
                    NEW p \in Runs, NEW q \in Runs, Busy(p)', Busy(q)'
             PROVE  p = q
    BY DEF Serial
<1>1. CASE UNCHANGED job
    BY <1>1 DEF Busy, Serial
<1>2. CASE SweepTemp
    BY <1>2, SweepKeeps DEF Busy, Serial
<1>3. CASE JobLost
    BY <1>3 DEF JobLost, NoJob, Busy
<1>4. ASSUME NEW r \in Runs, RunMoves(r) PROVE p = q
    <2>1. CASE JobLock(r)
        BY <1>4, <2>1 DEF RunMoves, JobLock, LockFree, Busy
    <2>2. CASE JobStep(r)
        BY <1>4, <2>2, StepIsBusy DEF RunMoves, Busy, Serial
    <2>3. CASE job'[r] = NoJob
        BY <1>4, <2>3 DEF RunMoves, NoJob, Busy, Serial
    <2>4. QED
        BY <1>4, <2>1, <2>2, <2>3 DEF RunMoves
<1>5. QED
    BY <1>1, <1>2, <1>3, <1>4, WhoRuns DEF JobsMove

LEMMA SerialAlways == Spec => []Serial
<1>1. Init => Serial
    BY DEF Init, UpdateInit, NoJob, Busy, Serial
<1>2. QED
    BY <1>1, SerialStep, TypedAlways, PTL DEF Spec

\* A run gets to work by passing the gate, and keeps its bundle from then on.
LEMMA WorkStep ==
    ASSUME Typed, [Next]_vars, NEW q \in Runs, job'[q].pc \in WorkPoints
    PROVE  \/ job[q].pc \in WorkPoints /\ job'[q].meta = job[q].meta
           \/ \E m \in Manifests : /\ JobGate(q, m)
                                    /\ Gate(m, disk, shell) = "Available"
                                    /\ job'[q].meta = m.meta
<1>1. job \in [Runs -> JobRecord]
    BY DEF Typed, TypeOK, UpdateTypeOK, JobRecord
<1>2. CASE UNCHANGED job
    BY <1>2
<1>3. CASE SweepTemp
    BY <1>3, SweepKeeps
<1>4. CASE JobLost
    BY <1>4 DEF JobLost, NoJob, WorkPoints
<1>5. ASSUME NEW r \in Runs \ {q}, RunMoves(r) PROVE job'[q] = job[q]
    BY <1>5 DEF RunMoves
<1>6. CASE JobLock(q)
    BY <1>1, <1>6 DEF JobLock, Goes, WorkPoints
<1>7. ASSUME NEW outcome, Finish(q, outcome) PROVE FALSE
    BY <1>1, <1>7 DEF Finish, NoJob, WorkPoints
<1>8. CASE JobStep(q)
    <2>1. ASSUME NEW m \in Manifests, JobGate(q, m)
          PROVE  Gate(m, disk, shell) = "Available" /\ job'[q].meta = m.meta
        BY <1>1, <1>7, <2>1 DEF JobGate, JobRecord
    <2>2. CASE JobFail(q) \/ JobUnsaved(q) \/ JobReturn(q)
        BY <1>7, <2>2 DEF JobFail, JobUnsaved, JobReturn
    <2>3. CASE JobExtract(q) \/ JobRename(q)
        BY <1>1, <2>3 DEF JobExtract, JobRename, Goes, JobRecord, WorkPoints
    <2>4. ASSUME NEW seq \in Seqs, JobAllocate(q, seq)
          PROVE  job[q].pc \in WorkPoints /\ job'[q].meta = job[q].meta
        BY <1>1, <2>4 DEF JobAllocate, JobRecord, WorkPoints
    <2>5. CASE JobStage(q) \/ JobRefused(q)
        BY <1>1, <2>5 DEF JobStage, JobRefused, JobRecord, WorkPoints
    <2>6. QED
        BY <1>8, <2>1, <2>2, <2>3, <2>4, <2>5 DEF JobStep
<1>9. CASE job'[q] = NoJob
    BY <1>9 DEF NoJob, WorkPoints
<1>10. QED
    BY <1>2, <1>3, <1>4, <1>5, <1>6, <1>8, <1>9, WhoRuns DEF JobsMove, RunMoves

LEMMA StagedStep ==
    Typed /\ [Next]_vars =>
        disk'.staged \in {disk.staged, NoSeq} \/ \E r \in Runs : JobStage(r)
<1> SUFFICES ASSUME Typed, [Next]_vars, ~\E r \in Runs : JobStage(r)
             PROVE  disk'.staged \in {disk.staged, NoSeq}
    OBVIOUS
<1>1. DiskMoves /\ Sound(disk) /\ disk \in State
    BY StepMoves DEF Typed, Sound, Loose
<1>2. CASE Booted(disk')
    BY <1>1, <1>2, BootStaged, PresentType, Constants DEF Booted
<1>3. CASE Acked(disk')
    BY <1>1, <1>3, AckStaged DEF Acked
<1>4. CASE Promoted(disk') \/ Discarded(disk')
    BY <1>1, <1>4, ArmAndDiscardStaged DEF Promoted, Discarded
<1>5. CASE Cleared(disk')
    BY <1>5 DEF Cleared, Default
<1>6. QED
    BY <1>1, <1>2, <1>3, <1>4, <1>5 DEF DiskMoves, SessionMoves, Staged

LEMMA NoDoubleDownloadStep ==
    Typed /\ Serial /\ NoDoubleDownload /\ [Next]_vars => NoDoubleDownload'
<1> SUFFICES ASSUME Typed, Serial, NoDoubleDownload, [Next]_vars,
                    NEW q \in Runs, job'[q].pc \in WorkPoints, disk'.staged # NoSeq
             PROVE  disk'.versions[disk'.staged].archive_sha256
                        # job'[q].meta.archive_sha256
    BY DEF NoDoubleDownload, HashOn, WorkPoints
<1>1. ASSUME NEW r \in Runs, JobStage(r) PROVE FALSE
    <2>1. job'[r].pc = "staged"
        BY <1>1 DEF JobStage, Typed, TypeOK, UpdateTypeOK
    <2>2. q # r
        BY <2>1 DEF WorkPoints
    <2>3. JobStep(r)
        BY <1>1 DEF JobStep
    <2>4. job'[q] = job[q]
        BY <2>2, <2>3, OneRunSteps
    <2>5. Busy(q) /\ Busy(r)
        BY <1>1, <2>4 DEF Busy, JobStage, WorkPoints
    <2>6. QED
        BY <2>2, <2>5 DEF Serial
<1>2. disk'.staged = disk.staged /\ disk.staged # NoSeq
    BY <1>1, StagedStep
<1>3. disk'.versions[disk.staged] = disk.versions[disk.staged]
    BY <1>2, MetaStep DEF Referenced
<1>4. disk.versions[disk.staged] # Absent
    BY <1>2 DEF Typed, Sound, Loose, Known
<1>5. CASE job[q].pc \in WorkPoints /\ job'[q].meta = job[q].meta
    BY <1>2, <1>3, <1>5 DEF NoDoubleDownload, HashOn, WorkPoints
<1>6. ASSUME NEW m \in Manifests, Gate(m, disk, shell) = "Available",
             job'[q].meta = m.meta
      PROVE  disk.versions[disk.staged].archive_sha256 # job'[q].meta.archive_sha256
    BY <1>2, <1>4, <1>6 DEF Gate, AlreadyStaged
<1>7. QED
    BY <1>2, <1>3, <1>5, <1>6, WorkStep

\* While a run works on an archive that archive is not staged, however many
\* pages and boot recovery ask for it at once: update_lock lets one run in at
\* a time, and the gate is asked under it.
THEOREM RunsDoNotRepeat == Spec => []NoDoubleDownload
<1>1. Init => NoDoubleDownload
    BY DEF Init, UpdateInit, NoJob, NoDoubleDownload
<1>2. QED
    BY <1>1, NoDoubleDownloadStep, TypedAlways, SerialAlways, PTL DEF Spec
=============================================================================
