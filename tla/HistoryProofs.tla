---------------------------- MODULE HistoryProofs --------------------------
(***************************************************************************)
(* The two-strike rule over the whole life of an install: the strikes that *)
(* state.json counts are the armings that really happened, for any set of  *)
(* bundles, shells, windows, threads and manifests, and every fault.       *)
(***************************************************************************)
EXTENDS TrialHistory, PointerProofs

(***************************************************************************)
(* A history adds nothing to what the system can do.                       *)
(***************************************************************************)
LEMMA HistoryStep == [HistoryNext]_historyVars => [Next]_vars
BY DEF HistoryNext, Next, historyVars

LEMMA HistoryTyped == HistorySpec => []Typed
<1>1. HistoryInit => Init
    BY DEF HistoryInit
<1>2. Init => CallsVersioned
    BY DEF Init, RuntimeInit, Idle, CallsVersioned
<1>3. QED
    BY <1>1, <1>2, HistoryStep, InitTyped, StepTyped, PTL DEF HistorySpec

(***************************************************************************)
(* What becomes of the trial, its strikes and the blacklist.               *)
(***************************************************************************)
\* After a boot, the bundle on trial is the one that was, with its first
\* strike, or another one, with none.
LEMMA BootTrial ==
    ASSUME NEW st, Sound(st), NEW embedded \in Versions, NEW present \in SUBSET Seqs
    PROVE  LET boot == ResolveBoot(st, embedded, present)
           IN  /\ boot.booting # NoSeq =>
                      IF boot.booting = st.booting
                      THEN st.booting_strikes = 0 /\ boot.booting_strikes = 1
                      ELSE boot.booting_strikes = 0
               /\ boot.failed \ st.failed # {} =>
                      /\ st.booting # NoSeq
                      /\ st.booting_strikes = 1 \/ st.booting \notin present
<1> DEFINE tried    == ResolveTrial(st, embedded, present)
           folded   == FoldWatermark(tried, embedded)
           fresh    == DropStale(folded, embedded, present)
           promoted == PromoteAtBoot(fresh, embedded, present)
           boot     == CollectGarbage(promoted)
<1>1. boot = ResolveBoot(st, embedded, present)
    BY DEF ResolveBoot
<1>2. /\ Loose(tried)
      /\ tried.booting # NoSeq => tried.versions[tried.booting].version > embedded
    BY ResolveTrialLoose
<1>3. Loose(folded)
    BY <1>2, FoldWatermarkLoose
<1>4. Loose(fresh)
    BY <1>3, DropStaleLoose
<1>5. Loose(promoted)
    BY <1>4, PromoteAtBootLoose
<1>6. /\ folded.staged = tried.staged
      /\ folded.booting = tried.booting
      /\ folded.booting_strikes = tried.booting_strikes
      /\ folded.failed = tried.failed
    BY <1>2 DEF FoldWatermark, Loose, State
<1>7. /\ fresh.staged = tried.staged
      /\ fresh.booting = tried.booting
      /\ fresh.booting_strikes = tried.booting_strikes
      /\ fresh.failed = tried.failed
    BY <1>3, <1>6 DEF DropStale, Loose, State
<1>8. /\ promoted.failed = fresh.failed
      /\ \/ /\ promoted.booting = fresh.booting
            /\ promoted.booting_strikes = fresh.booting_strikes
         \/ /\ fresh.booting = NoSeq
            /\ promoted.booting = fresh.staged
            /\ promoted.booting_strikes = 0
    BY <1>4 DEF PromoteAtBoot, Arm, Loose, State
<1>9. /\ boot.booting = promoted.booting
      /\ boot.booting_strikes = promoted.booting_strikes
      /\ boot.failed = promoted.failed
    BY <1>5 DEF CollectGarbage, Loose, State
<1>10. /\ tried.staged = st.staged
       /\ \/ /\ tried.booting = st.booting
             /\ tried.booting # NoSeq
             /\ tried.booting_strikes = 1
             /\ tried.failed = st.failed
             /\ st.booting_strikes = 0
          \/ /\ tried.booting = NoSeq
             /\ tried.failed # st.failed =>
                    /\ st.booting # NoSeq
                    /\ st.booting_strikes = 1 \/ st.booting \notin present
    <2>1. CASE tried.booting # NoSeq
        BY <2>1, TrialResolved
    <2>2. CASE tried.booting = NoSeq
        <3>1. /\ tried.staged = st.staged
              /\ st.booting # NoSeq => \/ ~Beaten(st, st.booting, embedded)
                                       \/ st.booting_strikes = 1
                                       \/ st.booting \notin present
              /\ tried.failed = st.failed \cup
                     (IF Beaten(st, st.booting, embedded)
                      THEN {BundleIn(st, st.booting).archive_sha256} ELSE {})
            BY <2>2, TrialResolved
        <3>2. ~Beaten(st, st.booting, embedded) => tried.failed = st.failed
            BY <3>1
        <3>3. Beaten(st, st.booting, embedded) => st.booting # NoSeq
            BY DEF Beaten, BundleIn
        <3>4. QED
            BY <2>2, <3>1, <3>2, <3>3
    <2>3. QED
        BY <2>1, <2>2
<1>11. st.staged # NoSeq => st.staged # st.booting
    BY DEF Sound, Loose, Distinct
<1> HIDE DEF tried, folded, fresh, promoted, boot
<1>12. QED
    BY <1>1, <1>7, <1>8, <1>9, <1>10, <1>11

\* While a process runs, a trial ends or starts, with no strike, or it stays
\* as it is; and nothing is blacklisted.
LEMMA SessionTrial ==
    Typed /\ Session =>
        /\ \/ disk'.booting = NoSeq
           \/ disk'.booting # disk.booting /\ disk'.booting_strikes = 0
           \/ /\ disk'.booting = disk.booting
              /\ disk'.booting_strikes = disk.booting_strikes
        /\ disk'.failed \subseteq disk.failed
<1> SUFFICES ASSUME Typed, Session
             PROVE  /\ \/ disk'.booting = NoSeq
                       \/ disk'.booting # disk.booting /\ disk'.booting_strikes = 0
                       \/ /\ disk'.booting = disk.booting
                          /\ disk'.booting_strikes = disk.booting_strikes
                    /\ disk'.failed \subseteq disk.failed
    OBVIOUS
<1>1. SessionMoves /\ Sound(disk) /\ disk \in State /\ shell \in Versions
    BY SessionStepMoves DEF Typed, TypeOK, RuntimeTypeOK, Sound, Loose
\* What leaves the trial and the pointers it is reached by alone.
<1>2. ASSUME SameView(disk, disk'), disk'.booting = disk.booting, Sound(disk')
      PROVE  /\ \/ disk'.booting = NoSeq
                \/ disk'.booting_strikes = disk.booting_strikes
             /\ disk'.failed = disk.failed
    <2>1. disk.booting_strikes \in {0, 1} /\ disk'.booting_strikes \in {0, 1}
        BY <1>1, <1>2, SoundFacts
    <2>2. QED
        BY <1>2, <2>1 DEF SameView, ChancesIn
<1>3. CASE UNCHANGED disk
    BY <1>3
<1>4. CASE Acked(disk')
    <2>1. PICK t \in Threads : disk' = Ack(disk, call[t].seq).state
        BY <1>4 DEF Acked
    <2>2. disk' = disk \/ disk'.booting = NoSeq
        BY <1>1, <2>1, AckPointers
    <2>3. disk'.failed = disk.failed
        BY <1>1, <2>1, AckView
    <2>4. QED
        BY <2>2, <2>3
<1>5. CASE Promoted(disk')
    <2>1. /\ disk.booting = NoSeq
          /\ disk'.booting_strikes = 0
          /\ disk'.failed = disk.failed
        BY <1>1, <1>5 DEF Promoted, PromoteDecision, Arm, State
    <2>2. QED
        BY <2>1
<1>6. CASE Discarded(disk')
    <2>1. PICK present \in SUBSET Seqs :
              disk.staged # NoSeq /\ disk' = Discard(disk, present).state
        BY <1>6 DEF Discarded
    <2>2. Sound(disk')
        BY <1>1, <2>1, DiscardSound
    <2>3. SameView(disk, disk') /\ disk'.booting = disk.booting
        BY <1>1, <2>1, DiscardView, DiscardPointers
    <2>4. QED
        BY <1>2, <2>2, <2>3
<1>7. CASE Staged(disk')
    <2> PICK seq \in Seqs, meta \in BundleMeta :
              ~StageRefused(disk, seq, meta) /\ disk' = Stage(disk, seq, meta).state
        BY <1>7 DEF Staged
    <2>1. ~StageRefused(disk, seq, meta) /\ disk' = Stage(disk, seq, meta).state
        OBVIOUS
    <2>2. Sound(disk')
        BY <1>1, <2>1, StageSound
    <2>3. SameView(disk, disk') /\ disk'.booting = disk.booting
        BY <1>1, <2>1, StageView, StagePointers
    <2>4. QED
        BY <1>2, <2>2, <2>3
<1>8. CASE Cleared(disk')
    BY <1>8 DEF Cleared, Default
<1>9. QED
    BY <1>1, <1>3, <1>4, <1>5, <1>6, <1>7, <1>8 DEF SessionMoves

(***************************************************************************)
(* Two chances.                                                            *)
(***************************************************************************)
LEMMA LaunchCounts ==
    Typed /\ TwoChances /\ Launch
        /\ Armed(IF current'.active = disk'.booting THEN 1 ELSE 0) => TwoChances'
<1> SUFFICES ASSUME Typed, TwoChances, Launch,
                    Armed(IF current'.active = disk'.booting THEN 1 ELSE 0)
             PROVE  TwoChances'
    OBVIOUS
<1>1. PICK sh \in Shells : LaunchSaved(sh) \/ LaunchUnsaved(sh)
    BY DEF Launch
<1>2. Sound(disk) /\ sh \in Versions /\ Present \in SUBSET Seqs
    BY PresentType, Constants DEF Typed
<1> DEFINE boot == ResolveBoot(disk, sh, Present)
<1>3. CASE LaunchSaved(sh)
    <2>1. disk' = boot /\ current'.active = ActiveOf(boot)
        BY <1>3 DEF LaunchSaved, SaveState, Start, Serve
    <2>2. boot.booting # NoSeq =>
              IF boot.booting = disk.booting
              THEN disk.booting_strikes = 0 /\ boot.booting_strikes = 1
              ELSE boot.booting_strikes = 0
        BY <1>2, BootTrial
    <2> HIDE DEF boot
    <2>3. QED
        BY <2>1, <2>2 DEF TwoChances, Armed, ActiveOf, MaxChances
<1>4. CASE LaunchUnsaved(sh)
    <2>1. disk' = disk /\ current'.active = boot.committed
        BY <1>4 DEF LaunchUnsaved, SaveFails, Start, Serve
    <2>2. boot.committed \in {disk.committed, NoSeq}
        BY <1>2, BootPointers
    <2>3. /\ disk.booting # NoSeq => disk.booting # disk.committed
          /\ disk.booting_strikes \in {0, 1}
        BY <1>2 DEF Sound, Loose, Distinct, StrikesOK
    <2>4. disk.booting # NoSeq => current'.active # disk'.booting
        BY <2>1, <2>2, <2>3
    <2> HIDE DEF boot
    <2>5. QED
        BY <2>1, <2>3, <2>4 DEF TwoChances, Armed, MaxChances
<1>5. QED
    BY <1>1, <1>3, <1>4

LEMMA LaunchCutCounts ==
    Typed /\ TwoChances /\ LaunchCut /\ Armed(1) => TwoChances'
<1> SUFFICES ASSUME Typed, TwoChances, LaunchCut, Armed(1) PROVE TwoChances'
    OBVIOUS
<1>1. PICK sh \in Shells : disk' = ResolveBoot(disk, sh, Present)
    BY DEF LaunchCut, LaunchKilled
<1>2. disk'.booting # NoSeq =>
          IF disk'.booting = disk.booting
          THEN disk.booting_strikes = 0 /\ disk'.booting_strikes = 1
          ELSE disk'.booting_strikes = 0
    BY <1>1, BootTrial, PresentType, Constants DEF Typed
<1>3. QED
    BY <1>2 DEF TwoChances, Armed, MaxChances

LEMMA SessionCounts ==
    Typed /\ TwoChances /\ Session /\ Armed(0) => TwoChances'
<1>1. Typed => disk.booting_strikes \in {0, 1}
    BY SoundFacts DEF Typed
<1>2. QED
    BY <1>1, SessionTrial DEF TwoChances, Armed, MaxChances

LEMMA TwoChancesStep ==
    Typed /\ TwoChances /\ [HistoryNext]_historyVars => TwoChances'
<1>1. UNCHANGED historyVars => UNCHANGED <<disk, chances>>
    BY DEF historyVars, vars
<1>2. QED
    BY <1>1, LaunchCounts, LaunchCutCounts, SessionCounts DEF HistoryNext, TwoChances

\* No bundle is ever armed a third time, and the count in state.json is never
\* off by one: not after a crash between the save and the rest of a launch,
\* not after a launch that could not save, a commit, a reset or the trial of
\* another bundle (machine.rs: resolve_boot, ack, promote_staged, reset).
THEOREM TwoChancesOnly == HistorySpec => []TwoChances
<1>1. HistoryInit => TwoChances
    BY DEF HistoryInit, Init, StoreInit, Default, TwoChances
<1>2. QED
    BY <1>1, TwoChancesStep, HistoryTyped, PTL DEF HistorySpec

(***************************************************************************)
(* The blacklist.                                                          *)
(***************************************************************************)
LEMMA BlacklistStep ==
    Typed /\ TwoChances /\ [HistoryNext]_historyVars =>
        (disk'.failed \ disk.failed # {} =>
            /\ proc = "down"
            /\ chances = 2 \/ disk.booting \notin Present)
<1> SUFFICES ASSUME Typed, TwoChances, [HistoryNext]_historyVars,
                    disk'.failed \ disk.failed # {}
             PROVE  proc = "down" /\ (chances = 2 \/ disk.booting \notin Present)
    OBVIOUS
<1>1. Launch \/ LaunchCut
    BY HistoryStep, SessionTrial DEF Next, vars
<1>2. proc = "down" /\ \E sh \in Shells : disk' = ResolveBoot(disk, sh, Present)
    BY <1>1, WhoBoots
<1>3. disk.booting # NoSeq /\ (disk.booting_strikes = 1 \/ disk.booting \notin Present)
    BY <1>2, BootTrial, PresentType, Constants DEF Typed
<1>4. QED
    BY <1>2, <1>3 DEF TwoChances

\* An archive is blacklisted by a launch only, and then its bundle had been
\* armed twice without an ack, or its directory was gone: no hash is condemned
\* at a first miss, by a kill between two steps, or for another bundle's trial.
THEOREM BlacklistNeedsTwo == HistorySpec => BlacklistTakesTwo
BY BlacklistStep, TwoChancesOnly, HistoryTyped, PTL
DEF HistorySpec, BlacklistTakesTwo
=============================================================================
