-------------------------- MODULE HotUpdateProofs --------------------------
(***************************************************************************)
(* Invariants of HotUpdate, proved for any set of bundles, versions,       *)
(* shells, windows, threads and manifests, and for every set of faults.    *)
(***************************************************************************)
EXTENDS HotUpdate, MachineProofs

(***************************************************************************)
(* Types, and a sound state.json: one induction, since what a handler      *)
(* writes is well typed only because the state it read was sound.          *)
(***************************************************************************)
\* A run past the gate has a bundle's metadata, and one that renames or stages
\* has a number for it.
RunTyped(r) ==
    /\ job[r].pc \in {"download", "extract", "allocated", "renamed"} =>
           job[r].meta \in BundleMeta
    /\ job[r].pc \in {"allocated", "renamed"} => job[r].seq \in Seqs

JobsTyped == UpdateTypeOK /\ \A r \in Runs : RunTyped(r)

\* A thread about to swap has the version it read.
CallsVersioned ==
    \A t \in Threads : call[t].pc = "versioned" => call[t].version \in Versions

Typed ==
    /\ TypeOK
    /\ Sound(disk)
    /\ JobsTyped

LEMMA Constants ==
    /\ NoSeq = 0 /\ Embedded = 0 /\ NoSeq \in Pointer
    /\ Seqs \subseteq Nat \ {0}
    /\ Shells \subseteq Versions
    /\ Callers \subseteq Threads
    /\ Recoverer \in Threads
    /\ Recoverer \in Runs
    /\ Recoverer \notin Callers
    /\ NoThread \notin Threads
    /\ Absent \notin BundleMeta /\ Absent \notin Bundle
    /\ \A m \in Manifests : m.meta \in BundleMeta
<1>1. \A m \in Manifests : m.meta \in BundleMeta
    BY ManifestsAssumption DEF ManifestsAssumption, Manifest
<1>2. QED
    BY <1>1, SeqsAssumption, ShellsAssumption, ThreadsAssumption,
       AbsentAssumption, AbsentBundleAssumption
    DEF SeqsAssumption, ShellsAssumption, ThreadsAssumption, AbsentAssumption,
        AbsentBundleAssumption, NoSeq, Embedded, Pointer, Threads, Runs

LEMMA PresentType == Present \in SUBSET Seqs
BY DEF Present

LEMMA ApplyEffectsType ==
    ASSUME StoreTypeOK, NEW effects, ApplyEffects(effects)
    PROVE  bundles' \in [Seqs -> Bundle \cup {Absent}]
BY DEF ApplyEffects, StoreTypeOK

LEMMA VersionType ==
    ASSUME NEW st \in State, NEW seq \in Pointer, NEW sh \in Versions
    PROVE  VersionOf(st, seq, sh) \in Versions
<1>1. CASE seq = Embedded
    BY <1>1 DEF VersionOf
<1>2. CASE seq # Embedded
    <2>1. seq \in Seqs
        BY <1>2, Constants DEF Pointer
    <2>2. st.versions[seq] # Absent => st.versions[seq].version \in Versions
        BY <2>1, StateFacts
    <2>3. QED
        BY <2>2 DEF VersionOf
<1>3. QED
    BY <1>1, <1>2

LEMMA ServeType ==
    ASSUME NEW st \in State, NEW seq \in Pointer, NEW sh \in Versions
    PROVE  Serve(st, seq, sh) \in [active : Pointer, version : Versions]
BY VersionType DEF Serve

LEMMA InitTyped == Init => Typed
<1> SUFFICES ASSUME Init PROVE Typed
    OBVIOUS
<1>1. Sound(disk)
    BY DefaultSound DEF Init, StoreInit
<1>2. StoreTypeOK
    BY <1>1 DEF Init, StoreInit, StoreTypeOK, Sound, Loose
<1>3. RuntimeTypeOK
    BY Constants DEF Init, RuntimeInit, RuntimeTypeOK, Idle, CallPoints, Pointer
<1>4. JobsTyped
    BY Constants DEF Init, UpdateInit, JobsTyped, RunTyped, UpdateTypeOK, NoJob,
       JobPoints, Outcomes, Pointer
<1>5. RecoveryTypeOK
    BY MaxRetriesAssumption DEF MaxRetriesAssumption, Init, RecoveryInit,
       RecoveryTypeOK, RecOff, RecPoints
<1>6. QED
    BY <1>1, <1>2, <1>3, <1>4, <1>5 DEF Typed, TypeOK, JobsTyped

LEMMA JobsStay == JobsTyped /\ UNCHANGED job => JobsTyped'
BY DEF JobsTyped, RunTyped, UpdateTypeOK

\* A handler that writes a sound state and touches no other typed field.
LEMMA DiskTyped ==
    ASSUME Sound(disk'), StoreTypeOK,
           bundles' \in [Seqs -> Bundle \cup {Absent}]
    PROVE  StoreTypeOK'
BY DEF Sound, Loose, StoreTypeOK

LEMMA StartTyped ==
    ASSUME NEW sh \in Shells, NEW serving, Start(sh, serving),
           serving \in [active : Pointer, version : Versions]
    PROVE  RuntimeTypeOK'
BY Constants DEF Start, RuntimeTypeOK, Idle, CallPoints, Pointer

LEMMA LaunchTyped == Typed /\ Launch => Typed'
<1> SUFFICES ASSUME Typed, Launch PROVE Typed'
    OBVIOUS
<1>1. PICK sh \in Shells : LaunchSaved(sh) \/ LaunchUnsaved(sh)
    BY DEF Launch
<1> DEFINE boot == ResolveBoot(disk, sh, Present)
<1>2. Sound(boot) /\ sh \in Versions
    BY PresentType, ResolveBootSound, Constants DEF Typed
<1>3. boot \in State /\ ActiveOf(boot) \in Pointer /\ boot.committed \in Pointer
    BY <1>2 DEF Sound, Loose, State, ActiveOf
<1>4. /\ Serve(boot, ActiveOf(boot), sh) \in [active : Pointer, version : Versions]
      /\ Serve(boot, boot.committed, sh) \in [active : Pointer, version : Versions]
    BY <1>2, <1>3, ServeType
<1> HIDE DEF boot
<1>5. RuntimeTypeOK'
    BY <1>1, <1>4, StartTyped DEF LaunchSaved, LaunchUnsaved, boot
<1>6. Sound(disk')
    BY <1>1, <1>2 DEF LaunchSaved, LaunchUnsaved, SaveState, SaveFails, boot, Typed
<1>7. StoreTypeOK'
    <2>1. bundles' \in [Seqs -> Bundle \cup {Absent}]
        BY <1>1, ApplyEffectsType
        DEF LaunchSaved, LaunchUnsaved, Typed, TypeOK, StoreTypeOK
    <2>2. QED
        BY <1>6, <2>1, DiskTyped DEF Typed, TypeOK
<1>8. RecoveryTypeOK'
    BY MaxRetriesAssumption
    DEF MaxRetriesAssumption, Launch, RecSpawned, RecOff, RecoveryTypeOK, RecPoints
<1>9. JobsTyped'
    BY JobsStay DEF Typed, Launch
<1>10. QED
    BY <1>5, <1>6, <1>7, <1>8, <1>9 DEF Typed, TypeOK, JobsTyped

LEMMA QuitTyped == Typed /\ (LaunchCut \/ Quit) => Typed'
<1>1. ASSUME Typed, LaunchCut PROVE Typed'
    <2>1. PICK sh \in Shells : LaunchKilled(sh) /\ UNCHANGED <<job, rec>>
        BY <1>1 DEF LaunchCut
    <2>2. Sound(disk')
        BY <1>1, <2>1, PresentType, ResolveBootSound, Constants
        DEF LaunchKilled, Typed
    <2>3. StoreTypeOK'
        BY <1>1, <2>1, <2>2, DiskTyped DEF LaunchKilled, Typed, TypeOK, StoreTypeOK
    <2>4. QED
        BY <1>1, <2>1, <2>2, <2>3, JobsStay
        DEF LaunchKilled, Typed, TypeOK, runtimeVars, RuntimeTypeOK, JobsTyped,
            RecoveryTypeOK
<1>2. ASSUME Typed, Quit PROVE Typed'
    <2>1. RuntimeTypeOK'
        BY <1>2, Constants
        DEF Quit, Exit, Typed, TypeOK, RuntimeTypeOK, Idle, CallPoints, Pointer
    <2>2. StoreTypeOK' /\ Sound(disk')
        BY <1>2 DEF Quit, Exit, storeVars, Typed, TypeOK, StoreTypeOK
    <2>3. JobsTyped'
        BY <1>2 DEF Quit, JobLost, JobsTyped, RunTyped, UpdateTypeOK, NoJob,
           JobPoints, Outcomes, Pointer
    <2>4. RecoveryTypeOK'
        BY <1>2, MaxRetriesAssumption DEF MaxRetriesAssumption, Quit, RecLost,
           RecOff, RecoveryTypeOK, RecPoints
    <2>5. QED
        BY <2>1, <2>2, <2>3, <2>4 DEF Typed, TypeOK, JobsTyped
<1>3. QED
    BY <1>1, <1>2

LEMMA PageStepTyped == Typed /\ (PageStep \/ Environment) => Typed'
<1>1. ASSUME Typed, PageStep PROVE Typed'
    <2>1. RuntimeTypeOK'
        BY <1>1 DEF PageStep, PageLoad, RemoteLoad, Load, Typed, TypeOK, RuntimeTypeOK
    <2>2. QED
        BY <1>1, <2>1, JobsStay DEF PageStep, PageLoad, RemoteLoad, Load, storeVars, Typed,
           TypeOK, StoreTypeOK, JobsTyped, RecoveryTypeOK
<1>2. ASSUME Typed, Environment PROVE Typed'
    <2>1. CASE LoseState
        <3>1. Sound(disk')
            BY <2>1, DefaultSound DEF LoseState, StateLost
        <3>2. StoreTypeOK'
            BY <1>2, <2>1, <3>1, DiskTyped
            DEF LoseState, StateLost, Typed, TypeOK, StoreTypeOK
        <3>3. QED
            BY <1>2, <2>1, <3>1, <3>2, JobsStay DEF LoseState, Environment, Typed, TypeOK,
               RuntimeTypeOK, JobsTyped, RecoveryTypeOK
    <2>2. CASE ~LoseState
        <3>1. PICK seq \in Seqs : DirLost(seq) /\ UNCHANGED runtimeVars
            BY <1>2, <2>2 DEF Environment
        <3>2. QED
            BY <1>2, <3>1, JobsStay DEF DirLost, runtimeVars, Environment, Typed, TypeOK,
               StoreTypeOK, RuntimeTypeOK, JobsTyped, RecoveryTypeOK
    <2>3. QED
        BY <2>1, <2>2
<1>3. QED
    BY <1>1, <1>2

\* What the handlers compute from a sound state.
LEMMA HandlerTypes ==
    ASSUME Typed
    PROVE  /\ \A seq : Sound(Ack(disk, seq).state) /\ Ack(disk, seq).effects \in SUBSET Seqs
           /\ \A present \in SUBSET Seqs :
                  /\ PromoteDecision(disk, shell, present) = "Applied" =>
                         Sound(Arm(disk)) /\ disk.staged \in Seqs
                  /\ PromoteDecision(disk, shell, present) = "Discarded" =>
                         /\ Sound(Discard(disk, present).state)
                         /\ Discard(disk, present).effects \in SUBSET Seqs
           /\ \A active : /\ Sound(Reset(disk, shell, active).state)
                          /\ Reset(disk, shell, active).effects \in SUBSET Seqs
<1>1. disk \in State /\ Sound(disk) /\ shell \in Versions
    BY DEF Typed, TypeOK, StoreTypeOK, RuntimeTypeOK
<1>2. /\ disk.staged # NoSeq => disk.staged \in Seqs
      /\ disk.committed # NoSeq => disk.committed \in Seqs
    BY <1>1, Constants DEF State, Pointer
<1>3. \A seq : Sound(Ack(disk, seq).state)
    BY <1>1, AckSound
<1>4. \A seq : Ack(disk, seq).effects \in SUBSET Seqs
    BY <1>2 DEF Ack, Superfluous
<1>5. \A present \in SUBSET Seqs :
          PromoteDecision(disk, shell, present) = "Applied" =>
              Sound(Arm(disk)) /\ disk.staged \in Seqs
    BY <1>1, <1>2, ApplyArmSound DEF PromoteDecision
<1>6. \A present \in SUBSET Seqs :
          PromoteDecision(disk, shell, present) = "Discarded" =>
              /\ Sound(Discard(disk, present).state)
              /\ Discard(disk, present).effects \in SUBSET Seqs
    <2> SUFFICES ASSUME NEW present \in SUBSET Seqs,
                        PromoteDecision(disk, shell, present) = "Discarded"
                 PROVE  /\ Sound(Discard(disk, present).state)
                        /\ Discard(disk, present).effects \in SUBSET Seqs
        OBVIOUS
    <2>1. disk.staged # NoSeq
        BY DEF PromoteDecision
    <2>2. Sound(Discard(disk, present).state)
        BY <1>1, <2>1, DiscardSound
    <2>3. Discard(disk, present).effects \in SUBSET Seqs
        BY DEF Discard
    <2>4. QED
        BY <2>2, <2>3
<1>7. \A active : Sound(Reset(disk, shell, active).state)
    BY <1>1, ResetSound
<1>8. \A active : Reset(disk, shell, active).effects \in SUBSET Seqs
    BY DEF Reset, Recorded
<1>9. QED
    BY <1>3, <1>4, <1>5, <1>6, <1>7, <1>8

\* A handler that goes on remembers what to delete, or what it armed.
LEMMA CallGoesOn ==
    ASSUME call \in [Threads -> [pc : CallPoints, seq : Pointer,
                                 version : Versions \cup {NoVersion}, seen : SUBSET Seqs, effects : SUBSET Seqs]],
           NEW t \in Threads, NEW pc \in CallPoints,
           NEW seq \in Pointer, NEW gone \in SUBSET Seqs
    PROVE  /\ [call EXCEPT ![t].pc = pc, ![t].effects = gone]
                  \in [Threads -> [pc : CallPoints, seq : Pointer,
                                   version : Versions \cup {NoVersion}, seen : SUBSET Seqs, effects : SUBSET Seqs]]
           /\ [call EXCEPT ![t].pc = pc, ![t].seq = seq, ![t].seen = {}]
                  \in [Threads -> [pc : CallPoints, seq : Pointer,
                                   version : Versions \cup {NoVersion}, seen : SUBSET Seqs, effects : SUBSET Seqs]]
           /\ [call EXCEPT ![t].pc = pc, ![t].seen = {}, ![t].effects = gone]
                  \in [Threads -> [pc : CallPoints, seq : Pointer,
                                   version : Versions \cup {NoVersion}, seen : SUBSET Seqs, effects : SUBSET Seqs]]
<1>1. [call[t] EXCEPT !.pc = pc, !.effects = gone]
          \in [pc : CallPoints, seq : Pointer, version : Versions \cup {NoVersion}, seen : SUBSET Seqs, effects : SUBSET Seqs]
    OBVIOUS
<1>2. [call[t] EXCEPT !.pc = pc, !.seq = seq, !.seen = {}]
          \in [pc : CallPoints, seq : Pointer, version : Versions \cup {NoVersion}, seen : SUBSET Seqs, effects : SUBSET Seqs]
    OBVIOUS
<1>3. [call[t] EXCEPT !.pc = pc, !.seen = {}, !.effects = gone]
          \in [pc : CallPoints, seq : Pointer, version : Versions \cup {NoVersion}, seen : SUBSET Seqs, effects : SUBSET Seqs]
    OBVIOUS
<1>4. QED
    BY <1>1, <1>2, <1>3

LEMMA AckTyped == \A t \in Callers : Typed /\ notify_app_ready(t) => Typed'
<1> SUFFICES ASSUME NEW t \in Callers, Typed, notify_app_ready(t) PROVE Typed'
    OBVIOUS
<1>0. /\ t \in Threads
      /\ UNCHANGED <<job, rec>>
    BY Constants DEF notify_app_ready
<1>1. CASE AckBegin(t)
    <2>1. RuntimeTypeOK'
        BY <1>0, <1>1 DEF AckBegin, Idle, CallPoints, Typed, TypeOK, RuntimeTypeOK,
           Pointer
    <2>2. QED
        BY <1>0, <1>1, <2>1, JobsStay DEF AckBegin, storeVars, Typed, TypeOK, StoreTypeOK,
           JobsTyped, RecoveryTypeOK
<1>2. CASE AckUpdate(t)
    <2>1. Sound(disk') /\ Ack(disk, call[t].seq).effects \in SUBSET Seqs
        BY <1>2, HandlerTypes DEF AckUpdate, SaveState
    <2>2. StoreTypeOK'
        BY <1>2, <2>1, DiskTyped DEF AckUpdate, Typed, TypeOK, StoreTypeOK
    <2>3. RuntimeTypeOK'
        <3> DEFINE gone == Ack(disk, call[t].seq).effects
        <3>1. /\ call' = [call EXCEPT ![t].pc = "acked", ![t].effects = gone]
              /\ UNCHANGED <<proc, shell, current, page_acked, reload_pending,
                             gate, page, wiped, ran>>
            BY <1>2 DEF AckUpdate
        <3>2. gone \in SUBSET Seqs
            BY <2>1
        <3> HIDE DEF gone
        <3>3. RuntimeTypeOK
            BY DEF Typed, TypeOK
        <3>4. "acked" \in CallPoints /\ NoSeq \in Pointer
            BY DEF CallPoints, Pointer
        <3>5. call' \in [Threads -> [pc : CallPoints, seq : Pointer,
                                     version : Versions \cup {NoVersion}, seen : SUBSET Seqs, effects : SUBSET Seqs]]
            BY <1>0, <3>1, <3>2, <3>3, <3>4, CallGoesOn DEF RuntimeTypeOK
        <3>6. QED
            BY <3>1, <3>3, <3>5 DEF RuntimeTypeOK
    <2>4. QED
        BY <1>0, <2>1, <2>2, <2>3, JobsStay DEF Typed, TypeOK, JobsTyped, RecoveryTypeOK
<1>3. CASE AckFail(t)
    <2>1. RuntimeTypeOK'
        BY <1>0, <1>3, Constants DEF AckFail, Return, Idle, CallPoints, Typed,
           TypeOK, RuntimeTypeOK, Pointer
    <2>2. QED
        BY <1>0, <1>3, <2>1, JobsStay DEF AckFail, SaveFails, Typed, TypeOK, StoreTypeOK,
           JobsTyped, RecoveryTypeOK
<1>4. CASE AckReturn(t)
    <2>1. RuntimeTypeOK'
        BY <1>0, <1>4, Constants DEF AckReturn, Return, Idle, CallPoints, Typed,
           TypeOK, RuntimeTypeOK, Pointer
    <2>2. StoreTypeOK'
        BY <1>4, ApplyEffectsType DEF AckReturn, Typed, TypeOK, StoreTypeOK
    <2>3. QED
        BY <1>0, <1>4, <2>1, <2>2, JobsStay DEF AckReturn, Typed, TypeOK, JobsTyped,
           RecoveryTypeOK
<1>5. QED
    BY <1>1, <1>2, <1>3, <1>4 DEF notify_app_ready

\* The steps of apply_staged, whoever runs it; `gate`, `job` and `rec` are
\* the caller's.
StoreAndCallTyped ==
    /\ Sound(disk)
    /\ StoreTypeOK
    /\ current \in [active : Pointer, version : Versions]
    /\ call \in [Threads -> [pc : CallPoints, seq : Pointer,
                             version : Versions \cup {NoVersion}, seen : SUBSET Seqs, effects : SUBSET Seqs]]

LEMMA ApplyStepTyped ==
    ASSUME NEW t \in Threads, Typed, CallsVersioned,
           \/ ApplyArm(t) \/ ApplyVersion(t) \/ ApplySwap(t) \/ ApplyRefuse(t)
           \/ ApplyDiscard(t) \/ ApplyGC(t) \/ ApplyFail(t)
    PROVE  StoreAndCallTyped' /\ UNCHANGED applyFrame
<1>0. /\ StoreAndCallTyped
      /\ call[t].seen \in SUBSET Seqs
      /\ call[t].seq \in Pointer
      /\ Idle \in [pc : CallPoints, seq : Pointer,
                   version : Versions \cup {NoVersion}, seen : SUBSET Seqs, effects : SUBSET Seqs]
    BY Constants DEF Typed, TypeOK, StoreTypeOK, RuntimeTypeOK, StoreAndCallTyped,
       Idle, CallPoints
<1>1. CASE ApplyArm(t)
    <2>1. Sound(disk') /\ disk.staged \in Pointer
        BY <1>0, <1>1, HandlerTypes DEF ApplyArm, ApplyDecides, SaveState, Pointer
    <2>2. StoreTypeOK'
        BY <1>0, <1>1, <2>1, DiskTyped DEF ApplyArm, StoreAndCallTyped, StoreTypeOK
    <2>3. "armed" \in CallPoints /\ {} \in SUBSET Seqs
        BY DEF CallPoints
    <2>4. call' = [call EXCEPT ![t].pc = "armed", ![t].seq = disk.staged,
                               ![t].seen = {}]
        BY <1>1 DEF ApplyArm
    <2>5. call' \in [Threads -> [pc : CallPoints, seq : Pointer,
                                 version : Versions \cup {NoVersion}, seen : SUBSET Seqs, effects : SUBSET Seqs]]
        BY <1>0, <2>1, <2>3, <2>4, CallGoesOn DEF StoreAndCallTyped
    <2>6. QED
        BY <1>0, <1>1, <2>1, <2>2, <2>5 DEF ApplyArm, StoreAndCallTyped
<1>2. CASE ApplyVersion(t)
    <2>1. VersionOf(disk, call[t].seq, shell) \in Versions
        BY <1>0, VersionType DEF Typed, TypeOK, StoreTypeOK, RuntimeTypeOK
    <2>2. "versioned" \in CallPoints
        BY DEF CallPoints
    <2> DEFINE version == VersionOf(disk, call[t].seq, shell)
    <2>3. call' = [call EXCEPT ![t].pc = "versioned", ![t].version = version]
        BY <1>2 DEF ApplyVersion
    <2>4. version \in Versions
        BY <2>1
    <2> HIDE DEF version
    <2>5. call' \in [Threads -> [pc : CallPoints, seq : Pointer,
                                 version : Versions \cup {NoVersion}, seen : SUBSET Seqs, effects : SUBSET Seqs]]
        BY <1>0, <2>2, <2>3, <2>4 DEF StoreAndCallTyped
    <2>6. QED
        BY <1>0, <1>2, <2>5 DEF ApplyVersion, storeVars, StoreAndCallTyped, StoreTypeOK
<1>3. CASE ApplySwap(t)
    <2>1. call[t].version \in Versions
        BY <1>3 DEF ApplySwap, CallsVersioned
    <2>2. current' \in [active : Pointer, version : Versions]
        BY <1>0, <1>3, <2>1 DEF ApplySwap
    <2>3. QED
        BY <1>0, <1>3, <2>2 DEF ApplySwap, Return, storeVars, StoreAndCallTyped,
           StoreTypeOK
<1>4. CASE ApplyRefuse(t)
    BY <1>0, <1>4 DEF ApplyRefuse, Return, storeVars, StoreAndCallTyped, StoreTypeOK
<1>5. CASE ApplyDiscard(t)
    <2>1. Sound(disk') /\ Discard(disk, call[t].seen).effects \in SUBSET Seqs
        BY <1>0, <1>5, HandlerTypes DEF ApplyDiscard, ApplyDecides, SaveState
    <2>2. StoreTypeOK'
        BY <1>0, <1>5, <2>1, DiskTyped DEF ApplyDiscard, StoreAndCallTyped, StoreTypeOK
    <2>3. "discarded" \in CallPoints
        BY DEF CallPoints
    <2> DEFINE gone == Discard(disk, call[t].seen).effects
    <2>4. call' = [call EXCEPT ![t].pc = "discarded", ![t].seen = {},
                               ![t].effects = gone]
        BY <1>5 DEF ApplyDiscard
    <2>5. gone \in SUBSET Seqs
        BY <2>1
    <2> HIDE DEF gone
    <2>6. call' \in [Threads -> [pc : CallPoints, seq : Pointer,
                                 version : Versions \cup {NoVersion}, seen : SUBSET Seqs, effects : SUBSET Seqs]]
        BY <1>0, <2>3, <2>4, <2>5, CallGoesOn DEF StoreAndCallTyped
    <2>7. QED
        BY <1>0, <1>5, <2>1, <2>2, <2>6 DEF ApplyDiscard, StoreAndCallTyped
<1>6. CASE ApplyGC(t)
    <2>1. StoreTypeOK'
        BY <1>0, <1>6, ApplyEffectsType DEF ApplyGC, StoreAndCallTyped, StoreTypeOK
    <2>2. QED
        BY <1>0, <1>6, <2>1 DEF ApplyGC, Return, StoreAndCallTyped
<1>7. CASE ApplyFail(t)
    BY <1>0, <1>7 DEF ApplyFail, SaveFails, Return, StoreAndCallTyped, StoreTypeOK
<1>8. QED
    BY <1>1, <1>2, <1>3, <1>4, <1>5, <1>6, <1>7

LEMMA ApplyTyped ==
    \A t \in Callers : Typed /\ CallsVersioned /\ apply_staged(t) => Typed'
<1> SUFFICES ASSUME NEW t \in Callers, Typed, CallsVersioned, apply_staged(t)
             PROVE  Typed'
    OBVIOUS
<1>0. t \in Threads /\ UNCHANGED <<job, rec>>
    BY Constants DEF apply_staged
<1>1. CASE ApplyBegin(t)
    <2>1. RuntimeTypeOK'
        BY <1>0, <1>1, PresentType, Constants DEF ApplyBegin, ApplyEnter, Idle,
           CallPoints, Typed, TypeOK, RuntimeTypeOK
    <2>2. QED
        BY <1>0, <1>1, <2>1, JobsStay DEF ApplyBegin, storeVars, Typed, TypeOK, StoreTypeOK,
           JobsTyped, RecoveryTypeOK
<1>2. CASE ~ApplyBegin(t)
    <2>1. /\ \/ ApplyArm(t) \/ ApplyVersion(t) \/ ApplySwap(t) \/ ApplyRefuse(t)
             \/ ApplyDiscard(t) \/ ApplyGC(t) \/ ApplyFail(t)
          /\ UNCHANGED gate
        BY <1>2 DEF apply_staged, ApplyArm, ApplyVersion, ApplyDiscard
    <2>2. StoreAndCallTyped' /\ UNCHANGED applyFrame
        BY <1>0, <2>1, ApplyStepTyped
    <2>3. RuntimeTypeOK'
        BY <2>1, <2>2 DEF StoreAndCallTyped, applyFrame, Typed, TypeOK, RuntimeTypeOK
    <2>4. QED
        BY <1>0, <2>2, <2>3, JobsStay DEF StoreAndCallTyped, Typed, TypeOK, JobsTyped,
           RecoveryTypeOK
<1>3. QED
    BY <1>1, <1>2

\* What a run is.
JobRecord == [pc : JobPoints, meta : BundleMeta \cup {Absent}, swept : BOOLEAN,
              whole : BOOLEAN, seq : Pointer, effects : SUBSET Seqs,
              outcome : Outcomes]

LEMMA SweepTyped == JobsTyped /\ SweepTemp => JobsTyped'
<1> SUFFICES ASSUME JobsTyped, SweepTemp PROVE JobsTyped'
    OBVIOUS
<1>1. ASSUME NEW r \in Runs
      PROVE  /\ job'[r] \in JobRecord
             /\ job'[r].pc = job[r].pc /\ job'[r].meta = job[r].meta
             /\ job'[r].seq = job[r].seq
    <2> DEFINE swept == job[r].swept
                            \/ job[r].pc \in {"download", "extract", "allocated"}
    <2>1. job'[r] = [job[r] EXCEPT !.swept = swept]
        BY DEF SweepTemp
    <2>2. swept \in BOOLEAN
        OBVIOUS
    <2>3. job[r] \in JobRecord
        BY DEF JobsTyped, UpdateTypeOK, JobRecord
    <2> HIDE DEF swept
    <2>4. QED
        BY <2>1, <2>2, <2>3 DEF JobRecord
<1>2. job' = [r \in Runs |-> job'[r]]
    BY DEF SweepTemp
<1>3. UpdateTypeOK'
    BY <1>1, <1>2 DEF UpdateTypeOK, JobRecord
<1>4. \A r \in Runs : RunTyped(r)'
    BY <1>1 DEF JobsTyped, RunTyped
<1>5. QED
    BY <1>3, <1>4 DEF JobsTyped

LEMMA ResetTyped == \A t \in Callers : Typed /\ reset(t) => Typed'
<1> SUFFICES ASSUME NEW t \in Callers, Typed, reset(t) PROVE Typed'
    OBVIOUS
<1>0. t \in Threads /\ UNCHANGED rec
    BY Constants DEF reset
<1>1. CASE (ResetBegin(t) \/ ResetUpdate(t) \/ ResetFail(t)) /\ UNCHANGED job
    <2>1. Sound(disk') /\ Reset(disk, shell, call[t].seq).effects \in SUBSET Seqs
        BY <1>1, HandlerTypes DEF ResetBegin, ResetUpdate, ResetFail, SaveState,
           SaveFails, storeVars, Typed
    <2>2. StoreTypeOK'
        BY <1>1, <2>1, DiskTyped DEF ResetBegin, ResetUpdate, ResetFail, storeVars,
           Typed, TypeOK, StoreTypeOK
    <2>3. CASE ResetBegin(t)
        BY <1>0, <2>3, Constants, <2>1, <2>2, <1>1, JobsStay DEF ResetBegin, Idle, CallPoints,
           Typed, TypeOK, RuntimeTypeOK, JobsTyped, RecoveryTypeOK
    <2>4. CASE ResetUpdate(t)
        <3> DEFINE gone == Reset(disk, shell, call[t].seq).effects
        <3>a. /\ call' = [call EXCEPT ![t].pc = "wiped", ![t].effects = gone]
              /\ wiped' = TRUE
              /\ UNCHANGED <<proc, shell, current, page_acked, reload_pending,
                             gate, page, ran>>
            BY <2>4 DEF ResetUpdate
        <3>b. gone \in SUBSET Seqs
            BY <2>1
        <3> HIDE DEF gone
        <3>c. call' \in [Threads -> [pc : CallPoints, seq : Pointer,
                                     version : Versions \cup {NoVersion}, seen : SUBSET Seqs, effects : SUBSET Seqs]]
            <4>1. "wiped" \in CallPoints /\ NoSeq \in Pointer
                BY DEF CallPoints, Pointer
            <4>2. QED
                BY <1>0, <3>a, <3>b, <4>1, CallGoesOn DEF Typed, TypeOK, RuntimeTypeOK
        <3>1. RuntimeTypeOK'
            BY <3>a, <3>c DEF Typed, TypeOK, RuntimeTypeOK
        <3>2. QED
            BY <1>0, <1>1, <2>1, <2>2, <3>1, JobsStay DEF Typed, TypeOK, JobsTyped,
               RecoveryTypeOK
    <2>5. CASE ResetFail(t)
        BY <1>0, <2>5, Constants, <2>1, <2>2, <1>1, JobsStay DEF ResetFail, Return, Idle,
           CallPoints, Typed, TypeOK, RuntimeTypeOK, JobsTyped, RecoveryTypeOK
    <2>6. QED
        BY <1>1, <2>3, <2>4, <2>5
<1>2. CASE ResetReturn(t) /\ SweepTemp
    <2>1. StoreTypeOK' /\ Sound(disk')
        BY <1>2, ApplyEffectsType DEF ResetReturn, Typed, TypeOK, StoreTypeOK
    <2>2. RuntimeTypeOK'
        BY <1>0, <1>2, Constants DEF ResetReturn, Return, Idle, CallPoints, Typed,
           TypeOK, RuntimeTypeOK
    <2>3. JobsTyped'
        BY <1>2, SweepTyped DEF Typed
    <2>4. QED
        BY <1>0, <2>1, <2>2, <2>3 DEF Typed, TypeOK, JobsTyped, RecoveryTypeOK
<1>3. QED
    BY <1>1, <1>2 DEF reset

LEMMA RunStepsTyped ==
    ASSUME JobsTyped, NEW r \in Runs, NEW j \in JobRecord,
           j.pc \in {"download", "extract", "allocated", "renamed"} =>
               j.meta \in BundleMeta,
           j.pc \in {"allocated", "renamed"} => j.seq \in Seqs,
           job' = [job EXCEPT ![r] = j]
    PROVE  JobsTyped'
<1>1. UpdateTypeOK'
    BY DEF JobsTyped, UpdateTypeOK, JobRecord
<1>2. ASSUME NEW q \in Runs PROVE RunTyped(q)'
    <2>1. CASE q = r
        BY <2>1 DEF RunTyped, JobsTyped, UpdateTypeOK
    <2>2. CASE q # r
        BY <2>2 DEF RunTyped, JobsTyped, UpdateTypeOK
    <2>3. QED
        BY <2>1, <2>2
<1>3. QED
    BY <1>1, <1>2 DEF JobsTyped

LEMMA NoJobType == NoJob \in JobRecord
BY Constants DEF NoJob, JobRecord, JobPoints, Outcomes

\* A run goes on to another point with what it has.
LEMMA GoesTyped ==
    ASSUME JobsTyped, NEW r \in Runs, NEW pc \in JobPoints, Goes(r, pc),
           pc \in {"download", "extract", "allocated", "renamed"} =>
               job[r].meta \in BundleMeta,
           pc \in {"allocated", "renamed"} => job[r].seq \in Seqs
    PROVE  JobsTyped'
<1> DEFINE j == [job[r] EXCEPT !.pc = pc]
<1>1. job[r] \in JobRecord
    BY DEF JobsTyped, UpdateTypeOK, JobRecord
<1>2. /\ j \in JobRecord
      /\ j.pc = pc /\ j.meta = job[r].meta /\ j.seq = job[r].seq
    BY <1>1 DEF JobRecord
<1>3. job' = [job EXCEPT ![r] = j]
    BY DEF Goes
<1> HIDE DEF j
<1>4. QED
    BY <1>2, <1>3, RunStepsTyped

\* Ending a run, with an answer for recovery or without.
LEMMA FinishTyped ==
    ASSUME NEW outcome \in Outcomes, NEW r \in Runs, JobsTyped,
           Finish(r, outcome)
    PROVE  JobsTyped'
<1> DEFINE j == IF r = Recoverer
                THEN [NoJob EXCEPT !.pc = "done", !.outcome = outcome]
                ELSE NoJob
<1>1. j \in JobRecord
    BY NoJobType DEF JobRecord, JobPoints
<1>2. j.pc \in {"idle", "done"}
    BY DEF NoJob
<1>3. job' = [job EXCEPT ![r] = j]
    BY DEF Finish
<1> HIDE DEF j
<1>4. QED
    BY <1>1, <1>2, <1>3, RunStepsTyped

LEMMA JobLockTyped ==
    ASSUME JobsTyped, NEW r \in Runs, JobLock(r)
    PROVE  JobsTyped'
<1>1. "fetch" \in JobPoints
    BY DEF JobPoints
<1>2. QED
    BY <1>1, GoesTyped DEF JobLock

LEMMA PipelineTyped == Typed /\ check_and_download => Typed'
<1> SUFFICES ASSUME Typed, check_and_download PROVE Typed'
    OBVIOUS
<1>0. /\ RecoveryTypeOK' /\ JobsTyped
      /\ \A r \in Runs : job[r] \in JobRecord
      /\ disk \in State
    BY DEF check_and_download, Typed, TypeOK, RecoveryTypeOK, JobsTyped,
       UpdateTypeOK, JobRecord, StoreTypeOK
<1>1. ASSUME UNCHANGED <<runtimeVars, storeVars>>, JobsTyped' PROVE Typed'
    BY <1>0, <1>1 DEF runtimeVars, storeVars, Typed, TypeOK, StoreTypeOK,
       RuntimeTypeOK, JobsTyped
<1>2. ASSUME UNCHANGED runtimeVars, StoreTypeOK', Sound(disk'), JobsTyped'
      PROVE  Typed'
    BY <1>0, <1>2 DEF runtimeVars, Typed, TypeOK, RuntimeTypeOK, JobsTyped
<1>3. PICK r \in Runs : Download(r) \/ JobStep(r)
    BY DEF check_and_download
<1>a. /\ job[r].pc \in {"download", "extract", "allocated", "renamed"} =>
             job[r].meta \in BundleMeta
      /\ job[r].pc \in {"allocated", "renamed"} => job[r].seq \in Seqs
      /\ job[r].meta \in BundleMeta \cup {Absent}
      /\ job[r].swept \in BOOLEAN /\ job[r].whole \in BOOLEAN
    BY <1>0 DEF JobsTyped, RunTyped, JobRecord
<1>b. {"download", "extract", "allocated", "renamed", "staged", "removing"}
          \subseteq JobPoints
    BY DEF JobPoints
<1>4. CASE Download(r)
    BY <1>0, <1>1, <1>4, JobLockTyped DEF Download
<1>5. ASSUME NEW m \in Manifests, JobGate(r, m) PROVE Typed'
    <2>1. CASE Gate(m, disk, shell) = "Available"
        <3> DEFINE j == [job[r] EXCEPT !.pc = "download", !.meta = m.meta]
        <3>1. j \in JobRecord /\ j.pc = "download" /\ j.meta \in BundleMeta
            BY <1>0, <1>b, Constants DEF JobRecord
        <3>2. job' = [job EXCEPT ![r] = j]
            BY <1>5, <2>1 DEF JobGate
        <3> HIDE DEF j
        <3>3. QED
            BY <1>0, <1>1, <1>5, <3>1, <3>2, RunStepsTyped DEF JobGate
    <2>2. CASE Gate(m, disk, shell) # "Available"
        <3>1. Gate(m, disk, shell) \in Outcomes
            BY <2>2 DEF Gate, Outcomes
        <3>2. Finish(r, Gate(m, disk, shell))
            BY <1>5, <2>2 DEF JobGate
        <3>3. QED
            BY <1>0, <1>1, <1>5, <3>1, <3>2, FinishTyped DEF JobGate
    <2>3. QED
        BY <2>1, <2>2
<1>6. CASE JobExtract(r)
    BY <1>0, <1>1, <1>6, <1>a, <1>b, GoesTyped DEF JobExtract
<1>7. CASE JobFail(r)
    BY <1>0, <1>1, <1>7, FinishTyped DEF JobFail, Outcomes
<1>8. ASSUME NEW seq \in Seqs, JobAllocate(r, seq) PROVE Typed'
    <2> DEFINE j == [job[r] EXCEPT !.pc = "allocated", !.seq = seq,
                                   !.whole = ~job[r].swept, !.swept = FALSE]
    <2>1. job[r].pc = "extract" /\ seq \in Pointer /\ (~job[r].swept) \in BOOLEAN
        BY <1>8 DEF JobAllocate, Pointer
    <2>2. /\ j \in JobRecord
          /\ j.pc = "allocated" /\ j.meta = job[r].meta /\ j.seq = seq
        BY <1>0, <1>b, <2>1 DEF JobRecord
    <2>3. job' = [job EXCEPT ![r] = j]
        BY <1>8 DEF JobAllocate
    <2> HIDE DEF j
    <2>4. QED
        BY <1>0, <1>1, <1>8, <1>a, <2>1, <2>2, <2>3, RunStepsTyped DEF JobAllocate
<1>9. CASE JobRename(r)
    <2>1. job[r].meta \in BundleMeta /\ job[r].seq \in Seqs
        BY <1>9, <1>a DEF JobRename
    <2>2. [meta |-> job[r].meta, whole |-> job[r].whole] \in Bundle
        BY <1>a, <2>1 DEF Bundle
    <2>3. StoreTypeOK' /\ Sound(disk')
        BY <1>9, <2>2 DEF JobRename, Typed, TypeOK, StoreTypeOK
    <2>4. JobsTyped'
        BY <1>0, <1>9, <1>b, <2>1, GoesTyped DEF JobRename
    <2>5. QED
        BY <1>2, <1>9, <2>3, <2>4 DEF JobRename
<1>10. CASE JobStage(r)
    <2> DEFINE gone == Stage(disk, job[r].seq, job[r].meta).effects
               j == [job[r] EXCEPT !.pc = "staged", !.effects = gone]
    <2>1. job[r].meta \in BundleMeta /\ job[r].seq \in Seqs
        BY <1>10, <1>a DEF JobStage
    <2>2. Sound(disk')
        BY <1>10, <2>1, StageSound DEF JobStage, SaveState, Typed
    <2>3. StoreTypeOK'
        BY <1>10, <2>2, DiskTyped DEF JobStage, Typed, TypeOK, StoreTypeOK
    <2>4. gone \in SUBSET Seqs
        BY <1>0, Constants DEF Stage, State, Pointer
    <2>5. job' = [job EXCEPT ![r] = j]
        BY <1>10 DEF JobStage
    <2>6. j \in JobRecord /\ j.pc = "staged"
        <3> HIDE DEF gone
        <3> QED
            BY <1>0, <1>b, <2>4 DEF JobRecord
    <2> HIDE DEF j, gone
    <2>7. JobsTyped'
        BY <1>0, <2>5, <2>6, RunStepsTyped
    <2>8. QED
        BY <1>2, <1>10, <2>2, <2>3, <2>7 DEF JobStage
<1>11. CASE JobRefused(r)
    <2> DEFINE j == [job[r] EXCEPT !.pc = "removing", !.effects = {job[r].seq}]
    <2>1. job[r].seq \in Seqs
        BY <1>11, <1>a DEF JobRefused
    <2>2. j \in JobRecord /\ j.pc = "removing"
        BY <1>0, <1>b, <2>1 DEF JobRecord
    <2>3. job' = [job EXCEPT ![r] = j]
        BY <1>11 DEF JobRefused
    <2> HIDE DEF j
    <2>4. QED
        BY <1>0, <1>1, <1>11, <2>2, <2>3, RunStepsTyped DEF JobRefused
<1>12. CASE JobUnsaved(r)
    <2>1. UNCHANGED <<runtimeVars, storeVars>>
        BY <1>12 DEF JobUnsaved, SaveFails, storeVars
    <2>2. QED
        BY <1>0, <1>1, <1>12, <2>1, FinishTyped DEF JobUnsaved, Outcomes
<1>13. CASE JobReturn(r)
    <2>1. JobsTyped'
        BY <1>0, <1>13, FinishTyped DEF JobReturn, Outcomes
    <2>2. StoreTypeOK' /\ Sound(disk')
        BY <1>13, ApplyEffectsType DEF JobReturn, Typed, TypeOK, StoreTypeOK
    <2>3. QED
        BY <1>2, <1>13, <2>1, <2>2 DEF JobReturn
<1>14. QED
    BY <1>3, <1>4, <1>5, <1>6, <1>7, <1>8, <1>9, <1>10, <1>11, <1>12, <1>13
    DEF JobStep

LEMMA RecoveryTyped == Typed /\ CallsVersioned /\ RecoveryNext => Typed'
<1> SUFFICES ASSUME Typed, CallsVersioned, RecoveryNext PROVE Typed'
    OBVIOUS
<1> USE MaxRetriesAssumption DEF MaxRetriesAssumption
<1>0. /\ StoreTypeOK /\ RuntimeTypeOK /\ JobsTyped /\ RecoveryTypeOK
      /\ Sound(disk)
    BY DEF Typed, TypeOK
<1>1. /\ RecOff \in [pc : RecPoints, attempt : 0..MaxRetries, windows : SUBSET Windows]
      /\ \A pc \in RecPoints : RecGoto(pc) => RecoveryTypeOK'
      /\ RecDone => RecoveryTypeOK'
      /\ RecRetry => RecoveryTypeOK'
    <2>1. RecOff \in [pc : RecPoints, attempt : 0..MaxRetries, windows : SUBSET Windows]
        BY DEF RecOff, RecPoints
    <2>2. \A pc \in RecPoints : RecGoto(pc) => RecoveryTypeOK'
        BY <1>0 DEF RecGoto, RecoveryTypeOK
    <2>3. RecDone => RecoveryTypeOK'
        BY <2>1 DEF RecDone, RecoveryTypeOK
    <2>4. RecRetry => RecoveryTypeOK'
        <3>1. rec.attempt \in 0..MaxRetries /\ "wait" \in RecPoints
            BY <1>0 DEF RecoveryTypeOK, RecPoints
        <3>2. rec.attempt < MaxRetries => rec.attempt + 1 \in 0..MaxRetries
            BY <3>1
        <3>3. QED
            BY <1>0, <2>3, <3>1, <3>2 DEF RecRetry, RecoveryTypeOK
    <2>5. QED
        BY <2>1, <2>2, <2>3, <2>4
<1>2. ASSUME UNCHANGED <<job, runtimeVars, storeVars>>, RecoveryTypeOK'
      PROVE  Typed'
    BY <1>0, <1>2, JobsStay DEF runtimeVars, storeVars, Typed, TypeOK,
       StoreTypeOK, RuntimeTypeOK, JobsTyped
<1>3. CASE RecPageIsFine \/ RecStagedOnly \/ RecReloaded
    BY <1>1, <1>2, <1>3 DEF RecPageIsFine, RecStagedOnly, RecReloaded
<1>4. CASE RecCall
    BY <1>1, <1>2, <1>4 DEF RecCall, RecPoints
<1>5. ASSUME NEW w \in Windows, RecReloadFails(w) PROVE Typed'
    BY <1>0, <1>2, <1>5 DEF RecReloadFails, RecoveryTypeOK
<1>6. ASSUME UNCHANGED <<runtimeVars, storeVars>>, RecoveryTypeOK', JobsTyped'
      PROVE  Typed'
    BY <1>0, <1>6 DEF runtimeVars, storeVars, Typed, TypeOK, StoreTypeOK,
       RuntimeTypeOK, JobsTyped
<1>7. CASE RecLocks
    BY <1>0, <1>6, <1>7, JobLockTyped, Constants DEF RecLocks, RecoveryTypeOK
<1>8. CASE RecCollect
    <2>1. RecoveryTypeOK'
        BY <1>1, <1>8 DEF RecCollect, RecPoints
    <2>2. JobsTyped'
        BY <1>0, <1>8, NoJobType, RunStepsTyped, Constants DEF RecCollect, NoJob
    <2>3. QED
        BY <1>6, <1>8, <2>1, <2>2 DEF RecCollect
<1>9. ASSUME RuntimeTypeOK', RecoveryTypeOK', UNCHANGED <<job, storeVars>>
      PROVE  Typed'
    BY <1>0, <1>9, JobsStay DEF storeVars, Typed, TypeOK, StoreTypeOK, JobsTyped
<1>10. CASE RecSwitch
    <2>1. RuntimeTypeOK'
        BY <1>0, <1>10, PresentType, Constants DEF RecSwitch, ApplyEnter, Idle,
           CallPoints, RuntimeTypeOK
    <2>2. RecoveryTypeOK'
        BY <1>1, <1>10 DEF RecSwitch, RecPoints
    <2>3. QED
        BY <1>9, <1>10, <2>1, <2>2 DEF RecSwitch, storeVars
<1>11. CASE RecFlag
    BY <1>0, <1>9, <1>11 DEF RecFlag, storeVars, RuntimeTypeOK, RecoveryTypeOK,
       RecPoints
<1>12. ASSUME NEW w \in Windows, RecReload(w) PROVE Typed'
    BY <1>0, <1>9, <1>12 DEF RecReload, Load, storeVars, RuntimeTypeOK,
       RecoveryTypeOK
<1>13. ASSUME StoreAndCallTyped', UNCHANGED <<applyFrame, job>>, RecoveryTypeOK',
              gate' \in {gate, NoThread}
       PROVE  Typed'
    <2>1. RuntimeTypeOK'
        BY <1>0, <1>13 DEF StoreAndCallTyped, applyFrame, RuntimeTypeOK
    <2>2. JobsTyped'
        BY <1>0, <1>13, JobsStay
    <2>3. QED
        BY <1>13, <2>1, <2>2 DEF StoreAndCallTyped, Typed, TypeOK, JobsTyped
<1>14. CASE \/ RecArm \/ RecVersion \/ RecSwap \/ RecKeep \/ RecDiscard
            \/ RecDiscarded \/ RecApplyFail
    <2>1. /\ \/ ApplyArm(Recoverer) \/ ApplyVersion(Recoverer)
             \/ ApplySwap(Recoverer) \/ ApplyRefuse(Recoverer)
             \/ ApplyDiscard(Recoverer) \/ ApplyGC(Recoverer) \/ ApplyFail(Recoverer)
          /\ gate' \in {gate, NoThread}
          /\ UNCHANGED job
        BY <1>14 DEF RecArm, RecVersion, RecSwap, RecKeep, RecDiscard, RecDiscarded,
           RecApplyFail, ApplyArm, ApplyVersion, ApplyDiscard
    <2>2. StoreAndCallTyped' /\ UNCHANGED applyFrame
        BY <2>1, ApplyStepTyped, Constants
    <2>3. RecoveryTypeOK'
        BY <1>0, <1>1, <1>14 DEF RecArm, RecVersion, RecSwap, RecKeep, RecDiscard, RecDiscarded,
           RecApplyFail, RecPoints, RecoveryTypeOK
    <2>4. QED
        BY <1>13, <2>1, <2>2, <2>3
<1>15. QED
    BY <1>3, <1>4, <1>5, <1>7, <1>8, <1>10, <1>11, <1>12, <1>14 DEF RecoveryNext

(***************************************************************************)
(* Which steps move what, for the invariants that relate a call to what is *)
(* served.                                                                 *)
(***************************************************************************)
LEMMA CallType ==
    ASSUME Typed
    PROVE  /\ call \in [Threads -> [pc : CallPoints, seq : Pointer,
                                    version : Versions \cup {NoVersion}, seen : SUBSET Seqs, effects : SUBSET Seqs]]
           /\ rec \in [pc : RecPoints, attempt : 0..MaxRetries,
                       windows : SUBSET Windows]
BY DEF Typed, TypeOK, RuntimeTypeOK, RecoveryTypeOK

\* Where a call of thread t can get to, and by which step.
CallMoves(t) ==
    \/ call'[t] = call[t]
    \/ call'[t] = Idle
    \/ call'[t].pc = "ack" /\ AckBegin(t)
    \/ call'[t].pc = "acked" /\ AckUpdate(t)
    \/ call'[t].pc = "apply" /\ call'[t].effects = {}
    \/ call'[t].pc = "armed" /\ ApplyArm(t)
    \/ call'[t].pc = "versioned" /\ ApplyVersion(t)
    \/ call'[t].pc = "discarded" /\ ApplyDiscard(t)
    \/ call'[t].pc = "reset" /\ ResetBegin(t)
    \/ call'[t].pc = "wiped" /\ ResetUpdate(t)

\* Everything that happens while no process starts or ends.
InSession ==
    /\ UNCHANGED <<proc, shell>>
    /\ page_acked' = page_acked \/ \E t \in Callers : AckBegin(t)
    /\ wiped' = wiped \/ LoseState \/ \E t \in Callers : ResetUpdate(t)
    /\ current' = current \/ \E t \in Threads : ApplySwap(t)
    /\ \A t \in Threads : CallMoves(t)

LEMMA ApplyInSession ==
    ASSUME Typed, NEW t \in Threads,
           \/ ApplyArm(t) \/ ApplyVersion(t) \/ ApplySwap(t) \/ ApplyRefuse(t)
           \/ ApplyDiscard(t) \/ ApplyGC(t) \/ ApplyFail(t)
    PROVE  InSession
<1>1. /\ UNCHANGED <<proc, shell, page_acked, wiped>>
      /\ current' = current \/ ApplySwap(t)
      /\ \A u \in Threads \ {t} : call'[u] = call[u]
    BY CallType DEF ApplyArm, ApplyVersion, ApplySwap, ApplyRefuse, ApplyDiscard, ApplyGC,
       ApplyFail, applyFrame, Return
<1>2. CallMoves(t)
    <2>1. CASE ApplyArm(t) \/ ApplyVersion(t) \/ ApplyDiscard(t)
        BY <2>1, CallType DEF ApplyArm, ApplyVersion, ApplyDiscard, CallMoves
    <2>2. CASE ApplySwap(t) \/ ApplyRefuse(t) \/ ApplyGC(t) \/ ApplyFail(t)
        BY <2>2, CallType DEF ApplySwap, ApplyRefuse, ApplyGC, ApplyFail, Return,
           CallMoves
    <2>3. QED
        BY <2>1, <2>2
<1>3. QED
    BY <1>1, <1>2 DEF InSession, CallMoves

\* A run of the pipeline has only its own locals and the store.
LEMMA PipelineKeeps == check_and_download => UNCHANGED <<runtimeVars, rec>>
BY DEF check_and_download, Download, JobStep, JobGate, JobExtract, JobFail,
   JobAllocate, JobRename, JobStage, JobRefused, JobUnsaved, JobReturn

LEMMA WhoMoves == Typed /\ [Next]_vars => Launch \/ Quit \/ InSession
<1> SUFFICES ASSUME Typed, [Next]_vars, ~Launch, ~Quit PROVE InSession
    OBVIOUS
<1> USE CallType, Constants
<1>1. CASE UNCHANGED <<proc, shell, page_acked, wiped, current, call>>
    BY <1>1 DEF InSession, CallMoves
<1>2. CASE LaunchCut \/ PageStep \/ UNCHANGED vars
    BY <1>1, <1>2 DEF LaunchCut, LaunchKilled, PageStep, PageLoad, RemoteLoad,
       runtimeVars, vars
<1>3. CASE Environment
    BY <1>1, <1>3 DEF Environment, LoseState, DirLost, runtimeVars, InSession,
       CallMoves
<1>4. CASE check_and_download
    BY <1>1, <1>4, PipelineKeeps DEF runtimeVars
<1>5. ASSUME NEW t \in Callers, notify_app_ready(t) PROVE InSession
    <2>1. /\ UNCHANGED <<proc, shell, wiped, current>>
          /\ page_acked' = page_acked \/ AckBegin(t)
          /\ \A u \in Threads \ {t} : call'[u] = call[u]
        BY <1>5 DEF notify_app_ready, AckBegin, AckUpdate, AckFail, AckReturn, Return
    <2>2. CallMoves(t)
        <3>1. CASE AckBegin(t)
            BY <3>1 DEF AckBegin, CallMoves, Idle
        <3>2. CASE AckUpdate(t)
            BY <3>2 DEF AckUpdate, CallMoves
        <3>3. CASE AckFail(t) \/ AckReturn(t)
            BY <3>3 DEF AckFail, AckReturn, Return, CallMoves
        <3>4. QED
            BY <1>5, <3>1, <3>2, <3>3 DEF notify_app_ready
    <2>3. QED
        BY <2>1, <2>2 DEF InSession, CallMoves
<1>6. ASSUME NEW t \in Callers, apply_staged(t) PROVE InSession
    <2>1. CASE ApplyBegin(t)
        <3>1. /\ UNCHANGED <<proc, shell, wiped, current, page_acked>>
              /\ \A u \in Threads \ {t} : call'[u] = call[u]
              /\ call'[t].pc = "apply" /\ call'[t].effects = {}
            BY <2>1 DEF ApplyBegin, ApplyEnter, Idle
        <3>2. QED
            BY <3>1 DEF InSession, CallMoves
    <2>2. QED
        BY <1>6, <2>1, ApplyInSession DEF apply_staged
<1>7. ASSUME NEW t \in Callers, reset(t) PROVE InSession
    <2>1. /\ UNCHANGED <<proc, shell, current, page_acked>>
          /\ wiped' = wiped \/ ResetUpdate(t)
          /\ \A u \in Threads \ {t} : call'[u] = call[u]
        BY <1>7 DEF reset, ResetBegin, ResetUpdate, ResetFail, ResetReturn, Return
    <2>2. CallMoves(t)
        <3>1. CASE ResetBegin(t)
            BY <3>1 DEF ResetBegin, CallMoves, Idle
        <3>2. CASE ResetUpdate(t)
            BY <3>2 DEF ResetUpdate, CallMoves
        <3>3. CASE ResetFail(t) \/ ResetReturn(t)
            BY <3>3 DEF ResetFail, ResetReturn, Return, CallMoves
        <3>4. QED
            BY <1>7, <3>1, <3>2, <3>3 DEF reset
    <2>3. QED
        BY <2>1, <2>2 DEF InSession, CallMoves
<1>8. CASE RecoveryNext
    <2>1. CASE \/ RecPageIsFine \/ RecCall \/ RecLocks \/ RecCollect
               \/ RecStagedOnly
               \/ \E w \in Windows : RecReload(w) \/ RecReloadFails(w)
               \/ RecFlag \/ RecReloaded
        BY <1>1, <2>1 DEF RecPageIsFine, RecCall, RecLocks, RecCollect,
           RecStagedOnly, RecReload, RecReloadFails, RecFlag, RecReloaded,
           runtimeVars
    <2>2. CASE RecSwitch
        <3>1. /\ UNCHANGED <<proc, shell, wiped, current, page_acked>>
              /\ \A u \in Threads \ {Recoverer} : call'[u] = call[u]
              /\ call'[Recoverer].pc = "apply" /\ call'[Recoverer].effects = {}
            BY <2>2 DEF RecSwitch, ApplyEnter, Idle
        <3>2. QED
            BY <3>1 DEF InSession, CallMoves
    <2>3. CASE \/ RecArm \/ RecVersion \/ RecSwap \/ RecKeep \/ RecDiscard
               \/ RecDiscarded \/ RecApplyFail
        BY <2>3, ApplyInSession DEF RecArm, RecVersion, RecSwap, RecKeep, RecDiscard,
           RecDiscarded, RecApplyFail
    <2>4. QED
        BY <1>8, <2>1, <2>2, <2>3 DEF RecoveryNext
<1>9. QED
    BY <1>2, <1>3, <1>4, <1>5, <1>6, <1>7, <1>8 DEF Next, Session

LEMMA VersionedStep == Typed /\ CallsVersioned /\ [Next]_vars => CallsVersioned'
<1> SUFFICES ASSUME Typed, CallsVersioned, [Next]_vars,
                    NEW t \in Threads, call'[t].pc = "versioned"
             PROVE  call'[t].version \in Versions
    BY DEF CallsVersioned
<1>1. CASE Launch \/ Quit
    BY <1>1 DEF Launch, LaunchSaved, LaunchUnsaved, Start, Quit, Exit, Idle
<1>2. CASE InSession
    <2>1. call'[t] = call[t] \/ ApplyVersion(t)
        BY <1>2 DEF InSession, CallMoves, Idle
    <2>2. CASE ApplyVersion(t)
        <3>1. VersionOf(disk, call[t].seq, shell) \in Versions
            BY VersionType, CallType DEF Typed, TypeOK, StoreTypeOK, RuntimeTypeOK
        <3>2. call'[t].version = VersionOf(disk, call[t].seq, shell)
            BY <2>2, CallType DEF ApplyVersion
        <3>3. QED
            BY <3>1, <3>2
    <2>3. QED
        BY <2>1, <2>2 DEF CallsVersioned
<1>3. QED
    BY <1>1, <1>2, WhoMoves

LEMMA StepTyped ==
    Typed /\ CallsVersioned /\ [Next]_vars => Typed' /\ CallsVersioned'
<1>1. ASSUME Typed, UNCHANGED vars PROVE Typed'
    BY <1>1, JobsStay DEF vars, Typed, TypeOK, StoreTypeOK, RuntimeTypeOK, JobsTyped,
       RecoveryTypeOK
<1>2. QED
    BY <1>1, VersionedStep, LaunchTyped, QuitTyped, PageStepTyped, AckTyped, ApplyTyped, ResetTyped,
       PipelineTyped, RecoveryTyped DEF Next, Session

LEMMA TypedAlways == Spec => []Typed
<1>1. Init => CallsVersioned
    BY DEF Init, RuntimeInit, Idle, CallsVersioned
<1>2. QED
    BY <1>1, InitTyped, StepTyped, PTL DEF Spec

\* Every variable keeps its type, whatever the threads, the pipeline, boot
\* recovery and the platform do.
THEOREM TypeCorrect == Spec => []TypeOK
<1>1. Typed => TypeOK
    BY DEF Typed
<1>2. QED
    BY <1>1, TypedAlways, PTL

\* last_good is committed, and no bundle is under two pointers of state.json.
THEOREM PointersStayDistinct == Spec => []PointersDistinct
<1>1. Typed => PointersDistinct
    BY DEF Typed, Sound, Loose, Distinct, PointersDistinct
<1>2. QED
    BY <1>1, TypedAlways, PTL

\* The versions map holds the bundles some pointer names, and no other.
THEOREM MetadataStaysTracked == Spec => []MetadataTracked
<1>1. Typed => MetadataTracked
    BY RecordedIsReferenced DEF Typed, MetadataTracked
<1>2. QED
    BY <1>1, TypedAlways, PTL

\* A bundle on trial is above the watermark and the committed one is not, so
\* no bundle is tried twice nor a committed one downloaded again; nothing
\* blacklisted is staged or on trial, and strikes belong to a trial.
THEOREM TrialStaysNew == Spec => []TrialIsNew
<1>1. Typed => TrialIsNew
    BY DEF Typed, Sound, Loose, TrialNew, StagedClean, CommittedSeen, StrikesOK,
       TrialIsNew, VersionOn, HashOn
<1>2. QED
    BY <1>1, TypedAlways, PTL
=============================================================================
