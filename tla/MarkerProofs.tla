---------------------------- MODULE MarkerProofs ---------------------------
(***************************************************************************)
(* The anti-brick invariant of HotUpdate: what a process serves is marked  *)
(* in state.json.  apply_staged persists the marker and swaps `current`    *)
(* later, without the gate when a page calls it, while an ack may be on    *)
(* its way with what was served when it began.                             *)
(***************************************************************************)
EXTENDS PointerProofs

(***************************************************************************)
(* The gate is held by the one ack, or by boot recovery for its switch.    *)
(***************************************************************************)
GateHeld ==
    /\ proc = "down" => rec.pc = "off" /\ \A t \in Threads : call[t] = Idle
    /\ \A t \in Threads : call[t].pc \in {"ack", "acked"} => gate = t
    /\ call[Recoverer].pc # "idle" => rec.pc = "switch"
    /\ rec.pc \in {"switch", "switched"} => gate = Recoverer

\* What is served has its marker or its commit.
ServedMarked ==
    current.active # Embedded => current.active \in {disk.booting, disk.committed}

\* Between its save and its swap, apply_staged is about to serve the bundle
\* on trial, which nothing serves yet, and only one thread can be there.
Switching(t) == call[t].pc \in {"armed", "versioned"}

ArmedMarked ==
    /\ \A t \in Threads : Switching(t) =>
           /\ call[t].seq # NoSeq
           /\ call[t].seq = disk.booting
           /\ call[t].seq # current.active
    /\ \A t, u \in Threads : Switching(t) /\ Switching(u) => t = u

\* An ack under way is about the committed bundle, or about a bundle on trial
\* that is still the one served.
AckMarked ==
    \A t \in Threads : call[t].pc = "ack" /\ call[t].seq # Embedded =>
        /\ call[t].seq \in {disk.booting, disk.committed}
        /\ call[t].seq = disk.booting => call[t].seq = current.active

Marked ==
    proc = "up" /\ ~wiped => ServedMarked /\ ArmedMarked /\ AckMarked

(***************************************************************************)
(* The gate.                                                               *)
(***************************************************************************)
LEMMA IdleCall == Idle.pc = "idle" /\ Idle.seq = NoSeq
BY DEF Idle

LEMMA RecMoves ==
    ASSUME Typed
    PROVE  /\ RecDone => rec'.pc = "off"
           /\ RecRetry => rec'.pc \in {"wait", "off"}
           /\ \A pc : RecGoto(pc) => rec'.pc = pc
<1>0. rec = [pc |-> rec.pc, attempt |-> rec.attempt, windows |-> rec.windows]
    BY CallType
<1>1. RecDone => rec'.pc = "off"
    BY DEF RecDone, RecOff
<1>2. \A pc : RecGoto(pc) => rec'.pc = pc
    BY <1>0 DEF RecGoto
<1>3. ASSUME RecRetry PROVE rec'.pc \in {"wait", "off"}
    <2>1. CASE rec.attempt < MaxRetries
        BY <1>0, <1>3, <2>1 DEF RecRetry
    <2>2. CASE ~(rec.attempt < MaxRetries)
        BY <1>1, <1>3, <2>2 DEF RecRetry
    <2>3. QED
        BY <2>1, <2>2
<1>4. QED
    BY <1>1, <1>2, <1>3

\* What the recovery task does before it takes the gate and after.
LEMMA OutsideSwitch ==
    ASSUME Typed,
           \/ RecPageIsFine \/ RecCall \/ RecLocks \/ RecCollect
           \/ RecStagedOnly
           \/ \E w \in Windows : RecReload(w) \/ RecReloadFails(w)
           \/ RecReloaded
    PROVE  {rec.pc, rec'.pc} \cap {"switch", "switched"} = {}
<1>1. \A w : RecReload(w) \/ RecReloadFails(w) =>
          rec.pc = "reload" /\ rec'.pc = "reload"
    BY CallType DEF RecReload, RecReloadFails
<1>2. QED
    BY <1>1, RecMoves DEF RecPageIsFine, RecCall, RecLocks, RecCollect, RecStagedOnly,
       RecReloaded

LEMMA GateHeldAtStart == Init => GateHeld
BY Constants, IdleCall DEF Init, RuntimeInit, RecoveryInit, RecOff, GateHeld

LEMMA GateHeldStep == Typed /\ GateHeld /\ [Next]_vars => GateHeld'
<1> SUFFICES ASSUME Typed, GateHeld, [Next]_vars PROVE GateHeld'
    OBVIOUS
<1> USE Constants, IdleCall, CallType
<1>1. CASE Launch
    <2>1. PICK sh \in Shells : LaunchSaved(sh) \/ LaunchUnsaved(sh)
        BY <1>1 DEF Launch
    <2>2. call' = [t \in Threads |-> Idle] /\ proc' = "up"
        BY <2>1 DEF LaunchSaved, LaunchUnsaved, Start
    <2>3. rec'.pc \notin {"switch", "switched"}
        BY <1>1 DEF Launch, RecSpawned, RecOff
    <2>4. QED
        BY <2>2, <2>3 DEF GateHeld
<1>2. CASE Quit
    BY <1>2 DEF Quit, Exit, RecLost, RecOff, GateHeld
<1>3. CASE LaunchCut \/ PageStep \/ Environment \/ UNCHANGED vars
    <2>1. UNCHANGED <<proc, call, gate, rec>>
        BY <1>3 DEF LaunchCut, LaunchKilled, PageStep, PageLoad, RemoteLoad, Load,
           Environment, LoseState, DirLost, runtimeVars, vars
    <2>2. QED
        BY <2>1 DEF GateHeld
<1>4. CASE check_and_download
    <2>1. UNCHANGED <<proc, call, gate, rec>>
        BY <1>4, PipelineKeeps DEF runtimeVars
    <2>2. QED
        BY <2>1 DEF GateHeld
<1>5. ASSUME NEW t \in Callers, notify_app_ready(t) PROVE GateHeld'
    <2>1. proc' = proc /\ rec' = rec /\ t \in Threads /\ t # Recoverer
        BY <1>5 DEF notify_app_ready, AckBegin, AckUpdate, AckFail, AckReturn
    <2>2. proc = "up"
        BY <1>5, <2>1 DEF notify_app_ready, AckBegin, CanCall, AckUpdate, AckFail,
           AckReturn, GateHeld, Typed, TypeOK, RuntimeTypeOK
    <2>3. CASE AckBegin(t)
        BY <2>1, <2>2, <2>3 DEF AckBegin, GateHeld
    <2>4. CASE AckUpdate(t)
        BY <2>1, <2>2, <2>4 DEF AckUpdate, GateHeld
    <2>5. CASE AckFail(t) \/ AckReturn(t)
        BY <2>1, <2>2, <2>5 DEF AckFail, AckReturn, Return, GateHeld
    <2>6. QED
        BY <1>5, <2>3, <2>4, <2>5 DEF notify_app_ready
<1>6. ASSUME NEW t \in Callers, apply_staged(t) \/ reset(t) PROVE GateHeld'
    <2>1. /\ proc' = proc /\ rec' = rec /\ gate' = gate
          /\ t \in Threads /\ t # Recoverer
        BY <1>6 DEF apply_staged, ApplyBegin, ApplyArm, ApplyVersion, ApplySwap, ApplyRefuse,
           ApplyDiscard, ApplyGC, ApplyFail, reset, ResetBegin, ResetUpdate,
           ResetFail, ResetReturn, applyFrame
    <2>2. proc = "up"
        BY <1>6, <2>1 DEF apply_staged, ApplyBegin, CanCall, ApplyArm, ApplyVersion, ApplySwap,
           ApplyRefuse, ApplyDecides, ApplyDiscard, ApplyGC, ApplyFail, reset,
           ResetBegin, ResetUpdate, ResetFail, ResetReturn, GateHeld, Typed, TypeOK,
           RuntimeTypeOK
    <2>3. /\ \A u \in Threads \ {t} : call'[u] = call[u]
          /\ call'[t].pc \notin {"ack", "acked"}
        <3>1. CASE ApplyBegin(t)
            BY <2>1, <3>1 DEF ApplyBegin, ApplyEnter
        <3>2. CASE ApplyArm(t) \/ ApplyVersion(t) \/ ApplyDiscard(t)
            BY <2>1, <3>2 DEF ApplyArm, ApplyVersion, ApplyDiscard
        <3>3. CASE ApplySwap(t) \/ ApplyRefuse(t) \/ ApplyGC(t) \/ ApplyFail(t)
            BY <2>1, <3>3 DEF ApplySwap, ApplyRefuse, ApplyGC, ApplyFail, Return
        <3>4. CASE ResetBegin(t)
            BY <2>1, <3>4 DEF ResetBegin
        <3>5. CASE ResetUpdate(t)
            BY <2>1, <3>5 DEF ResetUpdate
        <3>6. CASE ResetFail(t) \/ ResetReturn(t)
            BY <2>1, <3>6 DEF ResetFail, ResetReturn, Return
        <3>7. QED
            BY <1>6, <3>1, <3>2, <3>3, <3>4, <3>5, <3>6 DEF apply_staged, reset
    <2>4. QED
        BY <2>1, <2>2, <2>3 DEF GateHeld
<1>7. CASE RecoveryNext
    <2>0. proc = "up"
        <3>1. rec.pc # "off" \/ call[Recoverer].pc # "idle"
            BY <1>7 DEF RecoveryNext, RecPageIsFine, RecCall, RecLocks, RecCollect,
               RecStagedOnly, RecSwitch, RecArm, RecVersion, RecSwap,
               RecFlag, RecKeep, RecDiscard, RecDiscarded, RecApplyFail, RecReload,
               RecReloadFails, RecReloaded, ApplyArm, ApplyDecides, ApplyVersion, ApplySwap,
               ApplyRefuse, ApplyDiscard, ApplyGC, ApplyFail
        <3>2. QED
            BY <3>1 DEF GateHeld, Typed, TypeOK, RuntimeTypeOK
    <2>1. CASE \/ RecPageIsFine \/ RecCall \/ RecLocks \/ RecCollect
               \/ RecStagedOnly
               \/ \E w \in Windows : RecReload(w) \/ RecReloadFails(w)
               \/ RecReloaded
        <3>1. UNCHANGED <<proc, call, gate>>
            BY <2>1 DEF RecPageIsFine, RecCall, RecLocks, RecCollect, RecStagedOnly,
               RecReload, Load, RecReloadFails,
               RecReloaded, runtimeVars
        <3>2. {rec.pc, rec'.pc} \cap {"switch", "switched"} = {}
            BY <2>1, OutsideSwitch
        <3>3. QED
            BY <2>0, <3>1, <3>2 DEF GateHeld
    <2>2. CASE RecSwitch
        <3>1. /\ proc' = proc /\ rec'.pc = "switch" /\ gate' = Recoverer
              /\ call' = [call EXCEPT ![Recoverer] =
                              [Idle EXCEPT !.pc = "apply", !.seen = Present]]
              /\ gate = NoThread
            BY <2>2 DEF RecSwitch, ApplyEnter, RecGoto
        <3>2. QED
            BY <2>0, <3>1 DEF GateHeld
    <2>3. CASE RecFlag
        <3>1. /\ UNCHANGED <<proc, call>> /\ gate' = NoThread /\ rec'.pc = "reload"
              /\ rec.pc = "switched"
            BY <2>3 DEF RecFlag
        <3>2. QED
            BY <2>0, <3>1 DEF GateHeld
    <2>4. CASE RecSwap
        <3>1. /\ call[Recoverer].pc = "versioned"
              /\ call' = [call EXCEPT ![Recoverer] = Idle]
              /\ UNCHANGED <<proc, gate>>
            BY <2>4 DEF RecSwap, ApplySwap, Return, applyFrame
        <3>2. QED
            BY <2>0, <3>1 DEF GateHeld
    <2>5. CASE RecArm \/ RecVersion \/ RecDiscard
        <3>1. /\ call[Recoverer].pc \in {"apply", "armed"}
              /\ call'[Recoverer].pc \in {"armed", "versioned", "discarded"}
              /\ \A u \in Threads \ {Recoverer} : call'[u] = call[u]
              /\ UNCHANGED <<proc, gate, rec>>
            BY <2>5 DEF RecArm, RecVersion, RecDiscard, ApplyArm, ApplyVersion,
               ApplyDiscard, ApplyDecides, applyFrame
        <3>2. QED
            BY <2>0, <3>1 DEF GateHeld
    <2>6. CASE RecKeep \/ RecDiscarded \/ RecApplyFail
        <3>1. /\ call[Recoverer].pc \in {"apply", "discarded"}
              /\ call' = [call EXCEPT ![Recoverer] = Idle]
              /\ gate' = NoThread /\ proc' = proc
            BY <2>6 DEF RecKeep, RecDiscarded, RecApplyFail, ApplyRefuse,
               ApplyDecides, ApplyGC, ApplyFail, Return, applyFrame
        <3>2. rec'.pc \notin {"switch", "switched"}
            BY <2>6, RecMoves DEF RecKeep, RecDiscarded, RecApplyFail
        <3>3. QED
            BY <2>0, <3>1, <3>2 DEF GateHeld
    <2>7. QED
        BY <1>7, <2>1, <2>2, <2>3, <2>4, <2>5, <2>6 DEF RecoveryNext
<1>8. QED
    BY <1>1, <1>2, <1>3, <1>4, <1>5, <1>6, <1>7 DEF Next, Session

LEMMA GateHeldAlways == Spec => []GateHeld
BY GateHeldAtStart, GateHeldStep, TypedAlways, PTL DEF Spec

(***************************************************************************)
(* The marker.  A step either leaves alone what Marked is about, or is one *)
(* of the ones below.                                                      *)
(***************************************************************************)

\* Serving and the two pointers unchanged; no call got armed or acks, and one
\* that was armed is still about the same bundle.
ServesAsBefore ==
    /\ UNCHANGED <<proc, wiped, current>>
    /\ disk'.booting = disk.booting /\ disk'.committed = disk.committed
    /\ \A t \in Threads :
           /\ call'[t].pc = "ack" => call'[t] = call[t]
           /\ Switching(t)' => Switching(t) /\ call'[t].seq = call[t].seq

LEMMA MarkedFrame == ASSUME Marked, ServesAsBefore PROVE Marked'
<1> USE DEF ServesAsBefore
<1>1. CASE proc = "up" /\ ~wiped
    <2>1. ServedMarked /\ ArmedMarked /\ AckMarked
        BY <1>1 DEF Marked
    <2>2. ServedMarked'
        BY <2>1 DEF ServedMarked
    <2>3. ArmedMarked'
        BY <2>1 DEF ArmedMarked
    <2>4. AckMarked'
        BY <2>1 DEF AckMarked
    <2>5. QED
        BY <2>2, <2>3, <2>4 DEF Marked
<1>2. CASE ~(proc = "up" /\ ~wiped)
    BY <1>2 DEF Marked
<1>3. QED
    BY <1>1, <1>2

LEMMA MarkedLaunch == Typed /\ Launch => Marked'
<1> SUFFICES ASSUME Typed, Launch PROVE Marked'
    OBVIOUS
<1>1. PICK sh \in Shells : LaunchSaved(sh) \/ LaunchUnsaved(sh)
    BY DEF Launch
<1> DEFINE boot == ResolveBoot(disk, sh, Present)
<1>2. boot.committed \in {disk.committed, NoSeq}
    BY PresentType, Constants, BootPointers DEF Typed
<1> HIDE DEF boot
<1>3. ServedMarked'
    <2>1. CASE LaunchSaved(sh)
        BY <2>1 DEF LaunchSaved, SaveState, Start, Serve, ActiveOf, boot, ServedMarked
    <2>2. CASE LaunchUnsaved(sh)
        BY <1>2, <2>2, Constants DEF LaunchUnsaved, SaveFails, Start, Serve, boot,
           ServedMarked
    <2>3. QED
        BY <1>1, <2>1, <2>2
<1>4. call' = [t \in Threads |-> Idle]
    BY <1>1 DEF LaunchSaved, LaunchUnsaved, Start
<1>5. ArmedMarked' /\ AckMarked'
    BY <1>4, IdleCall DEF ArmedMarked, Switching, AckMarked
<1>6. QED
    BY <1>3, <1>5 DEF Marked

\* An ack begins with what is served, so with something marked.
LEMMA MarkedAckBegin ==
    ASSUME NEW t \in Threads, Typed, Marked, AckBegin(t)
    PROVE  Marked'
<1>1. /\ UNCHANGED <<proc, wiped, current, disk>>
      /\ call'[t].pc = "ack" /\ call'[t].seq = current.active
      /\ \A u \in Threads \ {t} : call'[u] = call[u]
    BY CallType DEF AckBegin, storeVars, Idle
<1>2. SUFFICES ASSUME proc = "up" /\ ~wiped PROVE ServedMarked' /\ ArmedMarked' /\ AckMarked'
    BY <1>1 DEF Marked
<1>3. ServedMarked /\ ArmedMarked /\ AckMarked
    BY <1>2 DEF Marked
<1>4. ServedMarked'
    BY <1>1, <1>3 DEF ServedMarked
<1>5. ArmedMarked'
    BY <1>1, <1>3 DEF ArmedMarked, Switching
<1>6. AckMarked'
    BY <1>1, <1>3 DEF ServedMarked, AckMarked
<1>7. QED
    BY <1>4, <1>5, <1>6

\* An ack that commits finds the bundle on trial served: nothing can be
\* armed, and no other ack is under way.
LEMMA MarkedAckUpdate ==
    ASSUME NEW t \in Threads, Typed, GateHeld, Marked, AckUpdate(t)
    PROVE  Marked'
<1>1. /\ UNCHANGED <<proc, wiped, current>>
      /\ disk' = Ack(disk, call[t].seq).state
      /\ call[t].pc = "ack" /\ call'[t].pc = "acked"
      /\ \A u \in Threads \ {t} : call'[u] = call[u]
    BY CallType DEF AckUpdate, SaveState
<1>2. Sound(disk)
    BY DEF Typed
<1>3. CASE call[t].seq = Embedded \/ disk.booting # call[t].seq
    <2>1. disk' = disk
        BY <1>1, <1>2, <1>3, AckPointers
    <2>2. \A u \in Threads : call'[u].pc \in {"armed", "versioned", "ack"} =>
              call'[u] = call[u]
        BY <1>1
    <2>3. QED
        BY <1>1, <2>1, <2>2, MarkedFrame DEF ServesAsBefore, Switching
<1>4. CASE ~(call[t].seq = Embedded \/ disk.booting # call[t].seq)
    <2>1. disk'.committed = call[t].seq /\ disk'.booting = NoSeq
        BY <1>1, <1>2, <1>4, AckPointers
    <2>2. SUFFICES ASSUME proc = "up" /\ ~wiped
                   PROVE  ServedMarked' /\ ArmedMarked' /\ AckMarked'
        BY <1>1 DEF Marked
    <2>3. ServedMarked /\ ArmedMarked /\ AckMarked
        BY <2>2 DEF Marked
    <2>4. call[t].seq = current.active
        BY <1>1, <1>4, <2>3 DEF AckMarked
    <2>5. ServedMarked'
        BY <1>1, <2>1, <2>4 DEF ServedMarked
    <2>6. ArmedMarked'
        BY <1>1, <1>4, <2>3, <2>4 DEF ArmedMarked, Switching
    <2>7. \A u \in Threads \ {t} : call[u].pc # "ack"
        BY <1>1 DEF GateHeld
    <2>8. AckMarked'
        BY <1>1, <2>7 DEF AckMarked
    <2>9. QED
        BY <2>5, <2>6, <2>8
<1>5. QED
    BY <1>3, <1>4

\* Arming needs a state without a trial, so no one else is armed, and the
\* bundle armed is neither served nor the subject of an ack.
LEMMA MarkedArm ==
    ASSUME NEW t \in Threads, Typed, Marked, ApplyArm(t)
    PROVE  Marked'
<1>1. /\ UNCHANGED <<proc, wiped, current>>
      /\ disk' = Arm(disk)
      /\ call'[t].pc = "armed" /\ call'[t].seq = disk.staged
      /\ \A u \in Threads \ {t} : call'[u] = call[u]
    BY CallType DEF ApplyArm, SaveState, applyFrame
<1>2. disk.booting = NoSeq /\ disk.staged # NoSeq
    BY DEF ApplyArm, ApplyDecides, PromoteDecision
<1>3. disk.staged # disk.committed
    BY <1>2 DEF Typed, Sound, Loose, Distinct
<1>4. disk'.booting = disk.staged /\ disk'.committed = disk.committed
    BY <1>1, ArmPointers DEF Typed, Sound, Loose
<1>5. SUFFICES ASSUME proc = "up" /\ ~wiped
               PROVE  ServedMarked' /\ ArmedMarked' /\ AckMarked'
    BY <1>1 DEF Marked
<1>6. ServedMarked /\ ArmedMarked /\ AckMarked
    BY <1>5 DEF Marked
<1>7. current.active # Embedded => current.active = disk.committed
    BY <1>2, <1>6, Constants DEF ServedMarked
<1>8. ServedMarked'
    BY <1>1, <1>4, <1>7 DEF ServedMarked
<1>9. \A u \in Threads : ~Switching(u)
    BY <1>2, <1>6 DEF ArmedMarked
<1>10. ArmedMarked'
    BY <1>1, <1>2, <1>3, <1>4, <1>7, <1>9, Constants DEF ArmedMarked, Switching
<1>11. AckMarked'
    BY <1>1, <1>2, <1>3, <1>4, <1>6, Constants DEF AckMarked
<1>12. QED
    BY <1>8, <1>10, <1>11

\* The swap serves the bundle whose marker was persisted.
LEMMA MarkedSwap ==
    ASSUME NEW t \in Threads, Typed, Marked, ApplySwap(t)
    PROVE  Marked'
<1>1. /\ UNCHANGED <<proc, wiped, disk>>
      /\ current'.active = call[t].seq
      /\ call[t].pc = "versioned" /\ call'[t] = Idle
      /\ \A u \in Threads \ {t} : call'[u] = call[u]
    BY CallType DEF ApplySwap, Return, applyFrame, storeVars
<1>2. SUFFICES ASSUME proc = "up" /\ ~wiped
               PROVE  ServedMarked' /\ ArmedMarked' /\ AckMarked'
    BY <1>1 DEF Marked
<1>3. ServedMarked /\ ArmedMarked /\ AckMarked
    BY <1>2 DEF Marked
<1>4. current'.active = disk.booting
    BY <1>1, <1>3 DEF ArmedMarked, Switching
<1>5. ServedMarked'
    BY <1>1, <1>4 DEF ServedMarked
<1>6. \A u \in Threads : ~Switching(u)'
    BY <1>1, <1>3, IdleCall DEF ArmedMarked, Switching
<1>7. ArmedMarked'
    BY <1>6 DEF ArmedMarked
<1>8. AckMarked'
    BY <1>1, <1>3, <1>4, IdleCall DEF AckMarked
<1>9. QED
    BY <1>5, <1>7, <1>8

(***************************************************************************)
(* What a step can do to what is served.                                   *)
(***************************************************************************)
\* The other steps of apply_staged arm and serve nothing.
LEMMA ApplyRestServes ==
    ASSUME NEW t \in Threads, Typed,
           ApplyRefuse(t) \/ ApplyDiscard(t) \/ ApplyGC(t) \/ ApplyFail(t)
    PROVE  ServesAsBefore
<1>1. /\ UNCHANGED <<proc, wiped, current>>
      /\ call'[t].pc \in {"idle", "discarded"}
      /\ \A u \in Threads \ {t} : call'[u] = call[u]
    <2>1. CASE ApplyDiscard(t)
        BY <2>1, CallType DEF ApplyDiscard, applyFrame
    <2>2. CASE ~ApplyDiscard(t)
        BY <2>2, CallType, IdleCall DEF ApplyRefuse, ApplyGC, ApplyFail, Return,
           applyFrame
    <2>3. QED
        BY <2>1, <2>2
<1>2. disk'.booting = disk.booting /\ disk'.committed = disk.committed
    BY DiscardPointers DEF ApplyRefuse, ApplyDiscard, ApplyGC, ApplyFail, SaveState,
       SaveFails, storeVars, Typed, Sound, Loose
<1>3. \A u \in Threads : call'[u].pc \in {"armed", "versioned", "ack"} =>
          call'[u] = call[u]
    BY <1>1
<1>4. QED
    BY <1>1, <1>2, <1>3 DEF ServesAsBefore, Switching

\* Reading the version is a step between the two.
LEMMA VersionServes ==
    ASSUME NEW t \in Threads, Typed, ApplyVersion(t)
    PROVE  ServesAsBefore
<1>1. /\ UNCHANGED <<proc, wiped, current, disk>>
      /\ call[t].pc = "armed" /\ call'[t].pc = "versioned"
      /\ call'[t].seq = call[t].seq
      /\ \A u \in Threads \ {t} : call'[u] = call[u]
    BY CallType DEF ApplyVersion, applyFrame, storeVars
<1>2. QED
    BY <1>1 DEF ServesAsBefore, Switching

LEMMA PipelineServes == Typed /\ check_and_download => ServesAsBefore
<1> SUFFICES ASSUME Typed, check_and_download PROVE ServesAsBefore
    OBVIOUS
<1>1. disk'.booting = disk.booting /\ disk'.committed = disk.committed
    <2> PICK r \in Runs : Download(r) \/ JobStep(r)
        BY DEF check_and_download
    <2>1. CASE JobStage(r)
        <3>1. disk \in State /\ disk' = Stage(disk, job[r].seq, job[r].meta).state
            BY <2>1 DEF JobStage, SaveState, Typed, Sound, Loose
        <3>2. QED
            BY <3>1, StagePointers
    <2>2. CASE ~JobStage(r)
        BY <2>2 DEF Download, JobStep, JobGate, JobExtract, JobFail, JobAllocate,
           JobRefused, JobUnsaved, SaveFails, JobReturn, JobRename, storeVars
    <2>3. QED
        BY <2>1, <2>2
<1>2. UNCHANGED <<proc, wiped, current, call>>
    BY PipelineKeeps DEF runtimeVars
<1>3. QED
    BY <1>1, <1>2 DEF ServesAsBefore, Switching

LEMMA RecoveryServes ==
    ASSUME Typed, RecoveryNext
    PROVE  ServesAsBefore \/ ApplyArm(Recoverer) \/ ApplySwap(Recoverer)
<1>1. CASE \/ RecPageIsFine \/ RecCall \/ RecLocks \/ RecCollect
           \/ RecStagedOnly
           \/ \E w \in Windows : RecReload(w) \/ RecReloadFails(w)
           \/ RecFlag \/ RecReloaded
    <2>1. UNCHANGED <<proc, wiped, current, call, disk>>
        BY <1>1 DEF RecPageIsFine, RecCall, RecLocks, RecCollect, RecStagedOnly,
           RecReload, Load, RecReloadFails,
           RecFlag, RecReloaded, runtimeVars, storeVars
    <2>2. QED
        BY <2>1 DEF ServesAsBefore, Switching
<1>2. CASE RecSwitch
    <2>1. /\ UNCHANGED <<proc, wiped, current, disk>>
          /\ call'[Recoverer].pc = "apply"
          /\ \A u \in Threads \ {Recoverer} : call'[u] = call[u]
        BY <1>2, CallType, Constants DEF RecSwitch, ApplyEnter, Idle, storeVars
    <2>2. QED
        BY <2>1 DEF ServesAsBefore, Switching
<1>3. CASE \/ RecArm \/ RecVersion \/ RecSwap \/ RecKeep \/ RecDiscard
           \/ RecDiscarded \/ RecApplyFail
    BY <1>3, Constants, ApplyRestServes, VersionServes
    DEF RecArm, RecVersion, RecSwap, RecKeep, RecDiscard, RecDiscarded, RecApplyFail
<1>4. QED
    BY <1>1, <1>2, <1>3 DEF RecoveryNext

LEMMA StepServes ==
    ASSUME Typed, [Next]_vars
    PROVE  \/ Launch \/ proc' = "down" \/ ServesAsBefore
           \/ LoseState /\ UNCHANGED job
           \/ \E t \in Threads : \/ AckBegin(t) \/ AckUpdate(t)
                                 \/ ApplyArm(t) \/ ApplySwap(t)
                                 \/ ResetUpdate(t)
<1>1. CASE LaunchCut \/ Quit
    BY <1>1 DEF LaunchCut, LaunchKilled, runtimeVars, Quit, Exit
<1>2. CASE PageStep \/ UNCHANGED vars
    BY <1>2 DEF PageStep, PageLoad, RemoteLoad, Load, storeVars, vars, ServesAsBefore, Switching
<1>3. CASE Environment
    BY <1>3 DEF Environment, DirLost, runtimeVars, ServesAsBefore, Switching
<1>4. ASSUME NEW t \in Callers, AckFail(t) \/ AckReturn(t) PROVE ServesAsBefore
    <2>1. /\ UNCHANGED <<proc, wiped, current, disk>>
          /\ call'[t].pc = "idle"
          /\ \A u \in Threads \ {t} : call'[u] = call[u]
        BY <1>4, Constants, CallType, IdleCall DEF AckFail, SaveFails, AckReturn, Return
    <2>2. QED
        BY <2>1 DEF ServesAsBefore, Switching
<1>5. ASSUME NEW t \in Callers, ApplyBegin(t) PROVE ServesAsBefore
    <2>1. /\ UNCHANGED <<proc, wiped, current, disk>>
          /\ call'[t].pc = "apply"
          /\ \A u \in Threads \ {t} : call'[u] = call[u]
        BY <1>5, Constants, CallType DEF ApplyBegin, ApplyEnter, Idle, storeVars
    <2>2. QED
        BY <2>1 DEF ServesAsBefore, Switching
<1>6. ASSUME NEW t \in Callers, ResetBegin(t) \/ ResetFail(t) \/ ResetReturn(t)
      PROVE  ServesAsBefore
    <2>1. /\ UNCHANGED <<proc, wiped, current, disk>>
          /\ call'[t].pc \in {"idle", "reset"}
          /\ \A u \in Threads \ {t} : call'[u] = call[u]
        <3> USE Constants, CallType, IdleCall
        <3>1. CASE ResetBegin(t)
            BY <3>1 DEF ResetBegin, Idle, storeVars
        <3>2. CASE ResetFail(t)
            BY <3>2 DEF ResetFail, SaveFails, Return, Idle
        <3>3. CASE ResetReturn(t)
            BY <3>3 DEF ResetReturn, Return, Idle
        <3>4. QED
            BY <1>6, <3>1, <3>2, <3>3
    <2>2. QED
        BY <2>1 DEF ServesAsBefore, Switching
<1>7. Callers \subseteq Threads /\ Recoverer \in Threads
    BY Constants
<1>8. QED
    BY <1>1, <1>2, <1>3, <1>4, <1>5, <1>6, <1>7, ApplyRestServes, VersionServes,
       PipelineServes, RecoveryServes
    DEF Next, Session, notify_app_ready, apply_staged, reset

LEMMA MarkedStep == Typed /\ GateHeld /\ Marked /\ [Next]_vars => Marked'
<1> SUFFICES ASSUME Typed, GateHeld, Marked, [Next]_vars PROVE Marked'
    OBVIOUS
<1>1. CASE LoseState \/ \E t \in Threads : ResetUpdate(t)
    BY <1>1 DEF LoseState, ResetUpdate, Marked
<1>2. CASE proc' = "down"
    BY <1>2 DEF Marked
<1>3. QED
    BY <1>1, <1>2, StepServes, MarkedLaunch, MarkedFrame, MarkedAckBegin,
       MarkedAckUpdate, MarkedArm, MarkedSwap

LEMMA MarkedAlways == Spec => []Marked
<1>1. Init => Marked
    BY DEF Init, RuntimeInit, Marked
<1>2. QED
    BY <1>1, MarkedStep, TypedAlways, GateHeldAlways, PTL DEF Spec

\* An OTA bundle is served only with its rollback marker, or its commit, in
\* state.json: whenever the process dies, the next boot counts the launch
\* against the bundle that was running.
THEOREM ServedIsMarked == Spec => []MarkerOnDisk
<1>1. Marked => MarkerOnDisk
    BY DEF Marked, ServedMarked, MarkerOnDisk
<1>2. QED
    BY <1>1, MarkedAlways, PTL

(***************************************************************************)
(* Boot recovery and the page.                                             *)
(***************************************************************************)
\* Only an ack records that the page has acked, and it needs the gate, which
\* recovery holds from its last check of that record to the end of the switch.
LEMMA YieldStep ==
    Typed /\ GateHeld /\ RecoveryYieldsToPage /\ [Next]_vars => RecoveryYieldsToPage'
<1> SUFFICES ASSUME Typed, GateHeld, RecoveryYieldsToPage, [Next]_vars,
                    rec'.pc \in {"switch", "switched"}
             PROVE  page_acked' = FALSE
    BY DEF RecoveryYieldsToPage
<1>1. CASE UNCHANGED <<rec, page_acked>>
    BY <1>1 DEF RecoveryYieldsToPage, Typed, TypeOK, RuntimeTypeOK
<1>2. CASE Launch \/ Quit
    BY <1>2 DEF Launch, RecSpawned, Quit, RecLost, RecOff
<1>3. CASE LaunchCut \/ PageStep \/ Environment \/ check_and_download \/ UNCHANGED vars
    <2>1. UNCHANGED <<rec, page_acked>>
        BY <1>3, PipelineKeeps DEF LaunchCut, LaunchKilled, PageStep, PageLoad,
           RemoteLoad, Environment, LoseState, runtimeVars, vars
    <2>2. QED
        BY <1>1, <2>1
<1>4. ASSUME NEW t \in Callers, notify_app_ready(t) PROVE page_acked' = FALSE
    <2>1. ~AckBegin(t)
        BY <1>4, Constants DEF notify_app_ready, AckBegin, GateHeld
    <2>2. QED
        BY <1>1, <1>4, <2>1 DEF notify_app_ready, AckUpdate, AckFail, AckReturn
<1>5. ASSUME NEW t \in Callers, apply_staged(t) \/ reset(t) PROVE page_acked' = FALSE
    BY <1>1, <1>5 DEF apply_staged, ApplyBegin, ApplyArm, ApplyVersion, ApplySwap, ApplyRefuse,
       ApplyDiscard, ApplyGC, ApplyFail, applyFrame, reset, ResetBegin, ResetUpdate,
       ResetFail, ResetReturn
<1>6. CASE RecoveryNext
    <2>1. page_acked' = page_acked
        BY <1>6 DEF RecoveryNext, RecPageIsFine, RecCall, RecLocks, RecCollect,
           RecStagedOnly, RecSwitch, RecArm, RecVersion, RecSwap,
           RecFlag, RecKeep, RecDiscard, RecDiscarded, RecApplyFail, RecReload,
           RecReloadFails, RecReloaded, ApplyArm, ApplyVersion, ApplySwap, ApplyRefuse,
           ApplyDiscard, ApplyGC, ApplyFail, applyFrame, runtimeVars, Load
    <2>2. CASE RecSwitch
        BY <2>1, <2>2 DEF RecSwitch, Typed, TypeOK, RuntimeTypeOK
    <2>3. CASE RecArm \/ RecVersion \/ RecDiscard
        BY <1>1, <2>1, <2>3 DEF RecArm, RecVersion, RecDiscard
    <2>4. CASE RecSwap
        BY <2>1, <2>4 DEF RecSwap, ApplySwap, GateHeld, RecoveryYieldsToPage
    <2>5. CASE RecFlag \/ RecKeep \/ RecDiscarded \/ RecApplyFail
        BY <2>5, RecMoves, CallType DEF RecFlag, RecKeep, RecDiscarded, RecApplyFail
    <2>6. QED
        BY <1>6, <2>1, <2>2, <2>3, <2>4, <2>5, OutsideSwitch DEF RecoveryNext
<1>7. QED
    BY <1>2, <1>3, <1>4, <1>5, <1>6 DEF Next, Session

\* Boot recovery never switches under a page that has acked.
THEOREM RecoveryYields == Spec => []RecoveryYieldsToPage
<1>1. Init => RecoveryYieldsToPage
    BY DEF Init, RecoveryInit, RecOff, RecoveryYieldsToPage
<1>2. QED
    BY <1>1, YieldStep, TypedAlways, GateHeldAlways, PTL DEF Spec

(***************************************************************************)
(* What is served is what state.json says it is, and beats the shell.      *)
(***************************************************************************)
\* The version of what is served, or about to be, is the one in state.json.
Reported ==
    proc = "up" /\ ~wiped =>
        /\ current.active # Embedded =>
               /\ current.version = disk.versions[current.active].version
               /\ current.version > shell
        /\ \A t \in Threads :
               /\ Switching(t) => disk.versions[call[t].seq].version > shell
               /\ call[t].pc = "versioned" =>
                      call[t].version = disk.versions[call[t].seq].version

LEMMA ReportedLaunch ==
    ASSUME Typed, NEW sh \in Shells, LaunchSaved(sh) \/ LaunchUnsaved(sh)
    PROVE  Reported'
<1> DEFINE boot == ResolveBoot(disk, sh, Present)
<1>1. Sound(disk) /\ sh \in Versions /\ Present \in SUBSET Seqs
    BY PresentType, Constants DEF Typed
<1>2. Sound(boot) /\ LetsGo(disk, boot)
    BY <1>1, ResolveBootSound, BootLetsGo
<1>3. /\ boot.committed # NoSeq =>
             /\ boot.committed = disk.committed
             /\ disk.versions[boot.committed].version > sh
      /\ boot.booting # NoSeq => boot.versions[boot.booting].version > sh
    <2>1. boot.committed = IF /\ disk.committed # NoSeq
                              /\ disk.committed \in Present
                              /\ disk.versions[disk.committed].version > sh
                           THEN disk.committed ELSE NoSeq
        BY <1>1, BootPointers
    <2>2. boot.booting # NoSeq => boot.versions[boot.booting].version > sh
        BY <1>1, BootPointers
    <2> HIDE DEF boot
    <2>3. QED
        BY <2>1, <2>2
<1>4. /\ LaunchSaved(sh) => disk' = boot /\ current' = Serve(boot, ActiveOf(boot), sh)
      /\ LaunchUnsaved(sh) => disk' = disk /\ current' = Serve(boot, boot.committed, sh)
      /\ call' = [t \in Threads |-> Idle] /\ shell' = sh
    BY DEF LaunchSaved, LaunchUnsaved, SaveState, SaveFails, Start
<1> HIDE DEF boot
<1>5. \A seq \in Referenced(boot) : boot.versions[seq] = disk.versions[seq]
    BY <1>2 DEF LetsGo
<1>6. /\ boot.committed # NoSeq => /\ boot.committed \in Referenced(boot)
                                   /\ boot.versions[boot.committed] # Absent
      /\ boot.booting # NoSeq => boot.versions[boot.booting] # Absent
    BY <1>2 DEF Referenced, Sound, Loose, Known
<1>7. current'.active # Embedded =>
          /\ current'.version = disk'.versions[current'.active].version
          /\ current'.version > shell'
    <2>1. CASE LaunchSaved(sh)
        BY <1>3, <1>4, <1>5, <1>6, <2>1, Constants DEF Serve, VersionOf, ActiveOf
    <2>2. CASE LaunchUnsaved(sh)
        BY <1>3, <1>4, <1>5, <1>6, <2>2, Constants DEF Serve, VersionOf
    <2>3. QED
        BY <2>1, <2>2
<1>8. \A t \in Threads : call'[t].pc \notin {"armed", "versioned"}
    BY <1>4, IdleCall
<1>9. QED
    BY <1>7, <1>8 DEF Reported, Switching

LEMMA ReportedStep ==
    Typed /\ Marked /\ Marked' /\ Reported /\ [Next]_vars => Reported'
<1> SUFFICES ASSUME Typed, Marked, Marked', Reported, [Next]_vars PROVE Reported'
    OBVIOUS
<1>1. CASE Launch
    BY <1>1, ReportedLaunch DEF Launch
<1>2. CASE Quit
    BY <1>2 DEF Quit, Exit, Reported
<1>3. CASE InSession
    <2> SUFFICES ASSUME proc' = "up", ~wiped'
                 PROVE  /\ current'.active # Embedded =>
                               /\ current'.version = disk'.versions[current'.active].version
                               /\ current'.version > shell'
                        /\ \A t \in Threads :
                               /\ Switching(t)' =>
                                      disk'.versions[call'[t].seq].version > shell'
                               /\ call'[t].pc = "versioned" =>
                                      call'[t].version =
                                          disk'.versions[call'[t].seq].version
        BY DEF Reported
    <2>1. UNCHANGED <<proc, shell, wiped>>
        BY <1>3 DEF InSession, LoseState, ResetUpdate
    <2>2. /\ ServedMarked /\ ArmedMarked /\ ServedMarked' /\ ArmedMarked'
          /\ current.active # Embedded =>
                 /\ current.version = disk.versions[current.active].version
                 /\ current.version > shell
          /\ \A t \in Threads :
                 /\ Switching(t) => disk.versions[call[t].seq].version > shell
                 /\ call[t].pc = "versioned" =>
                        call[t].version = disk.versions[call[t].seq].version
        BY <2>1 DEF Marked, Reported
    <2>3. /\ Sound(disk) /\ disk \in State /\ shell \in Nat
          /\ \A seq \in Referenced(disk) \cap Referenced(disk') :
                 disk'.versions[seq] = disk.versions[seq]
        BY MetaStep, VersionsAssumption
        DEF VersionsAssumption, Typed, TypeOK, RuntimeTypeOK, Sound, Loose
    <2>4. current'.active # Embedded =>
              /\ current'.version = disk'.versions[current'.active].version
              /\ current'.version > shell'
        <3>1. CASE current' = current
            <4>1. current.active # Embedded =>
                      current.active \in Referenced(disk) \cap Referenced(disk')
                BY <2>2, <3>1, Constants DEF ServedMarked, Referenced
            <4>2. QED
                BY <2>1, <2>2, <2>3, <3>1, <4>1
        <3>2. ASSUME NEW t \in Threads, ApplySwap(t)
              PROVE  /\ current'.version = disk'.versions[current'.active].version
                     /\ current'.version > shell'
            <4>1. /\ call[t].pc = "versioned"
                  /\ disk' = disk
                  /\ current' = [active |-> call[t].seq, version |-> call[t].version]
                BY <3>2 DEF ApplySwap, storeVars
            <4>2. QED
                BY <2>1, <2>2, <4>1 DEF Switching
        <3>3. QED
            BY <1>3, <3>1, <3>2 DEF InSession
    <2>5. ASSUME NEW t \in Threads, Switching(t)'
          PROVE  /\ disk'.versions[call'[t].seq].version > shell'
                 /\ call'[t].pc = "versioned" =>
                        call'[t].version = disk'.versions[call'[t].seq].version
        <3>1. CASE call'[t] = call[t]
            <4>1. Switching(t)
                BY <2>5, <3>1 DEF Switching
            <4>2. call[t].seq \in Referenced(disk) \cap Referenced(disk')
                BY <2>2, <2>5, <3>1, <4>1 DEF ArmedMarked, Referenced
            <4>3. QED
                BY <2>1, <2>2, <2>3, <3>1, <4>1, <4>2
        <3>2. CASE ApplyArm(t)
            <4>1. /\ disk' = Arm(disk) /\ call'[t].seq = disk.staged
                  /\ call'[t].pc = "armed"
                  /\ disk.staged # NoSeq
                  /\ disk.versions[disk.staged].version >
                         MaxVersion(disk.max_version_seen, shell)
                BY <3>2, CallType DEF ApplyArm, SaveState, ApplyDecides,
                   PromoteDecision, Armable
            <4>2. disk'.versions = disk.versions
                BY <2>3, <4>1 DEF Arm, State
            <4>3. /\ disk.max_version_seen \in Nat
                  /\ disk.versions[disk.staged].version \in Nat
                BY <2>3, <4>1, StateFacts DEF Sound, Loose, Known, State, Pointer
            <4>4. QED
                BY <2>1, <2>3, <4>1, <4>2, <4>3 DEF MaxVersion
        <3>3. CASE ApplyVersion(t)
            <4>1. /\ disk' = disk /\ Switching(t)
                  /\ call'[t].seq = call[t].seq
                  /\ call'[t].version = VersionOf(disk, call[t].seq, shell)
                BY <3>3, CallType DEF ApplyVersion, storeVars, Switching
            <4>2. call[t].seq = disk.booting /\ disk.booting # NoSeq
                BY <2>2, <4>1 DEF ArmedMarked
            <4>3. disk.versions[disk.booting] # Absent
                BY <2>3, <4>2 DEF Sound, Loose, Known
            <4>4. QED
                BY <2>1, <2>2, <4>1, <4>2, <4>3, Constants DEF VersionOf
        <3>4. QED
            BY <1>3, <2>5, <3>1, <3>2, <3>3, IdleCall
            DEF InSession, CallMoves, Switching
    <2>6. QED
        BY <2>4, <2>5 DEF Switching
<1>4. QED
    BY <1>1, <1>2, <1>3, WhoMoves

LEMMA ReportedAlways == Spec => []Reported
<1>1. Init => Reported
    BY DEF Init, RuntimeInit, Reported
<1>2. QED
    BY <1>1, ReportedStep, TypedAlways, MarkedAlways, PTL DEF Spec

\* Without reset() in the frontend no call is in it.
NoResetCall == \A t \in Threads : call[t].pc \notin {"reset", "wiped"}

LEMMA NoResetCallAlways ==
    ASSUME "reset" \notin PageCalls
    PROVE  Spec => []NoResetCall
<1>1. Init => NoResetCall
    BY IdleCall DEF Init, RuntimeInit, NoResetCall
<1>2. Typed /\ NoResetCall /\ [Next]_vars => NoResetCall'
    <2> SUFFICES ASSUME Typed, NoResetCall, [Next]_vars PROVE NoResetCall'
        OBVIOUS
    <2>1. CASE Launch \/ Quit
        BY <2>1, IdleCall DEF Launch, LaunchSaved, LaunchUnsaved, Start, Quit, Exit,
           NoResetCall
    <2>2. CASE InSession
        BY <2>2, IdleCall DEF InSession, CallMoves, ResetBegin, CanCall, ResetUpdate,
           NoResetCall
    <2>3. QED
        BY <2>1, <2>2, WhoMoves
<1>3. QED
    BY <1>1, <1>2, TypedAlways, PTL DEF Spec

LEMMA NeverWiped ==
    ASSUME "reset" \notin PageCalls, "state_lost" \notin Faults
    PROVE  Spec => []~wiped
<1>1. Init => ~wiped
    BY DEF Init, RuntimeInit
<1>2. Typed /\ NoResetCall /\ ~wiped /\ [Next]_vars => ~wiped'
    <2> SUFFICES ASSUME Typed, NoResetCall, ~wiped, [Next]_vars PROVE ~wiped'
        OBVIOUS
    <2>1. CASE Launch \/ Quit
        BY <2>1 DEF Launch, LaunchSaved, LaunchUnsaved, Start, Quit, Exit
    <2>2. CASE InSession
        BY <2>2, Constants DEF InSession, LoseState, StateLost, ResetUpdate,
           NoResetCall
    <2>3. QED
        BY <2>1, <2>2, WhoMoves
<1>3. QED
    BY <1>1, <1>2, TypedAlways, NoResetCallAlways, PTL DEF Spec

\* For as long as state.json is not reset or lost under the running process,
\* what it serves is the version state.json records and newer than its shell.
THEOREM ServedIsRecorded ==
    Spec => [](proc = "up" /\ ~wiped /\ current.active # Embedded =>
                   /\ current.version = disk.versions[current.active].version
                   /\ current.version > shell)
<1>1. Reported => (proc = "up" /\ ~wiped /\ current.active # Embedded =>
                       /\ current.version = disk.versions[current.active].version
                       /\ current.version > shell)
    BY DEF Reported
<1>2. QED
    BY <1>1, ReportedAlways, PTL

\* An app that does not use reset() and keeps its state.json never serves a
\* bundle that the frontend embedded in its shell has caught up with.
THEOREM ServedIsNewer ==
    ASSUME "reset" \notin PageCalls, "state_lost" \notin Faults
    PROVE  Spec => []ServedBeatsShell
<1>1. Reported /\ ~wiped => ServedBeatsShell
    BY DEF Reported, ServedBeatsShell
<1>2. QED
    BY <1>1, ReportedAlways, NeverWiped, PTL

(***************************************************************************)
(* An ack commits what a page of this process was loaded from.             *)
(***************************************************************************)
\* Without apply_staged() in the frontend only boot recovery is in it.
NoApplyCall ==
    \A t \in Callers : call[t].pc \notin {"apply", "armed", "versioned", "discarded"}

LEMMA NoApplyStep ==
    ASSUME "apply" \notin PageCalls, NoApplyCall, NEW t \in Callers
    PROVE  ~apply_staged(t)
BY DEF NoApplyCall, apply_staged, ApplyBegin, CanCall, ApplyArm, ApplyVersion,
   ApplyDiscard, ApplyDecides, ApplySwap, ApplyRefuse, ApplyGC, ApplyFail

LEMMA NoApplyCallAlways ==
    ASSUME "apply" \notin PageCalls
    PROVE  Spec => []NoApplyCall
<1>1. Init => NoApplyCall
    BY IdleCall, Constants DEF Init, RuntimeInit, NoApplyCall
<1>2. Typed /\ NoApplyCall /\ [Next]_vars => NoApplyCall'
    <2> SUFFICES ASSUME Typed, NoApplyCall, [Next]_vars, NEW t \in Callers
                 PROVE  call'[t].pc \notin {"apply", "armed", "versioned", "discarded"}
        BY DEF NoApplyCall
    <2> USE Constants, CallType
    <2>1. call[t].pc \notin {"apply", "armed", "versioned", "discarded"}
        BY DEF NoApplyCall
    <2>2. CASE call'[t] = call[t]
        BY <2>1, <2>2
    <2>3. CASE Launch \/ Quit
        BY <2>3, IdleCall DEF Launch, LaunchSaved, LaunchUnsaved, Start, Quit, Exit
    <2>4. CASE \/ LaunchCut \/ PageStep \/ Environment \/ check_and_download
               \/ UNCHANGED vars
        BY <2>2, <2>4, PipelineKeeps DEF LaunchCut, LaunchKilled, PageStep,
           PageLoad, RemoteLoad, Environment, LoseState, DirLost, runtimeVars, vars
    <2>5. ASSUME NEW u \in Callers, notify_app_ready(u) \/ reset(u)
          PROVE  call'[t].pc \notin {"apply", "armed", "versioned", "discarded"}
        <3>1. CASE u # t
            BY <2>2, <2>5, <3>1 DEF notify_app_ready, AckBegin, AckUpdate, AckFail,
               AckReturn, reset, ResetBegin, ResetUpdate, ResetFail, ResetReturn,
               Return
        <3>2. CASE u = t
            <4>0. CASE AckBegin(t)
                BY <4>0 DEF AckBegin, Idle
            <4>1. CASE ResetBegin(t)
                BY <4>1 DEF ResetBegin, Idle
            <4>2. CASE AckUpdate(t) \/ ResetUpdate(t)
                BY <4>2 DEF AckUpdate, ResetUpdate
            <4>3. CASE AckFail(t) \/ AckReturn(t) \/ ResetFail(t) \/ ResetReturn(t)
                BY <4>3, IdleCall DEF AckFail, AckReturn, ResetFail, ResetReturn,
                   Return
            <4>4. QED
                BY <2>5, <3>2, <4>0, <4>1, <4>2, <4>3 DEF notify_app_ready, reset
        <3>3. QED
            BY <3>1, <3>2
    <2>6. \A u \in Callers : ~apply_staged(u)
        BY NoApplyStep
    <2>7. CASE RecoveryNext
        BY <2>2, <2>7 DEF RecoveryNext, RecPageIsFine, RecCall, RecLocks, RecCollect,
           RecStagedOnly, RecSwitch, ApplyEnter, RecArm, RecVersion,
           RecSwap, RecFlag, RecKeep, RecDiscard, RecDiscarded, RecApplyFail,
           RecReload, RecReloadFails, RecReloaded, ApplyArm, ApplyVersion, ApplySwap, ApplyRefuse,
           ApplyDiscard, ApplyGC, ApplyFail, Return, runtimeVars
    <2>8. QED
        BY <2>3, <2>4, <2>5, <2>6, <2>7 DEF Next, Session
<1>3. QED
    BY <1>1, <1>2, TypedAlways, PTL DEF Spec

\* Outside a switch some page has been loaded from what is served, as soon as
\* there is one at all; an ack under way is about such a bundle.
Ran ==
    /\ \A t \in Threads : call[t].pc = "ack" => call[t].seq \in ran
    /\ ~reload_pending /\ rec.pc # "switched" /\ (\E w \in Windows : page[w] \in Pointer) =>
           current.active \in ran

\* No window shows pages that are not the app's, or there is one window only.
OneKindOfPage == RemoteWindows = {} \/ \A v, w \in Windows : v = w

LEMMA RanFrame ==
    ASSUME Ran, UNCHANGED <<current, reload_pending, page>>, ran \subseteq ran',
           rec.pc = "switched" => rec'.pc = "switched",
           \A t \in Threads : call'[t].pc = "ack" => call'[t] = call[t]
    PROVE  Ran'
BY DEF Ran

LEMMA RanStep ==
    ASSUME "apply" \notin PageCalls, OneKindOfPage
    PROVE  Typed /\ GateHeld /\ NoApplyCall /\ Ran /\ [Next]_vars => Ran'
<1> SUFFICES ASSUME Typed, GateHeld, NoApplyCall, Ran, [Next]_vars PROVE Ran'
    OBVIOUS
<1> USE Constants, IdleCall, CallType
<1>0. NoPage \notin Pointer /\ RemotePage \notin Pointer
    BY DEF Pointer, NoPage, RemotePage
<1>1. CASE Launch \/ Quit
    BY <1>0, <1>1 DEF Launch, LaunchSaved, LaunchUnsaved, Start, Quit, Exit, Ran
<1>2. CASE PageStep
    <2>1. PICK w \in Windows : PageLoad(w) \/ RemoteLoad(w)
        BY <1>2 DEF PageStep
    <2>2. CASE PageLoad(w)
        BY <2>2 DEF PageLoad, Load, Ran
    <2>3. CASE RemoteLoad(w)
        <3>1. \A v \in Windows : page'[v] = RemotePage
            BY <2>3 DEF RemoteLoad, OneKindOfPage, Typed, TypeOK, RuntimeTypeOK
        <3>2. QED
            BY <1>0, <2>3, <3>1 DEF RemoteLoad, Ran
    <2>4. QED
        BY <2>1, <2>2, <2>3
<1>3. CASE LaunchCut \/ Environment \/ check_and_download \/ UNCHANGED vars
    <2>1. UNCHANGED <<current, reload_pending, page, ran, call, rec>>
        BY <1>3, PipelineKeeps DEF LaunchCut, LaunchKilled, Environment,
           LoseState, DirLost, runtimeVars, vars
    <2>2. QED
        BY <2>1, RanFrame
<1>4. ASSUME NEW t \in Callers, notify_app_ready(t) PROVE Ran'
    <2>1. CASE AckBegin(t)
        <3>1. rec.pc # "switched"
            BY <2>1 DEF AckBegin, GateHeld
        <3>2. current.active \in ran
            BY <2>1, <3>1 DEF AckBegin, CanCall, Ran
        <3>3. /\ UNCHANGED <<current, reload_pending, page, ran, rec>>
              /\ call'[t].seq = current.active
              /\ \A u \in Threads \ {t} : call'[u] = call[u]
            BY <1>4, <2>1 DEF notify_app_ready, AckBegin, Idle
        <3>4. QED
            BY <3>2, <3>3 DEF Ran
    <2>2. CASE ~AckBegin(t)
        <3>1. /\ UNCHANGED <<current, reload_pending, page, ran, rec>>
              /\ call'[t].pc # "ack"
              /\ \A u \in Threads \ {t} : call'[u] = call[u]
            BY <1>4, <2>2 DEF notify_app_ready, AckUpdate, AckFail, AckReturn, Return
        <3>2. QED
            BY <3>1, RanFrame
    <2>3. QED
        BY <2>1, <2>2
<1>5. ASSUME NEW t \in Callers, reset(t) PROVE Ran'
    <2>1. /\ UNCHANGED <<current, reload_pending, page, ran, rec>>
          /\ \A u \in Threads \ {t} : call'[u] = call[u]
        BY <1>5 DEF reset, ResetBegin, ResetUpdate, ResetFail, ResetReturn, Return
    <2>2. call'[t].pc # "ack"
        <3>1. CASE ResetBegin(t)
            BY <3>1 DEF ResetBegin, Idle
        <3>2. CASE ResetUpdate(t)
            BY <3>2 DEF ResetUpdate
        <3>3. CASE ResetFail(t) \/ ResetReturn(t)
            BY <3>3 DEF ResetFail, ResetReturn, Return
        <3>4. QED
            BY <1>5, <3>1, <3>2, <3>3 DEF reset
    <2>3. QED
        BY <2>1, <2>2, RanFrame
<1>6. CASE RecoveryNext
    <2>1. CASE \/ RecPageIsFine \/ RecCall \/ RecLocks \/ RecCollect
               \/ RecStagedOnly
               \/ \E w \in Windows : RecReloadFails(w)
               \/ RecReloaded
        <3>1. UNCHANGED <<current, reload_pending, page, ran, call>>
            BY <2>1 DEF RecPageIsFine, RecCall, RecLocks, RecCollect, RecStagedOnly,
               RecReloadFails, RecReloaded, runtimeVars
        <3>2. rec.pc # "switched"
            BY <2>1, OutsideSwitch
        <3>3. QED
            BY <3>1, <3>2, RanFrame
    <2>2. ASSUME NEW w \in Windows, RecReload(w) PROVE Ran'
        BY <2>2 DEF RecReload, Load, Ran
    <2>3. CASE RecSwitch \/ RecArm \/ RecVersion \/ RecDiscard
        <3>1. /\ UNCHANGED <<current, reload_pending, page, ran>>
              /\ \A u \in Threads \ {Recoverer} : call'[u] = call[u]
              /\ rec.pc = "switched" => rec'.pc = "switched"
            BY <2>3 DEF RecSwitch, ApplyEnter, RecArm, RecVersion, RecDiscard,
               ApplyArm, ApplyVersion, ApplyDiscard, applyFrame
        <3>2. call'[Recoverer].pc # "ack"
            <4>1. CASE RecSwitch
                BY <4>1 DEF RecSwitch, ApplyEnter, Idle
            <4>2. CASE RecArm \/ RecVersion
                BY <4>2 DEF RecArm, ApplyArm, RecVersion, ApplyVersion
            <4>3. CASE RecDiscard
                BY <4>3 DEF RecDiscard, ApplyDiscard
            <4>4. QED
                BY <2>3, <4>1, <4>2, <4>3
        <3>3. QED
            BY <3>1, <3>2, RanFrame
    <2>4. CASE RecSwap
        <3>1. /\ UNCHANGED ran
              /\ call' = [call EXCEPT ![Recoverer] = Idle]
              /\ rec'.pc = "switched"
            BY <2>4, RecMoves DEF RecSwap, ApplySwap, Return, applyFrame
        <3>2. QED
            BY <3>1 DEF Ran
    <2>5. CASE RecFlag
        BY <2>5 DEF RecFlag, Ran
    <2>6. CASE RecKeep \/ RecDiscarded \/ RecApplyFail
        <3>1. /\ UNCHANGED <<current, reload_pending, page, ran>>
              /\ call[Recoverer].pc # "idle"
              /\ call' = [call EXCEPT ![Recoverer] = Idle]
            BY <2>6 DEF RecKeep, RecDiscarded, RecApplyFail, ApplyRefuse,
               ApplyDecides, ApplyGC, ApplyFail, Return, applyFrame
        <3>2. rec.pc # "switched"
            BY <3>1 DEF GateHeld
        <3>3. QED
            BY <3>1, <3>2, RanFrame
    <2>7. QED
        BY <1>6, <2>1, <2>2, <2>3, <2>4, <2>5, <2>6 DEF RecoveryNext
<1>7. QED
    BY <1>1, <1>2, <1>3, <1>4, <1>5, <1>6, NoApplyStep DEF Next, Session

LEMMA CommitStep ==
    Typed /\ Ran /\ [Next]_vars =>
        (disk'.committed \notin {disk.committed, NoSeq} => disk'.committed \in ran)
<1> SUFFICES ASSUME Typed, Ran, [Next]_vars, disk'.committed \notin {disk.committed, NoSeq}
             PROVE  disk'.committed \in ran
    OBVIOUS
<1>1. Sound(disk) /\ disk \in State
    BY DEF Typed, Sound, Loose
<1>2. Acked(disk')
    <2>1. DiskMoves
        BY StepMoves
    <2>2. ~Booted(disk')
        <3>1. \A sh \in Shells : ResolveBoot(disk, sh, Present).committed \in {disk.committed, NoSeq}
            BY <1>1, BootPointers, PresentType, Constants
        <3>2. QED
            BY <3>1 DEF Booted
    <2>3. ~Promoted(disk') /\ ~Discarded(disk') /\ ~Staged(disk')
        BY <1>1, ArmPointers, DiscardPointers, StagePointers
        DEF Promoted, Discarded, Staged
    <2>4. ~Cleared(disk')
        BY DEF Cleared, Default
    <2>5. QED
        BY <2>1, <2>2, <2>3, <2>4 DEF DiskMoves, SessionMoves
<1>3. PICK t \in Threads : call[t].pc = "ack" /\ disk' = Ack(disk, call[t].seq).state
    BY <1>2 DEF Acked
<1>4. QED
    BY <1>1, <1>3, AckPointers DEF Ran

\* In an app whose frontend leaves the switch to boot recovery, and whose
\* windows do not share the page-load hook with pages of other sites, an ack
\* only ever commits a bundle that a page of this process was loaded from.
THEOREM CommitsWhatRan ==
    ASSUME "apply" \notin PageCalls, OneKindOfPage
    PROVE  Spec => CommitFromRunningPage
<1>1. Init => Ran
    BY IdleCall, Constants DEF Init, RuntimeInit, Ran, NoPage, Pointer
<1>2. QED
    BY <1>1, RanStep, CommitStep, TypedAlways, GateHeldAlways, NoApplyCallAlways, PTL
    DEF Spec, CommitFromRunningPage

(***************************************************************************)
(* Acks after a switch.                                                    *)
(***************************************************************************)
\* While acks are ignored, a window shows a page that is not the app's or is
\* one that boot recovery is yet to reload.
ToReload ==
    reload_pending => \A w \in Windows :
        \/ page[w] = RemotePage
        \/ rec.pc = "reload" /\ w \in rec.windows

LEMMA ToReloadFrame ==
    ASSUME ToReload, UNCHANGED <<reload_pending, page>>,
           UNCHANGED rec \/ rec.pc # "reload"
    PROVE  ToReload'
<1> SUFFICES ASSUME reload_pending', NEW w \in Windows, page'[w] # RemotePage
             PROVE  rec'.pc = "reload" /\ w \in rec'.windows
    BY DEF ToReload
<1>1. reload_pending /\ page[w] # RemotePage
    OBVIOUS
<1>2. rec.pc = "reload" /\ w \in rec.windows
    BY <1>1 DEF ToReload
<1>3. QED
    BY <1>2

LEMMA RecoveryReloads ==
    ASSUME "reload" \notin Faults, Typed, GateHeld, ToReload, RecoveryNext
    PROVE  ToReload'
<1> USE Constants, IdleCall, CallType
<1>1. CASE \/ RecPageIsFine \/ RecCall \/ RecLocks \/ RecCollect
           \/ RecStagedOnly \/ RecSwitch
    BY <1>1, ToReloadFrame DEF RecPageIsFine, RecCall, RecLocks, RecCollect,
       RecStagedOnly, RecSwitch, runtimeVars
<1>2. CASE RecArm \/ RecVersion \/ RecDiscard
    BY <1>2, ToReloadFrame DEF RecArm, RecVersion, RecDiscard, ApplyArm,
       ApplyVersion, ApplyDiscard, applyFrame
<1>3. CASE RecKeep \/ RecDiscarded \/ RecApplyFail \/ RecSwap
    <2>1. UNCHANGED <<reload_pending, page>> /\ call[Recoverer].pc # "idle"
        BY <1>3 DEF RecKeep, RecDiscarded, RecApplyFail, RecSwap, ApplyRefuse,
           ApplyDecides, ApplyGC, ApplyFail, ApplySwap, applyFrame
    <2>2. QED
        BY <2>1, ToReloadFrame DEF GateHeld
<1>4. CASE RecFlag
    BY <1>4 DEF RecFlag, ToReload
<1>5. ASSUME NEW w \in Windows, RecReload(w) PROVE ToReload'
    BY <1>5 DEF RecReload, Load, ToReload
<1>6. ASSUME NEW w \in Windows, RecReloadFails(w) PROVE ToReload'
    <2>1. /\ page[w] = RemotePage
          /\ UNCHANGED <<reload_pending, page>>
          /\ rec'.pc = rec.pc /\ rec'.windows = rec.windows \ {w}
        BY <1>6 DEF RecReloadFails, runtimeVars, Typed, TypeOK, RecoveryTypeOK
    <2>2. ASSUME reload_pending', NEW u \in Windows, page'[u] # RemotePage
          PROVE  rec'.pc = "reload" /\ u \in rec'.windows
        BY <2>1, <2>2 DEF ToReload
    <2>3. QED
        BY <2>2 DEF ToReload
<1>7. CASE RecReloaded
    BY <1>7 DEF RecReloaded, ToReload, runtimeVars
<1>8. QED
    BY <1>1, <1>2, <1>3, <1>4, <1>5, <1>6, <1>7 DEF RecoveryNext

LEMMA ToReloadStep ==
    ASSUME "reload" \notin Faults
    PROVE  Typed /\ GateHeld /\ ToReload /\ [Next]_vars => ToReload'
<1> SUFFICES ASSUME Typed, GateHeld, ToReload, [Next]_vars PROVE ToReload'
    OBVIOUS
<1>1. CASE Launch \/ Quit
    BY <1>1 DEF Launch, LaunchSaved, LaunchUnsaved, Start, Quit, Exit, ToReload
<1>2. CASE PageStep
    BY <1>2 DEF PageStep, PageLoad, Load, RemoteLoad, ToReload
<1>3. CASE LaunchCut \/ Environment \/ check_and_download \/ UNCHANGED vars
    BY <1>3, PipelineKeeps, ToReloadFrame DEF LaunchCut, LaunchKilled, Environment,
       LoseState, DirLost, runtimeVars, vars
<1>4. ASSUME NEW t \in Callers, notify_app_ready(t) \/ reset(t) PROVE ToReload'
    BY <1>4, ToReloadFrame DEF notify_app_ready, AckBegin, AckUpdate, AckFail,
       AckReturn, reset, ResetBegin, ResetUpdate, ResetFail, ResetReturn
<1>5. ASSUME NEW t \in Callers, apply_staged(t) PROVE ToReload'
    BY <1>5, ToReloadFrame DEF apply_staged, ApplyBegin, ApplyArm, ApplyVersion,
       ApplyDiscard, ApplyDecides, ApplySwap, ApplyRefuse, ApplyGC, ApplyFail,
       applyFrame
<1>6. CASE RecoveryNext
    BY <1>6, RecoveryReloads
<1>7. QED
    BY <1>1, <1>2, <1>3, <1>4, <1>5, <1>6 DEF Next, Session

\* Boot recovery is never done with a switch while a page of the app is left
\* whose acks are ignored, as long as reloads work.
THEOREM AcksAreHeard ==
    ASSUME "reload" \notin Faults
    PROVE  Spec => []AcksHeardAgain
<1>1. Init => ToReload
    BY DEF Init, RuntimeInit, ToReload
<1>2. ToReload => AcksHeardAgain
    BY DEF ToReload, AcksHeardAgain
<1>3. QED
    BY <1>1, <1>2, ToReloadStep, TypedAlways, GateHeldAlways, PTL DEF Spec
=============================================================================
