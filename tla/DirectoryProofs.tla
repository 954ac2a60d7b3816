--------------------------- MODULE DirectoryProofs --------------------------
(***************************************************************************)
(* state.json and the bundle directories agree: what a pointer names is on *)
(* disk and complete, and no delete that is still to run can take it away. *)
(*                                                                         *)
(* A handler lists what to delete while it holds the write lock and        *)
(* deletes later, so the argument is about ownership: a directory is in    *)
(* use by state.json or by the pipeline run that just renamed it, or       *)
(* waits in the list of exactly one thread, or is left for boot GC.  What  *)
(* a transition lets go of (MachineProofs) passes from the first to the    *)
(* second, and nothing passes back.                                        *)
(***************************************************************************)
EXTENDS MarkerProofs

NoReset == "reset" \notin PageCalls

\* Who may have deletes to run; NoThread stands for the runs of the pipeline.
Holders == Threads \cup {NoThread}
Pending(h) == IF h = NoThread THEN UNION {job[r].effects : r \in Runs}
              ELSE call[h].effects

InUse ==
    Referenced(disk)
        \cup {seq \in Seqs : \E r \in Runs : job[r].pc = "renamed" /\ job[r].seq = seq}

\* A sweep of temp entries during an extraction is the one thing that leaves a
\* directory incomplete.
Holds(seq, meta) ==
    /\ bundles[seq] # Absent
    /\ bundles[seq].meta = meta
    /\ NoReset => bundles[seq].whole

\* What is in use is there, and a number a run has chosen is still free.
Kept ==
    /\ \A seq \in Referenced(disk) : Holds(seq, disk.versions[seq])
    /\ \A r \in Runs : job[r].pc = "renamed" =>
           job[r].seq \notin Referenced(disk) /\ Holds(job[r].seq, job[r].meta)
    /\ \A r \in Runs : job[r].pc = "allocated" =>
           job[r].seq \notin Present \cup Referenced(disk)

Deleting ==
    /\ \A h \in Holders : Pending(h) \subseteq Present \ InUse
    /\ \A h, k \in Holders : h # k => Pending(h) \cap Pending(k) = {}

\* Directories pass on in one direction: what is deleted was on a list, what
\* comes into use was not there, and what gets onto a list was in use.
HandsOn ==
    /\ Present \ UNION {Pending(h) : h \in Holders} \subseteq Present'
    /\ InUse' \subseteq InUse \cup (Seqs \ Present)
    /\ \A h \in Holders : Pending(h)' \subseteq Pending(h) \cup InUse

\* A run ends with its process, only its last steps have deletes to do, and
\* only reset() sweeps under it.
RunEnds ==
    /\ proc = "down" => \A r \in Runs : job[r].pc = "idle"
    /\ \A r \in Runs : job[r].effects # {} => job[r].pc \in {"staged", "removing"}
    /\ NoReset => \A r \in Runs : /\ ~job[r].swept
                                  /\ job[r].pc = "allocated" => job[r].whole

LEMMA DirectoryTypes ==
    ASSUME Typed
    PROVE  /\ disk \in State /\ Sound(disk)
           /\ Referenced(disk) \subseteq Seqs
           /\ bundles \in [Seqs -> Bundle \cup {Absent}]
           /\ job \in [Runs -> JobRecord]
           /\ \A r \in Runs : /\ job[r] \in JobRecord
                              /\ job[r].effects \subseteq Seqs
                              /\ job[r].pc \in {"allocated", "renamed"} =>
                                     job[r].seq \in Seqs /\ job[r].meta \in BundleMeta
           /\ InUse \subseteq Seqs /\ Present \subseteq Seqs
           /\ \A h \in Holders : Pending(h) \subseteq Seqs
<1>1. disk \in State /\ Sound(disk)
    BY DEF Typed, Sound, Loose
<1>2. Referenced(disk) \subseteq Seqs
    BY <1>1, ReferencedType
<1>3. /\ job \in [Runs -> JobRecord]
      /\ \A r \in Runs : /\ job[r] \in JobRecord
                         /\ job[r].effects \subseteq Seqs
                         /\ job[r].pc \in {"allocated", "renamed"} =>
                                job[r].seq \in Seqs /\ job[r].meta \in BundleMeta
    BY DEF Typed, TypeOK, UpdateTypeOK, JobsTyped, RunTyped, JobRecord
<1>4. \A h \in Holders : Pending(h) \subseteq Seqs
    BY <1>3, CallType DEF Pending, Holders
<1>5. QED
    BY <1>1, <1>2, <1>3, <1>4, PresentType
    DEF Typed, TypeOK, StoreTypeOK, InUse

(***************************************************************************)
(* The two kinds of step.                                                  *)
(***************************************************************************)
\* No run chooses a number, renames or takes on deletes.
RunsShrink ==
    \A r \in Runs :
        /\ job'[r].pc \in {"allocated", "renamed"} =>
               /\ job'[r].pc = job[r].pc
               /\ job'[r].seq = job[r].seq
               /\ job'[r].meta = job[r].meta
        /\ job'[r].effects \subseteq job[r].effects

LEMMA PendingShrinks == RunsShrink => Pending(NoThread)' \subseteq Pending(NoThread)
BY DEF RunsShrink, Pending

\* A handler lets go of bundles, and one thread takes them on its list.
LEMMA Releases ==
    ASSUME Typed, Kept, Deleting, UNCHANGED bundles, LetsGo(disk, disk'), RunsShrink,
           NEW h \in Holders,
           Pending(h)' \subseteq Pending(h) \cup (Referenced(disk) \ Referenced(disk')),
           \A k \in Holders \ {h} : Pending(k)' \subseteq Pending(k)
    PROVE  Kept' /\ Deleting' /\ HandsOn
<1>1. Present' = Present
    BY DEF Present
<1>2. Referenced(disk') \subseteq Referenced(disk)
    BY DEF LetsGo
<1>3. Kept'
    <2>1. \A seq \in Referenced(disk') : Holds(seq, disk.versions[seq])'
        BY <1>2 DEF Kept, Holds, LetsGo, NoReset
    <2>2. \A r \in Runs : job'[r].pc = "renamed" =>
              job'[r].seq \notin Referenced(disk') /\ Holds(job[r].seq, job[r].meta)'
        BY <1>2 DEF Kept, Holds, RunsShrink, NoReset
    <2>3. \A r \in Runs : job'[r].pc = "allocated" =>
              job'[r].seq \notin Present' \cup Referenced(disk')
        BY <1>1, <1>2 DEF Kept, RunsShrink
    <2>4. QED
        BY <1>2, <2>1, <2>2, <2>3 DEF Kept, Holds, RunsShrink, LetsGo
<1>4. InUse' \subseteq InUse
    BY <1>2 DEF InUse, RunsShrink
<1>5. Referenced(disk) \subseteq Present
    BY DirectoryTypes DEF Kept, Holds, Present
<1>6. (Referenced(disk) \ Referenced(disk')) \cap InUse' = {}
    BY DEF InUse, Kept, RunsShrink
<1>7. \A k \in Holders : Pending(k)' \subseteq Present' \ InUse'
    BY <1>1, <1>4, <1>5, <1>6 DEF Deleting
<1>8. \A k \in Holders : Pending(k) \cap Referenced(disk) = {}
    BY DEF Deleting, InUse
<1>9. \A k, l \in Holders : k # l => Pending(k)' \cap Pending(l)' = {}
    BY <1>8 DEF Deleting
<1>10. HandsOn
    BY <1>1, <1>4 DEF HandsOn, InUse
<1>11. QED
    BY <1>3, <1>7, <1>9, <1>10 DEF Deleting

\* A thread runs its deletes, some of which may fail.
LEMMA Deletes ==
    ASSUME Typed, Kept, Deleting, UNCHANGED disk, RunsShrink,
           NEW h \in Holders,
           ApplyEffects(Pending(h)),
           Pending(h)' = {},
           \A k \in Holders \ {h} : Pending(k)' \subseteq Pending(k)
    PROVE  Kept' /\ Deleting' /\ HandsOn
<1>1. PICK gone \in SUBSET Pending(h) :
          bundles' = [seq \in Seqs |-> IF seq \in gone THEN Absent ELSE bundles[seq]]
    BY DEF ApplyEffects
<1>2. gone \cap InUse = {}
    BY DEF Deleting
<1>3. \A seq \in Seqs \ gone : bundles'[seq] = bundles[seq]
    BY <1>1
<1>4. Present' \subseteq Present /\ Present \ gone \subseteq Present'
    BY <1>1, <1>3 DEF Present
<1>5. Kept'
    <2>1. \A seq \in InUse : bundles'[seq] = bundles[seq]
        BY <1>2, <1>3, DirectoryTypes
    <2>2. \A seq \in Referenced(disk) : Holds(seq, disk.versions[seq])'
        BY <2>1 DEF Kept, Holds, InUse, NoReset
    <2>3. ASSUME NEW r \in Runs, job'[r].pc = "renamed"
          PROVE  job'[r].seq \notin Referenced(disk') /\ Holds(job[r].seq, job[r].meta)'
        <3>1. /\ job[r].pc = "renamed"
              /\ job'[r].seq = job[r].seq /\ job'[r].meta = job[r].meta
            BY <2>3 DEF RunsShrink
        <3>2. job[r].seq \in InUse
            BY <3>1, DirectoryTypes DEF InUse
        <3>3. QED
            BY <2>1, <3>1, <3>2 DEF Kept, Holds, NoReset
    <2>4. \A r \in Runs : job'[r].pc = "allocated" =>
              job'[r].seq \notin Present' \cup Referenced(disk')
        BY <1>4 DEF Kept, RunsShrink
    <2>5. QED
        BY <2>2, <2>3, <2>4 DEF Kept, Holds, RunsShrink
<1>6. InUse' \subseteq InUse
    BY DEF InUse, RunsShrink
<1>7. \A k \in Holders \ {h} : Pending(k) \cap gone = {}
    BY DEF Deleting
<1>8. HandsOn
    BY <1>4, <1>6 DEF HandsOn
<1>9. QED
    BY <1>4, <1>5, <1>6, <1>7, <1>8 DEF Deleting

\* Nothing that matters here changes.
LEMMA DirectoryFrame ==
    ASSUME Typed, Kept, Deleting, UNCHANGED storeVars, RunsShrink,
           \A t \in Threads : call'[t].effects \subseteq call[t].effects
    PROVE  Kept' /\ Deleting' /\ HandsOn
<1>1. LetsGo(disk, disk') /\ UNCHANGED bundles
    BY DEF LetsGo, storeVars
<1>2. \A k \in Holders : Pending(k)' \subseteq Pending(k)
    BY PendingShrinks DEF Pending, Holders
<1>3. NoThread \in Holders
    BY DEF Holders
<1>4. QED
    BY <1>1, <1>2, <1>3, Releases

\* What a run may do without a word to the others.
LEMMA RunsEndAlone ==
    /\ job' = job => RunsShrink
    /\ JobLost => RunsShrink
    /\ Typed /\ SweepTemp => RunsShrink
<1>1. ASSUME job' = job PROVE RunsShrink
    BY <1>1 DEF RunsShrink
<1>2. ASSUME JobLost PROVE RunsShrink
    BY <1>2 DEF JobLost, NoJob, RunsShrink
<1>3. ASSUME Typed, SweepTemp PROVE RunsShrink
    BY <1>3, SweepKeeps DEF RunsShrink
<1>4. QED
    BY <1>1, <1>2, <1>3

(***************************************************************************)
(* Launch.                                                                 *)
(***************************************************************************)
\* Nobody has deletes to run then.
LEMMA NobodyDeletes ==
    ASSUME Typed, GateHeld, RunEnds, proc = "down"
    PROVE  \A h \in Holders : Pending(h) = {}
BY DirectoryTypes DEF GateHeld, RunEnds, Idle, Pending, Holders

LEMMA DirectoryLaunch ==
    ASSUME Typed, GateHeld, RunEnds, Kept, Deleting, Launch
    PROVE  Kept' /\ Deleting'
<1>1. PICK sh \in Shells : LaunchSaved(sh) \/ LaunchUnsaved(sh)
    BY DEF Launch
<1>2. /\ proc = "down" /\ job' = job
      /\ call' = [t \in Threads |-> Idle]
    BY <1>1 DEF Launch, LaunchSaved, LaunchUnsaved, Start
<1>3. \A r \in Runs : job[r].pc = "idle" /\ job[r].effects = {}
    BY <1>2 DEF RunEnds
<1>4. \A h \in Holders : Pending(h)' = {}
    BY <1>2, <1>3 DEF Pending, Holders, Idle
<1>5. CASE LaunchUnsaved(sh)
    <2>1. UNCHANGED storeVars
        BY <1>5 DEF LaunchUnsaved, SaveFails, storeVars
    <2>2. \A t \in Threads : call'[t].effects = {}
        BY <1>2 DEF Idle
    <2>3. QED
        BY <1>2, <2>1, <2>2, DirectoryFrame, RunsEndAlone
<1>6. CASE LaunchSaved(sh)
    <2> DEFINE boot == ResolveBoot(disk, sh, Present)
    <2>1. disk' = boot /\ LetsGo(disk, boot)
        BY <1>6, PresentType, Constants, BootLetsGo DEF LaunchSaved, SaveState, Typed
    <2>2. PICK gone \in SUBSET BootEffects(boot, Present) :
              bundles' = [seq \in Seqs |-> IF seq \in gone THEN Absent ELSE bundles[seq]]
        BY <1>6 DEF LaunchSaved, ApplyEffects
    <2> HIDE DEF boot
    <2>3. gone \cap Referenced(boot) = {}
        BY <2>2 DEF BootEffects
    <2>4. Kept'
        BY <1>2, <1>3, <2>1, <2>2, <2>3, DirectoryTypes DEF Kept, Holds, LetsGo
    <2>5. QED
        BY <1>4, <2>4 DEF Deleting
<1>7. QED
    BY <1>1, <1>5, <1>6

(***************************************************************************)
(* The commands.                                                           *)
(***************************************************************************)
LEMMA DirectoryAck ==
    ASSUME Typed, Kept, Deleting, NEW t \in Callers, notify_app_ready(t)
    PROVE  Kept' /\ Deleting' /\ HandsOn
<1>1. /\ t \in Threads /\ t \in Holders /\ t # NoThread
      /\ job' = job
    BY Constants DEF notify_app_ready, Holders
<1>2. CASE AckBegin(t)
    <2>1. \A u \in Threads : call'[u].effects \subseteq call[u].effects
        BY <1>1, <1>2, CallType DEF AckBegin, Idle
    <2>2. QED
        BY <1>1, <1>2, <2>1, DirectoryFrame, RunsEndAlone DEF AckBegin
<1>3. CASE AckUpdate(t)
    <2>1. /\ UNCHANGED bundles
          /\ disk' = Ack(disk, call[t].seq).state
          /\ call'[t].effects = Ack(disk, call[t].seq).effects
          /\ \A u \in Threads \ {t} : call'[u] = call[u]
        BY <1>1, <1>3, CallType DEF AckUpdate, SaveState
    <2>2. /\ LetsGo(disk, disk')
          /\ call'[t].effects \subseteq Referenced(disk) \ Referenced(disk')
        BY <2>1, AckLetsGo, DirectoryTypes
    <2>3. QED
        BY <1>1, <2>1, <2>2, RunsEndAlone, PendingShrinks, Releases DEF Pending, Holders
<1>4. CASE AckFail(t)
    <2>1. \A u \in Threads : call'[u].effects \subseteq call[u].effects
        BY <1>1, <1>4, CallType DEF AckFail, Return, Idle
    <2>2. QED
        BY <1>1, <1>4, <2>1, DirectoryFrame, RunsEndAlone DEF AckFail, SaveFails, storeVars
<1>5. CASE AckReturn(t)
    <2>1. /\ UNCHANGED disk
          /\ ApplyEffects(Pending(t))
          /\ call'[t].effects = {}
          /\ \A u \in Threads \ {t} : call'[u] = call[u]
        BY <1>1, <1>5, CallType DEF AckReturn, Return, Idle, Pending
    <2>2. QED
        BY <1>1, <2>1, RunsEndAlone, PendingShrinks, Deletes DEF Pending, Holders
<1>6. QED
    BY <1>2, <1>3, <1>4, <1>5 DEF notify_app_ready

LEMMA DirectoryApply ==
    ASSUME Typed, Kept, Deleting, job' = job, NEW t \in Threads,
           \/ ApplyArm(t) \/ ApplyVersion(t) \/ ApplySwap(t) \/ ApplyRefuse(t)
           \/ ApplyDiscard(t) \/ ApplyGC(t) \/ ApplyFail(t)
    PROVE  Kept' /\ Deleting' /\ HandsOn
<1>1. t \in Holders /\ t # NoThread
    BY Constants DEF Holders
<1>2. CASE ApplyArm(t)
    <2>1. /\ UNCHANGED bundles
          /\ disk' = Arm(disk)
          /\ \A u \in Threads : call'[u].effects = call[u].effects
        BY <1>2, CallType DEF ApplyArm, SaveState
    <2>2. LetsGo(disk, disk')
        BY <2>1, ArmLetsGo, DirectoryTypes
    <2>3. QED
        BY <1>1, <2>1, <2>2, RunsEndAlone, PendingShrinks, Releases DEF Pending, Holders
<1>3. CASE ApplyDiscard(t)
    <2>1. /\ UNCHANGED bundles
          /\ disk.staged # NoSeq
          /\ disk' = Discard(disk, call[t].seen).state
          /\ call'[t].effects = Discard(disk, call[t].seen).effects
          /\ \A u \in Threads \ {t} : call'[u] = call[u]
        BY <1>3, CallType DEF ApplyDiscard, ApplyDecides, PromoteDecision, SaveState
    <2>2. /\ LetsGo(disk, disk')
          /\ call'[t].effects \subseteq Referenced(disk) \ Referenced(disk')
        BY <2>1, DiscardLetsGo, DirectoryTypes
    <2>3. QED
        BY <1>1, <2>1, <2>2, RunsEndAlone, PendingShrinks, Releases DEF Pending, Holders
<1>4. CASE ApplyGC(t)
    <2>1. /\ UNCHANGED disk
          /\ ApplyEffects(Pending(t))
          /\ call'[t].effects = {}
          /\ \A u \in Threads \ {t} : call'[u] = call[u]
        BY <1>1, <1>4, CallType DEF ApplyGC, Return, Idle, Pending
    <2>2. QED
        BY <1>1, <2>1, RunsEndAlone, PendingShrinks, Deletes DEF Pending, Holders
<1>5. CASE ApplyVersion(t) \/ ApplySwap(t) \/ ApplyRefuse(t) \/ ApplyFail(t)
    <2>1. \A u \in Threads : call'[u].effects \subseteq call[u].effects
        BY <1>5, CallType DEF ApplyVersion, ApplySwap, ApplyRefuse, ApplyFail, Return, Idle
    <2>2. UNCHANGED storeVars
        BY <1>5 DEF ApplyVersion, ApplySwap, ApplyRefuse, ApplyFail, SaveFails,
           storeVars
    <2>3. QED
        BY <2>1, <2>2, DirectoryFrame, RunsEndAlone
<1>6. QED
    BY <1>2, <1>3, <1>4, <1>5

LEMMA DirectoryReset ==
    ASSUME Typed, Kept, Deleting, NEW t \in Callers, reset(t)
    PROVE  Kept' /\ Deleting' /\ HandsOn
<1>1. t \in Threads /\ t \in Holders /\ t # NoThread
    BY Constants DEF Holders
<1>2. CASE ResetBegin(t) /\ UNCHANGED job
    <2>1. \A u \in Threads : call'[u].effects \subseteq call[u].effects
        BY <1>1, <1>2, CallType DEF ResetBegin, Idle
    <2>2. QED
        BY <1>2, <2>1, DirectoryFrame, RunsEndAlone DEF ResetBegin
<1>3. CASE ResetUpdate(t) /\ UNCHANGED job
    <2>1. /\ UNCHANGED bundles
          /\ disk' = Reset(disk, shell, call[t].seq).state
          /\ call'[t].effects = Reset(disk, shell, call[t].seq).effects
          /\ \A u \in Threads \ {t} : call'[u] = call[u]
        BY <1>1, <1>3, CallType DEF ResetUpdate, SaveState
    <2>2. /\ LetsGo(disk, disk')
          /\ call'[t].effects \subseteq Referenced(disk) \ Referenced(disk')
        BY <2>1, ResetLetsGo, DirectoryTypes
    <2>3. QED
        BY <1>1, <1>3, <2>1, <2>2, RunsEndAlone, PendingShrinks, Releases DEF Pending, Holders
<1>4. CASE ResetFail(t) /\ UNCHANGED job
    <2>1. \A u \in Threads : call'[u].effects \subseteq call[u].effects
        BY <1>1, <1>4, CallType DEF ResetFail, Return, Idle
    <2>2. QED
        BY <1>4, <2>1, DirectoryFrame, RunsEndAlone DEF ResetFail, SaveFails, storeVars
<1>5. CASE ResetReturn(t) /\ SweepTemp
    <2>1. /\ UNCHANGED disk
          /\ ApplyEffects(Pending(t))
          /\ call'[t].effects = {}
          /\ \A u \in Threads \ {t} : call'[u] = call[u]
        BY <1>1, <1>5, CallType DEF ResetReturn, Return, Idle, Pending
    <2>2. RunsShrink
        BY <1>5, RunsEndAlone
    <2>3. QED
        BY <1>1, <2>1, <2>2, PendingShrinks, Deletes DEF Pending, Holders
<1>6. QED
    BY <1>2, <1>3, <1>4, <1>5 DEF reset

(***************************************************************************)
(* The pipeline.                                                           *)
(***************************************************************************)
\* The run that steps is the only one there is.
LEMMA OnlyRun ==
    ASSUME Typed, Serial, RunEnds, NEW r \in Runs, JobStep(r)
    PROVE  /\ \A q \in Runs \ {r} : /\ job'[q] = job[q]
                                    /\ job[q].pc \in {"idle", "done"}
                                    /\ job[q].effects = {}
           /\ Pending(NoThread) = job[r].effects
           /\ Pending(NoThread)' = job'[r].effects
<1>1. ASSUME NEW q \in Runs \ {r}
      PROVE  /\ job'[q] = job[q]
             /\ job[q].pc \in {"idle", "done"}
             /\ job[q].effects = {}
    <2>1. ~Busy(q)
        BY StepIsBusy DEF Serial
    <2>2. QED
        BY <2>1, OneRunSteps DEF Busy, RunEnds
<1>2. QED
    BY <1>1 DEF Pending

LEMMA FinishedJob ==
    ASSUME Typed, NEW outcome, NEW r \in Runs, Finish(r, outcome)
    PROVE  job'[r].pc \in {"done", "idle"} /\ job'[r].effects = {} /\ ~job'[r].swept
BY DirectoryTypes DEF Finish, NoJob

\* The number a run chooses is nobody's.
LEMMA DirectoryAllocate ==
    ASSUME Typed, Serial, RunEnds, Kept, Deleting, NEW r \in Runs, NEW new \in Seqs,
           JobAllocate(r, new)
    PROVE  Kept' /\ Deleting' /\ HandsOn
<1>1. /\ UNCHANGED <<disk, bundles, call>>
      /\ job'[r].pc = "allocated" /\ job'[r].seq = new
      /\ job'[r].effects = job[r].effects
      /\ job[r].pc = "extract"
    BY DirectoryTypes DEF JobAllocate, runtimeVars, storeVars, JobRecord
<1>2. JobStep(r)
    BY DEF JobStep
<1>3. \A q \in Runs \ {r} : job'[q] = job[q]
    BY <1>2, OnlyRun
<1>4. new \notin Present \cup Referenced(disk)
    <2>1. \A u \in Present \cup Referenced(disk) : u < new
        BY DEF JobAllocate, AllocateSeq
    <2>2. ~(new < new)
        BY Constants
    <2>3. QED
        BY <2>1, <2>2
<1>5. Present' = Present
    BY <1>1 DEF Present
<1>6. Kept'
    BY <1>1, <1>3, <1>4, <1>5 DEF Kept, Holds, NoReset
<1>7. InUse' = InUse
    BY <1>1, <1>3 DEF InUse
<1>8. \A h \in Holders : Pending(h)' = Pending(h)
    BY <1>1, <1>2, OnlyRun DEF Pending
<1>9. QED
    BY <1>5, <1>6, <1>7, <1>8 DEF Deleting, HandsOn

\* A bundle the run has renamed into place is on disk before a pointer names
\* it, and its number was nobody's.
LEMMA DirectoryRename ==
    ASSUME Typed, Serial, RunEnds, Kept, Deleting, NEW r \in Runs, JobRename(r)
    PROVE  Kept' /\ Deleting' /\ HandsOn
<1> DEFINE seq == job[r].seq
           meta == job[r].meta
<1>1. /\ UNCHANGED <<disk, call>>
      /\ bundles' = [bundles EXCEPT ![seq] = [meta |-> meta, whole |-> job[r].whole]]
      /\ job[r].pc = "allocated"
      /\ job'[r].pc = "renamed" /\ job'[r].seq = seq /\ job'[r].meta = meta
      /\ job'[r].effects = job[r].effects
    BY DirectoryTypes DEF JobRename, Goes, runtimeVars, JobRecord
<1>2. JobStep(r)
    BY DEF JobStep
<1>3. \A q \in Runs \ {r} : job'[q] = job[q] /\ job[q].pc \in {"idle", "done"}
    BY <1>2, OnlyRun
<1>4. seq \in Seqs /\ meta \in BundleMeta /\ seq \notin Present \cup Referenced(disk)
    BY <1>1, DirectoryTypes DEF Kept
<1>5. job[r].whole \in BOOLEAN
    BY DirectoryTypes DEF JobRecord
<1>6. /\ bundles'[seq] = [meta |-> meta, whole |-> job[r].whole]
      /\ \A other \in Seqs \ {seq} : bundles'[other] = bundles[other]
    BY <1>1, <1>4, DirectoryTypes
<1> HIDE DEF seq, meta
<1>7. bundles'[seq] # Absent
    <2>1. [meta |-> meta, whole |-> job[r].whole] \in Bundle
        BY <1>4, <1>5 DEF Bundle
    <2>2. QED
        BY <1>6, <2>1, Constants
<1>8. Holds(seq, meta)'
    <2>1. /\ bundles'[seq] # Absent
          /\ bundles'[seq].meta = meta /\ bundles'[seq].whole = job[r].whole
        BY <1>6, <1>7
    <2>2. NoReset => bundles'[seq].whole
        BY <1>1, <2>1 DEF RunEnds
    <2>3. seq' = seq /\ meta' = meta
        BY <1>1 DEF seq, meta
    <2>4. QED
        BY <2>1, <2>2, <2>3 DEF Holds, NoReset
<1>9. Kept'
    <2>1. seq' = seq /\ meta' = meta
        BY <1>1 DEF seq, meta
    <2>2. Referenced(disk) \subseteq Seqs \ {seq}
        BY <1>4, DirectoryTypes
    <2>3. \A other \in Referenced(disk) : Holds(other, disk.versions[other])'
        BY <1>1, <1>6, <2>2 DEF Kept, Holds, NoReset
    <2>4. \A q \in Runs : job'[q].pc = "renamed" =>
              job'[q].seq \notin Referenced(disk) /\ Holds(job[q].seq, job[q].meta)'
        BY <1>1, <1>3, <1>4, <1>8, <2>1 DEF Holds
    <2>5. \A q \in Runs : job'[q].pc # "allocated"
        BY <1>1, <1>3
    <2>6. QED
        BY <1>1, <2>3, <2>4, <2>5 DEF Kept, Holds
<1>10. Present \subseteq Present' /\ InUse' = Referenced(disk) \cup {seq}
    <2>1. \A q \in Runs : job'[q].pc = "renamed" <=> q = r
        BY <1>1, <1>3
    <2>2. InUse' = Referenced(disk) \cup {seq}
        BY <1>1, <1>4, <2>1 DEF InUse
    <2>3. QED
        BY <1>6, <1>7, <2>2 DEF Present
<1>11. \A h \in Holders : Pending(h)' = Pending(h)
    BY <1>1, <1>2, OnlyRun DEF Pending
<1>12. HandsOn
    BY <1>4, <1>10, <1>11 DEF HandsOn, InUse
<1>13. QED
    BY <1>4, <1>9, <1>10, <1>11, <1>12 DEF Deleting, InUse

\* The staged pointer flips to the renamed bundle, and the run lets go of the
\* one staged before.
LEMMA DirectoryStage ==
    ASSUME Typed, Serial, RunEnds, Kept, Deleting, NEW r \in Runs, JobStage(r)
    PROVE  Kept' /\ Deleting' /\ HandsOn
<1> DEFINE seq == job[r].seq
           meta == job[r].meta
<1>1. /\ UNCHANGED <<bundles, call>>
      /\ job[r].pc = "renamed" /\ seq \in Seqs /\ meta \in BundleMeta
      /\ ~StageRefused(disk, seq, meta)
      /\ disk' = Stage(disk, seq, meta).state
      /\ job'[r].pc = "staged"
      /\ job'[r].effects = Stage(disk, seq, meta).effects
    BY DirectoryTypes DEF JobStage, SaveState, runtimeVars
<1>2. JobStep(r)
    BY DEF JobStep
<1>3. \A q \in Runs \ {r} : job'[q] = job[q] /\ job[q].pc \in {"idle", "done"}
    BY <1>2, OnlyRun
<1>a. Holds(seq, meta)
    BY <1>1 DEF Kept
<1>b. seq \in InUse
    BY <1>1 DEF InUse
<1> HIDE DEF seq, meta
<1>4. /\ Referenced(disk') \subseteq Referenced(disk) \cup {seq}
      /\ disk'.versions[seq] = meta
      /\ \A other \in Referenced(disk') \ {seq} :
             disk'.versions[other] = disk.versions[other]
      /\ job'[r].effects \subseteq Referenced(disk) \ Referenced(disk')
    BY <1>1, StageLetsGo, DirectoryTypes
<1>5. Present' = Present
    BY <1>1 DEF Present
<1>6. \A q \in Runs : job'[q].pc \notin {"renamed", "allocated"}
    BY <1>1, <1>3
<1>7. Kept'
    BY <1>1, <1>4, <1>6, <1>a DEF Kept, Holds, NoReset
<1>8. InUse' = Referenced(disk')
    BY <1>6 DEF InUse
<1>9. InUse' \subseteq InUse
    BY <1>4, <1>8, <1>b DEF InUse
<1>10. Referenced(disk) \subseteq Present
    BY DirectoryTypes DEF Kept, Holds, Present
<1>11. \A h \in Holders \ {NoThread} : Pending(h)' = Pending(h)
    BY <1>1 DEF Pending
<1>12. Pending(NoThread)' \subseteq Referenced(disk) /\ Pending(NoThread)' \cap InUse' = {}
    BY <1>2, <1>4, <1>8, OnlyRun
<1>13. \A h \in Holders : Pending(h) \cap Referenced(disk) = {}
    BY DEF Deleting, InUse
<1>14. \A h \in Holders : Pending(h)' \subseteq Present' \ InUse'
    BY <1>5, <1>9, <1>10, <1>11, <1>12 DEF Deleting
<1>15. \A h, k \in Holders : h # k => Pending(h)' \cap Pending(k)' = {}
    BY <1>11, <1>12, <1>13 DEF Deleting
<1>16. HandsOn
    BY <1>5, <1>9, <1>11, <1>12 DEF HandsOn, InUse
<1>17. QED
    BY <1>7, <1>14, <1>15, <1>16 DEF Deleting

\* A run whose staging is refused takes its own directory on its list.
LEMMA DirectoryRefused ==
    ASSUME Typed, Serial, RunEnds, Kept, Deleting, NEW r \in Runs, JobRefused(r)
    PROVE  Kept' /\ Deleting' /\ HandsOn
<1> DEFINE seq == job[r].seq
<1>1. /\ UNCHANGED <<bundles, disk, call>>
      /\ job[r].pc = "renamed" /\ seq \in Seqs
      /\ job'[r].pc = "removing" /\ job'[r].effects = {seq}
    BY DirectoryTypes DEF JobRefused, storeVars, runtimeVars
<1>2. JobStep(r)
    BY DEF JobStep
<1>3. \A q \in Runs \ {r} : job'[q] = job[q] /\ job[q].pc \in {"idle", "done"}
    BY <1>2, OnlyRun
<1>4. seq \in Present \ Referenced(disk)
    BY <1>1 DEF Kept, Holds, Present
<1>5. InUse = Referenced(disk) \cup {seq}
    <2>1. \A q \in Runs : job[q].pc = "renamed" <=> q = r
        BY <1>1, <1>3
    <2>2. QED
        BY <1>1, <2>1 DEF InUse
<1> HIDE DEF seq
<1>6. \A q \in Runs : job'[q].pc \notin {"renamed", "allocated"}
    BY <1>1, <1>3
<1>7. Kept'
    BY <1>1, <1>6 DEF Kept, Holds, NoReset
<1>8. Present' = Present /\ InUse' = Referenced(disk)
    BY <1>1, <1>6 DEF Present, InUse
<1>9. /\ Pending(NoThread)' = {seq}
      /\ \A h \in Holders \ {NoThread} : Pending(h)' = Pending(h)
    BY <1>1, <1>2, OnlyRun DEF Pending
<1>10. HandsOn
    BY <1>5, <1>8, <1>9 DEF HandsOn
<1>11. QED
    BY <1>4, <1>5, <1>7, <1>8, <1>9, <1>10 DEF Deleting

LEMMA DirectoryPipeline ==
    ASSUME Typed, Serial, RunEnds, Kept, Deleting, check_and_download
    PROVE  Kept' /\ Deleting' /\ HandsOn
<1>1. call' = call /\ NoThread \in Holders
    BY PipelineKeeps DEF runtimeVars, Holders
<1>2. PICK r \in Runs : Download(r) \/ JobStep(r)
    BY DEF check_and_download
<1>3. ASSUME UNCHANGED storeVars, \A q \in Runs \ {r} : job'[q] = job[q],
             job'[r].pc \notin {"allocated", "renamed"},
             job'[r].effects \subseteq job[r].effects
      PROVE  Kept' /\ Deleting' /\ HandsOn
    BY <1>1, <1>3, DirectoryFrame DEF RunsShrink
<1>4. CASE Download(r)
    <2>1. \A q \in Runs \ {r} : job'[q] = job[q]
        BY <1>4, OneRunSteps DEF Download
    <2>2. job'[r].pc = "fetch" /\ job'[r].effects = job[r].effects
        BY <1>4, DirectoryTypes DEF Download, JobLock, Goes, JobRecord
    <2>3. QED
        BY <1>3, <1>4, <2>1, <2>2 DEF Download
<1>5. CASE JobStep(r)
    <2>1. \A q \in Runs \ {r} : job'[q] = job[q]
        BY <1>5, OnlyRun
    <2>2. ASSUME NEW outcome, Finish(r, outcome), UNCHANGED storeVars
          PROVE  Kept' /\ Deleting' /\ HandsOn
        BY <1>3, <2>1, <2>2, FinishedJob
    <2>3. ASSUME NEW m \in Manifests, JobGate(r, m) PROVE Kept' /\ Deleting' /\ HandsOn
        <3>1. CASE Gate(m, disk, shell) = "Available"
            <4>1. job'[r].pc = "download" /\ job'[r].effects = job[r].effects
                BY <2>3, <3>1, DirectoryTypes DEF JobGate, JobRecord
            <4>2. QED
                BY <1>3, <2>1, <2>3, <4>1 DEF JobGate
        <3>2. CASE Gate(m, disk, shell) # "Available"
            BY <2>2, <2>3, <3>2 DEF JobGate
        <3>3. QED
            BY <3>1, <3>2
    <2>4. CASE JobExtract(r)
        <3>1. job'[r].pc = "extract" /\ job'[r].effects = job[r].effects
            BY <2>4, DirectoryTypes DEF JobExtract, Goes, JobRecord
        <3>2. QED
            BY <1>3, <2>1, <2>4, <3>1 DEF JobExtract
    <2>5. CASE JobFail(r) \/ JobUnsaved(r)
        BY <2>2, <2>5 DEF JobFail, JobUnsaved, SaveFails, storeVars
    <2>6. CASE JobReturn(r)
        <3>1. /\ job'[r].pc \in {"done", "idle"} /\ job'[r].effects = {}
              /\ UNCHANGED disk /\ ApplyEffects(job[r].effects)
            BY <2>6, FinishedJob DEF JobReturn
        <3>2. RunsShrink
            BY <2>1, <3>1 DEF RunsShrink
        <3>3. /\ ApplyEffects(Pending(NoThread)) /\ Pending(NoThread)' = {}
              /\ \A h \in Holders \ {NoThread} : Pending(h)' = Pending(h)
            BY <1>1, <1>5, <3>1, OnlyRun DEF Pending
        <3>4. QED
            BY <1>1, <3>1, <3>2, <3>3, Deletes
    <2>7. QED
        BY <1>5, <2>3, <2>4, <2>5, <2>6, DirectoryAllocate, DirectoryRename,
           DirectoryStage, DirectoryRefused DEF JobStep
<1>6. QED
    BY <1>2, <1>4, <1>5

(***************************************************************************)
(* Boot recovery, and every step.                                          *)
(***************************************************************************)
LEMMA DirectoryRecovery ==
    ASSUME Typed, Kept, Deleting, RecoveryNext
    PROVE  Kept' /\ Deleting' /\ HandsOn
<1>1. CASE \/ RecPageIsFine \/ RecCall \/ RecStagedOnly
           \/ \E w \in Windows : RecReload(w) \/ RecReloadFails(w)
           \/ RecFlag \/ RecReloaded
    <2>1. UNCHANGED <<storeVars, job, call>>
        BY <1>1 DEF RecPageIsFine, RecCall, RecStagedOnly, RecReload, Load,
           RecReloadFails, RecFlag, RecReloaded, runtimeVars
    <2>2. QED
        BY <2>1, DirectoryFrame, RunsEndAlone
<1>2. CASE RecCollect \/ RecLocks
    <2>1. UNCHANGED <<storeVars, call>>
        BY <1>2 DEF RecCollect, RecLocks, runtimeVars
    <2>2. RunsShrink
        BY <1>2, DirectoryTypes DEF RecCollect, RecLocks, JobLock, Goes, NoJob, JobRecord,
           RunsShrink
    <2>3. QED
        BY <2>1, <2>2, DirectoryFrame
<1>3. CASE RecSwitch
    <2>1. UNCHANGED <<storeVars, job>>
        BY <1>3 DEF RecSwitch
    <2>2. \A u \in Threads : call'[u].effects \subseteq call[u].effects
        BY <1>3, CallType DEF RecSwitch, ApplyEnter, Idle
    <2>3. QED
        BY <2>1, <2>2, DirectoryFrame, RunsEndAlone
<1>4. CASE \/ RecArm \/ RecVersion \/ RecSwap \/ RecKeep \/ RecDiscard
           \/ RecDiscarded \/ RecApplyFail
    BY <1>4, Constants, DirectoryApply DEF RecArm, RecVersion, RecSwap, RecKeep,
       RecDiscard, RecDiscarded, RecApplyFail
<1>5. QED
    BY <1>1, <1>2, <1>3, <1>4 DEF RecoveryNext

LEMMA DirectoryStep ==
    ASSUME "dir_lost" \notin Faults
    PROVE  Typed /\ GateHeld /\ Serial /\ RunEnds /\ Kept /\ Deleting /\ [Next]_vars =>
               Kept' /\ Deleting' /\ (Launch \/ HandsOn)
<1> SUFFICES ASSUME Typed, GateHeld, Serial, RunEnds, Kept, Deleting, [Next]_vars
             PROVE  Kept' /\ Deleting' /\ (Launch \/ HandsOn)
    OBVIOUS
<1>1. CASE Launch
    BY <1>1, DirectoryLaunch
<1>2. CASE LaunchCut
    <2>1. UNCHANGED <<bundles, job, call>>
        BY <1>2 DEF LaunchCut, LaunchKilled, runtimeVars
    <2>2. LetsGo(disk, disk')
        BY <1>2, PresentType, Constants, BootLetsGo DEF LaunchCut, LaunchKilled, Typed
    <2>3. NoThread \in Holders /\ \A h \in Holders : Pending(h)' = Pending(h)
        BY <2>1 DEF Holders, Pending
    <2>4. QED
        BY <2>1, <2>2, <2>3, RunsEndAlone, Releases
<1>3. CASE Quit
    <2>1. UNCHANGED storeVars /\ JobLost
        BY <1>3 DEF Quit, Exit
    <2>2. \A t \in Threads : call'[t].effects = {}
        BY <1>3 DEF Quit, Exit, Idle
    <2>3. QED
        BY <2>1, <2>2, RunsEndAlone, DirectoryFrame
<1>4. CASE PageStep \/ UNCHANGED vars
    <2>1. UNCHANGED <<storeVars, job, call>>
        BY <1>4 DEF PageStep, PageLoad, RemoteLoad, Load, storeVars, vars
    <2>2. QED
        BY <2>1, RunsEndAlone, DirectoryFrame
<1>5. CASE Environment
    <2>1. UNCHANGED <<bundles, job, call>> /\ disk' = Default
        BY <1>5 DEF Environment, LoseState, StateLost, DirLost
    <2>2. LetsGo(disk, disk')
        BY <2>1 DEF LetsGo, Default, Referenced
    <2>3. NoThread \in Holders /\ \A h \in Holders : Pending(h)' = Pending(h)
        BY <2>1 DEF Holders, Pending
    <2>4. QED
        BY <2>1, <2>2, <2>3, RunsEndAlone, Releases
<1>6. ASSUME NEW t \in Callers, apply_staged(t) PROVE Kept' /\ Deleting' /\ HandsOn
    <2>1. job' = job /\ t \in Threads
        BY <1>6, Constants DEF apply_staged
    <2>2. CASE ApplyBegin(t)
        <3>1. \A u \in Threads : call'[u].effects \subseteq call[u].effects
            BY <2>1, <2>2, CallType DEF ApplyBegin, ApplyEnter, Idle
        <3>2. QED
            BY <2>1, <2>2, <3>1, RunsEndAlone, DirectoryFrame DEF ApplyBegin
    <2>3. QED
        BY <1>6, <2>1, <2>2, DirectoryApply DEF apply_staged
<1>7. QED
    BY <1>1, <1>2, <1>3, <1>4, <1>5, <1>6, DirectoryAck, DirectoryReset,
       DirectoryPipeline, DirectoryRecovery DEF Next, Session

\* The pipeline runs in a running process, and is cut off with it.
LEMMA RunEndsStep ==
    Typed /\ GateHeld /\ (NoReset => NoResetCall) /\ RunEnds /\ [Next]_vars => RunEnds'
<1> SUFFICES ASSUME Typed, GateHeld, NoReset => NoResetCall, RunEnds, [Next]_vars
             PROVE  RunEnds'
    OBVIOUS
<1> DEFINE Ends(r) == /\ job[r].effects # {} => job[r].pc \in {"staged", "removing"}
                      /\ NoReset => /\ ~job[r].swept
                                    /\ job[r].pc = "allocated" => job[r].whole
<1>1. JobsMove
    BY WhoRuns
<1>2. proc' = "down" => \A r \in Runs : job'[r].pc = "idle"
    <2> SUFFICES ASSUME proc' = "down" PROVE \A r \in Runs : job'[r].pc = "idle"
        OBVIOUS
    <2>1. CASE Quit
        BY <2>1 DEF Quit, JobLost, NoJob
    <2>2. CASE ~Quit
        <3>1. proc = "down"
            BY <2>2, WhoMoves DEF InSession, Launch, LaunchSaved, LaunchUnsaved, Start
        <3>2. rec.pc # "job" /\ proc # "up" /\ \A r \in Runs : job[r].pc = "idle"
            BY <3>1 DEF GateHeld, RunEnds
        <3>3. ASSUME NEW r \in Runs, RunMoves(r) PROVE job'[r] = NoJob
            BY <3>2, <3>3, StepIsBusy DEF RunMoves, Busy
        <3>4. QED
            BY <1>1, <3>2, <3>3, SweepKeeps DEF JobsMove, JobLost, RunMoves, NoJob
    <2>3. QED
        BY <2>1, <2>2
<1>3. ASSUME NEW r \in Runs PROVE Ends(r)'
    <2>1. Ends(r)
        BY DEF RunEnds
    <2>2. ASSUME job'[r] = job[r] PROVE Ends(r)'
        BY <2>1, <2>2 DEF NoReset
    <2>3. ASSUME job'[r] = NoJob PROVE Ends(r)'
        BY <2>3 DEF NoJob
    <2>4. CASE SweepTemp /\ \E t \in Threads : ResetReturn(t)
        <3>1. ~NoReset
            BY <2>4 DEF ResetReturn, NoResetCall
        <3>2. QED
            BY <2>1, <2>4, <3>1, SweepKeeps DEF NoReset
    <2>5. CASE JobLock(r)
        BY <2>1, <2>5, DirectoryTypes DEF JobLock, Goes, JobRecord, NoReset
    <2>6. ASSUME NEW outcome, Finish(r, outcome) PROVE Ends(r)'
        BY <2>6, FinishedJob
    <2>7. CASE JobStep(r)
        <3>1. ASSUME NEW m \in Manifests, JobGate(r, m) PROVE Ends(r)'
            BY <2>1, <2>6, <3>1, DirectoryTypes DEF JobGate, JobRecord, NoReset
        <3>2. CASE JobFail(r) \/ JobUnsaved(r) \/ JobReturn(r)
            BY <2>6, <3>2 DEF JobFail, JobUnsaved, JobReturn
        <3>3. CASE JobExtract(r) \/ JobRename(r)
            BY <2>1, <3>3, DirectoryTypes DEF JobExtract, JobRename, Goes, JobRecord,
               NoReset
        <3>4. ASSUME NEW seq \in Seqs, JobAllocate(r, seq) PROVE Ends(r)'
            BY <2>1, <3>4, DirectoryTypes DEF JobAllocate, JobRecord, NoReset
        <3>5. CASE JobStage(r) \/ JobRefused(r)
            BY <2>1, <3>5, DirectoryTypes DEF JobStage, JobRefused, JobRecord, NoReset
        <3>6. QED
            BY <2>7, <3>1, <3>2, <3>3, <3>4, <3>5 DEF JobStep
    <2>8. QED
        BY <1>1, <2>2, <2>3, <2>4, <2>5, <2>7 DEF JobsMove, JobLost, RunMoves
<1>4. QED
    BY <1>2, <1>3 DEF RunEnds

LEMMA RunEndsAlways == Spec => []RunEnds
<1>1. Init => RunEnds
    BY DEF Init, UpdateInit, NoJob, RunEnds
<1>2. Spec => [](NoReset => NoResetCall)
    <2>1. CASE NoReset
        BY <2>1, NoResetCallAlways, PTL DEF NoReset
    <2>2. CASE ~NoReset
        <3>1. NoReset => NoResetCall
            BY <2>2
        <3>2. QED
            BY <3>1, PTL
    <2>3. QED
        BY <2>1, <2>2
<1>3. QED
    BY <1>1, <1>2, RunEndsStep, TypedAlways, GateHeldAlways, PTL DEF Spec

LEMMA DirectoryAlways ==
    ASSUME "dir_lost" \notin Faults
    PROVE  Spec => [](Kept /\ Deleting)
<1>1. Init => Kept /\ Deleting
    <2>1. Referenced(Default) = {}
        BY DEF Referenced, Default
    <2>2. QED
        BY <2>1 DEF Init, StoreInit, RuntimeInit, UpdateInit, NoJob, Idle, Kept,
           Deleting, Pending, Holders
<1>2. QED
    BY <1>1, DirectoryStep, TypedAlways, GateHeldAlways, SerialAlways, RunEndsAlways,
       PTL DEF Spec

(***************************************************************************)
(* What is served.  A lost state.json leaves it without a pointer: then    *)
(* nobody deletes it, since nobody knows of it until the next boot.        *)
(***************************************************************************)
\* On disk, in nobody's use and on nobody's list.
Stray(seq) ==
    /\ seq \in Present \ InUse
    /\ \A h \in Holders : seq \notin Pending(h)

ServedSpared ==
    current.active # Embedded =>
        current.active \in {disk.booting, disk.committed} \/ Stray(current.active)

\* Nobody but the thread that armed a bundle knows of it before the swap.
ArmedSpared ==
    \A t \in Threads : Switching(t) =>
        /\ call[t].seq # NoSeq
        /\ call[t].seq = disk.booting \/ Stray(call[t].seq)
        /\ call[t].seq # current.active
        /\ \A u \in Threads \ {t} :
               Switching(u) \/ call[u].pc = "ack" => call[u].seq # call[t].seq

\* An ack about to commit does not give up what is served.
AckSpared ==
    \A t \in Threads : call[t].pc = "ack" /\ call[t].seq # Embedded =>
        /\ call[t].seq \in {disk.booting, disk.committed} \/ Stray(call[t].seq)
        /\ call[t].seq = disk.booting =>
               current.active = disk.booting \/ Stray(current.active)

Spared == proc = "up" => ServedSpared /\ ArmedSpared /\ AckSpared

LEMMA StrayStays ==
    ASSUME HandsOn, NEW seq, Stray(seq)
    PROVE  Stray(seq)'
<1>1. seq \in Present /\ seq \notin InUse /\ \A h \in Holders : seq \notin Pending(h)
    BY DEF Stray
<1>2. seq \in Present' /\ seq \notin InUse'
    BY <1>1 DEF HandsOn
<1>3. \A h \in Holders : seq \notin Pending(h)'
    BY <1>1 DEF HandsOn
<1>4. QED
    BY <1>2, <1>3 DEF Stray

LEMMA StrayIsNamed ==
    ASSUME NEW seq, Stray(seq)
    PROVE  seq \notin Referenced(disk)
BY DEF Stray, InUse

LEMMA SparedFrame == ASSUME Spared, HandsOn, ServesAsBefore PROVE Spared'
<1>1. CASE proc = "up"
    <2>1. ServedSpared /\ ArmedSpared /\ AckSpared
        BY <1>1 DEF Spared
    <2>2. ServedSpared'
        BY <2>1, StrayStays DEF ServedSpared, ServesAsBefore
    <2>3. ArmedSpared'
        BY <2>1, StrayStays DEF ArmedSpared, ServesAsBefore, Switching
    <2>4. AckSpared'
        BY <2>1, StrayStays DEF AckSpared, ServesAsBefore
    <2>5. QED
        BY <2>2, <2>3, <2>4 DEF Spared
<1>2. CASE proc # "up"
    BY <1>2 DEF Spared, ServesAsBefore
<1>3. QED
    BY <1>1, <1>2

LEMMA SparedLaunch == Typed /\ Launch => Spared'
<1> SUFFICES ASSUME Typed, Launch PROVE Spared'
    OBVIOUS
<1>1. proc' = "up" /\ ~wiped' /\ call' = [t \in Threads |-> Idle]
    BY DEF Launch, LaunchSaved, LaunchUnsaved, Start
<1>2. ServedSpared'
    BY <1>1, MarkedLaunch DEF Marked, ServedMarked, ServedSpared
<1>3. ArmedSpared' /\ AckSpared'
    BY <1>1, IdleCall DEF ArmedSpared, AckSpared, Switching
<1>4. QED
    BY <1>2, <1>3 DEF Spared

\* Whatever had a pointer is stray when state.json is lost.
LEMMA SparedLost ==
    ASSUME Typed, Kept, Deleting, Spared, HandsOn, LoseState, UNCHANGED job
    PROVE  Spared'
<1>1. /\ UNCHANGED <<proc, current, bundles, job, call>>
      /\ disk' = Default
    BY DEF LoseState, StateLost
<1>2. disk'.booting = NoSeq /\ disk'.committed = NoSeq /\ Referenced(disk') = {}
    BY <1>1 DEF Default, Referenced
<1>3. ASSUME NEW seq \in Referenced(disk) PROVE Stray(seq)'
    <2>1. seq \in Present /\ seq \notin InUse' /\ \A h \in Holders : seq \notin Pending(h)
        BY <1>1, <1>2, DirectoryTypes DEF Kept, Holds, Deleting, InUse, Present
    <2>2. Present' = Present /\ \A h \in Holders : Pending(h)' = Pending(h)
        BY <1>1 DEF Present, Pending
    <2>3. QED
        BY <2>1, <2>2 DEF Stray
<1>4. {disk.booting, disk.committed} \ {NoSeq} \subseteq Referenced(disk)
    BY DEF Referenced
<1>5. SUFFICES ASSUME proc = "up" PROVE ServedSpared' /\ ArmedSpared' /\ AckSpared'
    BY <1>1 DEF Spared
<1>6. ServedSpared /\ ArmedSpared /\ AckSpared
    BY <1>5 DEF Spared
<1>7. NoSeq = Embedded
    BY DEF NoSeq, Embedded
<1>8. ServedSpared'
    BY <1>1, <1>3, <1>4, <1>6, <1>7, StrayStays DEF ServedSpared
<1>9. ArmedSpared'
    BY <1>1, <1>3, <1>4, <1>6, StrayStays DEF ArmedSpared, Switching
<1>10. AckSpared'
    BY <1>1, <1>2, <1>3, <1>4, <1>6, <1>7, StrayStays DEF AckSpared
<1>11. QED
    BY <1>8, <1>9, <1>10

LEMMA SparedAckBegin ==
    ASSUME NEW t \in Threads, Typed, Spared, HandsOn, AckBegin(t)
    PROVE  Spared'
<1>1. /\ UNCHANGED <<proc, current, disk>>
      /\ call'[t].pc = "ack" /\ call'[t].seq = current.active
      /\ \A u \in Threads \ {t} : call'[u] = call[u]
    BY CallType DEF AckBegin, storeVars, Idle
<1>2. SUFFICES ASSUME proc = "up" PROVE ServedSpared' /\ ArmedSpared' /\ AckSpared'
    BY <1>1 DEF Spared
<1>3. ServedSpared /\ ArmedSpared /\ AckSpared
    BY <1>2 DEF Spared
<1>4. ServedSpared'
    BY <1>1, <1>3, StrayStays DEF ServedSpared
<1>5. ArmedSpared'
    BY <1>1, <1>3, StrayStays DEF ArmedSpared, Switching
<1>6. AckSpared'
    BY <1>1, <1>3, StrayStays DEF ServedSpared, AckSpared
<1>7. QED
    BY <1>4, <1>5, <1>6

LEMMA SparedAckUpdate ==
    ASSUME NEW t \in Threads, Typed, GateHeld, Spared, HandsOn, AckUpdate(t)
    PROVE  Spared'
<1>1. /\ UNCHANGED <<proc, wiped, current>>
      /\ disk' = Ack(disk, call[t].seq).state
      /\ call[t].pc = "ack" /\ call'[t].pc = "acked"
      /\ \A u \in Threads \ {t} : call'[u] = call[u]
    BY CallType DEF AckUpdate, SaveState
<1>2. Sound(disk)
    BY DEF Typed
<1>3. CASE call[t].seq = Embedded \/ disk.booting # call[t].seq
    <2>1. disk' = disk
        BY <1>1, <1>2, <1>3, AckPointers
    <2>2. \A u \in Threads :
              call'[u].pc \in {"armed", "versioned", "ack"} => call'[u] = call[u]
        BY <1>1
    <2>3. QED
        BY <1>1, <2>1, <2>2, SparedFrame DEF ServesAsBefore, Switching
<1>4. CASE ~(call[t].seq = Embedded \/ disk.booting # call[t].seq)
    <2>1. disk'.committed = call[t].seq /\ disk'.booting = NoSeq
        BY <1>1, <1>2, <1>4, AckPointers
    <2>2. SUFFICES ASSUME proc = "up" PROVE ServedSpared' /\ ArmedSpared' /\ AckSpared'
        BY <1>1 DEF Spared
    <2>3. ServedSpared /\ ArmedSpared /\ AckSpared
        BY <2>2 DEF Spared
    <2>4. current.active = call[t].seq \/ Stray(current.active)
        BY <1>1, <1>4, <2>3 DEF AckSpared
    <2>5. ServedSpared'
        BY <1>1, <2>1, <2>4, StrayStays DEF ServedSpared
    <2>6. \A u \in Threads : Switching(u) => Stray(call[u].seq)
        BY <1>1, <1>4, <2>3 DEF ArmedSpared, Switching
    <2>7. ArmedSpared'
        BY <1>1, <2>3, <2>6, StrayStays DEF ArmedSpared, Switching
    <2>8. \A u \in Threads \ {t} : call[u].pc # "ack"
        BY <1>1 DEF GateHeld
    <2>9. AckSpared'
        BY <1>1, <2>8 DEF AckSpared
    <2>10. QED
        BY <2>5, <2>7, <2>9
<1>5. QED
    BY <1>3, <1>4

LEMMA SparedArm ==
    ASSUME NEW t \in Threads, Typed, Spared, HandsOn, ApplyArm(t)
    PROVE  Spared'
<1>1. /\ UNCHANGED <<proc, wiped, current>>
      /\ disk' = Arm(disk)
      /\ call'[t].pc = "armed" /\ call'[t].seq = disk.staged
      /\ \A u \in Threads \ {t} : call'[u] = call[u]
    BY CallType DEF ApplyArm, SaveState, applyFrame
<1>2. disk.booting = NoSeq /\ disk.staged # NoSeq
    BY DEF ApplyArm, ApplyDecides, PromoteDecision
<1>3. disk.staged # disk.committed /\ ~Stray(disk.staged)
    BY <1>2, StrayIsNamed DEF Typed, Sound, Loose, Distinct, Referenced
<1>4. disk'.booting = disk.staged /\ disk'.committed = disk.committed
    BY <1>1, ArmPointers DEF Typed, Sound, Loose
<1>5. SUFFICES ASSUME proc = "up" PROVE ServedSpared' /\ ArmedSpared' /\ AckSpared'
    BY <1>1 DEF Spared
<1>6. ServedSpared /\ ArmedSpared /\ AckSpared
    BY <1>5 DEF Spared
<1>7. NoSeq = Embedded
    BY DEF NoSeq, Embedded
<1>8. ServedSpared' /\ current.active # disk.staged
    BY <1>1, <1>2, <1>3, <1>4, <1>6, <1>7, StrayStays DEF ServedSpared
<1>9. \A u \in Threads :
          Switching(u) => Stray(call[u].seq) /\ call[u].seq # disk.staged
    BY <1>2, <1>3, <1>6 DEF ArmedSpared, Switching
<1>10. \A u \in Threads : call[u].pc = "ack" => call[u].seq # disk.staged
    BY <1>2, <1>3, <1>6, <1>7 DEF AckSpared
<1>11. ArmedSpared'
    BY <1>1, <1>2, <1>4, <1>6, <1>8, <1>9, <1>10, StrayStays DEF ArmedSpared, Switching
<1>12. AckSpared'
    BY <1>1, <1>2, <1>4, <1>6, <1>7, <1>10, StrayStays DEF AckSpared
<1>13. QED
    BY <1>8, <1>11, <1>12

LEMMA SparedSwap ==
    ASSUME NEW t \in Threads, Typed, Spared, HandsOn, ApplySwap(t)
    PROVE  Spared'
<1>1. /\ UNCHANGED <<proc, wiped, disk>>
      /\ current'.active = call[t].seq
      /\ call[t].pc = "versioned" /\ call'[t] = Idle
      /\ \A u \in Threads \ {t} : call'[u] = call[u]
    BY CallType DEF ApplySwap, Return, applyFrame, storeVars
<1>2. SUFFICES ASSUME proc = "up" PROVE ServedSpared' /\ ArmedSpared' /\ AckSpared'
    BY <1>1 DEF Spared
<1>3. ServedSpared /\ ArmedSpared /\ AckSpared
    BY <1>2 DEF Spared
<1>4. current'.active = disk.booting \/ Stray(current'.active)
    BY <1>1, <1>3 DEF ArmedSpared, Switching
<1>5. ServedSpared'
    BY <1>1, <1>4, StrayStays DEF ServedSpared
<1>6. ArmedSpared'
    BY <1>1, <1>3, IdleCall, StrayStays DEF ArmedSpared, Switching
<1>7. AckSpared'
    BY <1>1, <1>3, <1>4, IdleCall, StrayStays DEF AckSpared
<1>8. QED
    BY <1>5, <1>6, <1>7

LEMMA SparedStep ==
    Typed /\ GateHeld /\ NoResetCall /\ Kept /\ Deleting /\ (Launch \/ HandsOn)
        /\ Spared /\ [Next]_vars => Spared'
<1> SUFFICES ASSUME Typed, GateHeld, NoResetCall, Kept, Deleting, Launch \/ HandsOn,
                    Spared, [Next]_vars
             PROVE  Spared'
    OBVIOUS
<1>1. CASE Launch
    BY <1>1, SparedLaunch
<1>2. CASE proc' = "down"
    BY <1>2 DEF Spared
<1>3. \A t \in Threads : ~ResetUpdate(t)
    BY DEF ResetUpdate, NoResetCall
<1>4. QED
    BY <1>1, <1>2, <1>3, StepServes, SparedFrame, SparedLost, SparedAckBegin,
       SparedAckUpdate, SparedArm, SparedSwap

LEMMA SparedAlways ==
    ASSUME "dir_lost" \notin Faults, "reset" \notin PageCalls
    PROVE  Spec => []Spared
<1>1. Init => Spared
    BY DEF Init, RuntimeInit, Spared
<1>2. QED
    BY <1>1, SparedStep, DirectoryStep, DirectoryAlways, NoResetCallAlways,
       TypedAlways, GateHeldAlways, SerialAlways, RunEndsAlways, PTL DEF Spec

(***************************************************************************)
(* The theorems.                                                           *)
(***************************************************************************)
\* As long as no directory disappears by itself: what a pointer names is on
\* disk with the bundle its metadata describes, and no pending delete names it,
\* even while resets and lost state files race with every other thread.
THEOREM DeletesSpareReferenced ==
    ASSUME "dir_lost" \notin Faults
    PROVE  Spec => [](/\ \A seq \in Referenced(disk) :
                             /\ bundles[seq] # Absent
                             /\ bundles[seq].meta = disk.versions[seq]
                      /\ \A r \in Runs : Referenced(disk) \cap job[r].effects = {}
                      /\ \A t \in Threads : Referenced(disk) \cap call[t].effects = {})
<1>1. Kept /\ Deleting =>
          /\ \A seq \in Referenced(disk) :
                 /\ bundles[seq] # Absent
                 /\ bundles[seq].meta = disk.versions[seq]
          /\ \A r \in Runs : Referenced(disk) \cap job[r].effects = {}
          /\ \A t \in Threads : Referenced(disk) \cap call[t].effects = {}
    <2> SUFFICES ASSUME Kept, Deleting
                 PROVE  /\ \A seq \in Referenced(disk) :
                               /\ bundles[seq] # Absent
                               /\ bundles[seq].meta = disk.versions[seq]
                        /\ \A r \in Runs : Referenced(disk) \cap job[r].effects = {}
                        /\ \A t \in Threads : Referenced(disk) \cap call[t].effects = {}
        OBVIOUS
    <2>1. \A h \in Holders : Pending(h) \cap Referenced(disk) = {}
        BY DEF Deleting, InUse
    <2>2. QED
        BY <2>1, Constants DEF Kept, Holds, Pending, Holders
<1>2. QED
    BY <1>1, DirectoryAlways, PTL

\* Where no directory disappears by itself and no reset() sweeps under an
\* extraction, what state.json names is on disk, complete.
THEOREM ReferencedStaysOnDisk ==
    ASSUME "dir_lost" \notin Faults, "reset" \notin PageCalls
    PROVE  Spec => []ReferencedOnDisk
<1>1. Typed /\ Kept => ReferencedOnDisk
    <2> SUFFICES ASSUME Typed, Kept, NEW seq \in Referenced(disk)
                 PROVE  bundles[seq] = [meta |-> disk.versions[seq], whole |-> TRUE]
        BY DEF ReferencedOnDisk
    <2>1. /\ bundles[seq] # Absent /\ bundles[seq].whole
          /\ bundles[seq].meta = disk.versions[seq]
        BY DEF Kept, Holds, NoReset
    <2>2. bundles[seq] \in Bundle
        BY <2>1, DirectoryTypes
    <2>3. bundles[seq] = [meta |-> bundles[seq].meta, whole |-> bundles[seq].whole]
          /\ bundles[seq].whole \in BOOLEAN
        BY <2>2 DEF Bundle
    <2>4. bundles[seq].whole = TRUE
        BY <2>1, <2>3
    <2>5. QED
        BY <2>1, <2>3, <2>4
<1>2. QED
    BY <1>1, DirectoryAlways, TypedAlways, PTL

\* The same for what the process serves: it is complete, and of the version
\* that current_bundle reports.
THEOREM ServesWhatItReports ==
    ASSUME {"dir_lost", "state_lost"} \cap Faults = {}, "reset" \notin PageCalls
    PROVE  Spec => []ServedAsReported
<1>1. Marked /\ Reported /\ Kept /\ ~wiped => ServedAsReported
    <2> SUFFICES ASSUME Marked, Reported, Kept, ~wiped,
                        proc = "up", current.active # Embedded
                 PROVE  /\ bundles[current.active] # Absent
                        /\ bundles[current.active].whole
                        /\ bundles[current.active].meta.version = current.version
        BY DEF ServedAsReported
    <2>1. current.active \in Referenced(disk)
        BY Constants DEF Marked, ServedMarked, Referenced
    <2>2. current.version = disk.versions[current.active].version
        BY DEF Reported
    <2>3. QED
        BY <2>1, <2>2 DEF Kept, Holds, NoReset
<1>2. "dir_lost" \notin Faults /\ "state_lost" \notin Faults
    OBVIOUS
<1>3. Spec => [](Kept /\ Deleting)
    BY <1>2, DirectoryAlways
<1>4. Spec => []~wiped
    BY <1>2, NeverWiped
<1>5. QED
    BY <1>1, <1>3, <1>4, MarkedAlways, ReportedAlways, PTL

\* The directory that is served stays on disk, even when state.json is lost
\* under the process and no pointer names it any more.
THEOREM ServedStaysOnDisk ==
    ASSUME "dir_lost" \notin Faults, "reset" \notin PageCalls
    PROVE  Spec => [](proc = "up" /\ current.active # Embedded =>
                          current.active \in Present)
<1>1. Typed /\ Kept /\ Spared =>
          (proc = "up" /\ current.active # Embedded => current.active \in Present)
    <2> SUFFICES ASSUME Typed, Kept, Spared, proc = "up", current.active # Embedded
                 PROVE  current.active \in Present
        OBVIOUS
    <2>1. current.active \in Referenced(disk) \/ Stray(current.active)
        BY Constants DEF Spared, ServedSpared, Referenced
    <2>2. Referenced(disk) \subseteq Present
        BY DirectoryTypes DEF Kept, Holds, Present
    <2>3. QED
        BY <2>1, <2>2 DEF Stray
<1>2. QED
    BY <1>1, DirectoryAlways, SparedAlways, TypedAlways, PTL

\* No delete that is still to run names a bundle that state.json refers to or
\* that the process serves, though the file may be lost under the process.
THEOREM DeletesAreSafe ==
    ASSUME "dir_lost" \notin Faults, "reset" \notin PageCalls
    PROVE  Spec => []EffectsSafe
<1>1. Typed /\ GateHeld /\ RunEnds /\ Deleting /\ Spared => EffectsSafe
    <2>0. (\A h \in Holders : \A seq \in Pending(h) :
               seq \notin Referenced(disk) \cup {current.active}) => EffectsSafe
        BY Constants DEF EffectsSafe, Pending, Holders
    <2> SUFFICES ASSUME Typed, GateHeld, RunEnds, Deleting, Spared,
                        NEW h \in Holders, NEW seq \in Pending(h)
                 PROVE  seq \notin Referenced(disk) \cup {current.active}
        BY <2>0
    <2>1. seq \in Seqs /\ seq \notin Referenced(disk)
        BY DirectoryTypes DEF Deleting, InUse
    <2>2. proc = "up"
        BY NobodyDeletes DEF Typed, TypeOK, RuntimeTypeOK
    <2>3. \/ current.active = Embedded
          \/ current.active \in Referenced(disk)
          \/ Stray(current.active)
        BY <2>2, Constants DEF Spared, ServedSpared, Referenced
    <2>4. QED
        BY <2>1, <2>3, Constants DEF Stray
<1>2. QED
    BY <1>1, DirectoryAlways, SparedAlways, TypedAlways, GateHeldAlways, RunEndsAlways, PTL
=============================================================================
