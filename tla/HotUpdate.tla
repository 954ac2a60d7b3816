------------------------------ MODULE HotUpdate ----------------------------
(***************************************************************************)
(* The plugin in an app: processes that come and go over one hot-update/   *)
(* directory, the page's commands, the pipeline and boot recovery, each    *)
(* interleaved with the others.                                            *)
(***************************************************************************)
EXTENDS Recovery

vars == <<disk, bundles, proc, shell, current, page_acked, reload_pending,
          gate, page, call, wiped, ran, job, rec>>

TypeOK == StoreTypeOK /\ RuntimeTypeOK /\ UpdateTypeOK /\ RecoveryTypeOK

Init == StoreInit /\ RuntimeInit /\ UpdateInit /\ RecoveryInit

(***************************************************************************)
(* The setup hook: boot resolution, then the recovery task is spawned.     *)
(***************************************************************************)
Launch ==
    /\ \E sh \in Shells : LaunchSaved(sh) \/ LaunchUnsaved(sh)
    /\ RecSpawned
    /\ UNCHANGED job

LaunchCut == \E sh \in Shells : LaunchKilled(sh) /\ UNCHANGED <<job, rec>>

Quit == Exit /\ JobLost /\ RecLost

PageStep ==
    /\ \E w \in Windows : PageLoad(w) \/ RemoteLoad(w)
    /\ UNCHANGED <<job, rec>>

(***************************************************************************)
(* The commands.                                                           *)
(***************************************************************************)
notify_app_ready(t) ==
    /\ AckBegin(t) \/ AckUpdate(t) \/ AckFail(t) \/ AckReturn(t)
    /\ UNCHANGED <<job, rec>>

apply_staged(t) ==
    /\ \/ ApplyBegin(t)
       \/ ApplyArm(t)
       \/ ApplyVersion(t)
       \/ ApplyDiscard(t)
       \/ /\ ApplySwap(t) \/ ApplyRefuse(t) \/ ApplyGC(t) \/ ApplyFail(t)
          /\ UNCHANGED gate
    /\ UNCHANGED <<job, rec>>

reset(t) ==
    /\ \/ /\ ResetBegin(t) \/ ResetUpdate(t) \/ ResetFail(t)
          /\ UNCHANGED job
       \/ ResetReturn(t) /\ SweepTemp
    /\ UNCHANGED rec

check_and_download ==
    /\ \E r \in Runs : Download(r) \/ JobStep(r)
    /\ UNCHANGED rec

Environment ==
    /\ LoseState \/ \E seq \in Seqs : DirLost(seq) /\ UNCHANGED runtimeVars
    /\ UNCHANGED <<job, rec>>

Session ==
    \/ Quit \/ PageStep \/ Environment
    \/ \E t \in Callers : notify_app_ready(t) \/ apply_staged(t) \/ reset(t)
    \/ check_and_download
    \/ RecoveryNext

Next == Launch \/ LaunchCut \/ Session

Spec == Init /\ [][Next]_vars

(***************************************************************************)
(* What state.json always says.                                            *)
(***************************************************************************)
VersionOn(seq) == disk.versions[seq].version
HashOn(seq)    == disk.versions[seq].archive_sha256

\* last_good follows committed, and no bundle is under two pointers at once:
\* deleting what one pointer lets go of never takes another's bundle (ack
\* and stage drop the metadata of what they replace without looking).
PointersDistinct ==
    /\ disk.last_good = disk.committed
    /\ disk.staged # NoSeq => disk.staged \notin {disk.committed, disk.booting}
    /\ disk.booting # NoSeq => disk.booting # disk.committed

\* The versions map holds exactly the bundles some pointer names: none is
\* served or armed blind, and none of the handlers leaks metadata.
MetadataTracked == Recorded(disk) = Referenced(disk)

\* A bundle on trial is above the watermark, the committed one is not, and
\* neither a staged bundle nor one on trial has a blacklisted hash; a strike
\* only ever counts against a bundle on trial, and there is one at most.
TrialIsNew ==
    /\ disk.booting # NoSeq =>
           /\ VersionOn(disk.booting) > disk.max_version_seen
           /\ HashOn(disk.booting) \notin disk.failed
    /\ disk.staged # NoSeq => HashOn(disk.staged) \notin disk.failed
    /\ disk.committed # NoSeq =>
           VersionOn(disk.committed) <= disk.max_version_seen
    /\ disk.booting_strikes \in {0, 1}
    /\ disk.booting = NoSeq => disk.booting_strikes = 0

\* A bundle some pointer names is on disk, complete, and the bundle its
\* metadata describes (update.rs: the fully extracted dir is renamed into
\* place before the staged pointer flips).
ReferencedOnDisk ==
    \A seq \in Referenced(disk) :
        bundles[seq] = [meta |-> disk.versions[seq], whole |-> TRUE]

(***************************************************************************)
(* What a running process serves.                                          *)
(***************************************************************************)
\* The anti-brick invariant of runtime.rs: whatever OTA bundle is served has
\* its rollback marker, or its commit, in state.json already, so a process
\* that dies now is counted against it at the next boot.
MarkerOnDisk ==
    proc = "up" /\ ~wiped /\ current.active # Embedded =>
        current.active \in {disk.booting, disk.committed}

\* The directory being served is there, complete, and of the version that
\* current_bundle reports.
ServedAsReported ==
    proc = "up" /\ current.active # Embedded =>
        /\ bundles[current.active] # Absent
        /\ bundles[current.active].whole
        /\ bundles[current.active].meta.version = current.version

\* An OTA bundle is served only if it is newer than the frontend the running
\* shell embeds, whichever way the shell changed since it was downloaded.
ServedBeatsShell ==
    proc = "up" /\ current.active # Embedded => current.version > shell

\* Deletes run after the write lock is released: by then none of them may hit
\* a bundle that is referenced, or the one being served.
EffectsSafe ==
    LET pending == (UNION {job[r].effects : r \in Runs})
                       \cup (UNION {call[t].effects : t \in Threads})
    IN  pending \cap (Referenced(disk) \cup {current.active}) = {}

\* check_and_download's promise to callers that race: the loser reports what
\* the winner staged instead of working on the same archive again.
NoDoubleDownload ==
    \A r \in Runs :
        /\ job[r].pc \in {"download", "extract", "allocated", "renamed"}
        /\ disk.staged # NoSeq
        => HashOn(disk.staged) # job[r].meta.archive_sha256

\* Boot recovery never switches a page that has acked: the ack cannot slip in
\* between its check and its switch.
RecoveryYieldsToPage == rec.pc \in {"switch", "switched"} => ~page_acked

\* Acks are not ignored for good (recovery.rs on reload_pending): once boot
\* recovery is done with its switch, every window has been loaded since, unless
\* no window has a page of the app and the next one to come clears the flag.
AcksHeardAgain ==
    rec.pc = "off" /\ reload_pending => \A w \in Windows : page[w] = RemotePage

(***************************************************************************)
(* What no step does.                                                      *)
(***************************************************************************)
\* state.json as reset() or a lost file leaves it.
Forgotten(st) == st = [Default EXCEPT !.max_version_seen = st.max_version_seen]

\* The watermark never falls and the blacklist never shrinks, except when
\* the whole state is reset or lost: no sequence of launches of older and
\* newer shells, trials and commits lets an old or a failed bundle back in.
MemoryOnlyGrows ==
    [][\/ /\ disk'.max_version_seen >= disk.max_version_seen
          /\ disk.failed \subseteq disk'.failed
       \/ Forgotten(disk')]_vars

\* A bundle is committed only if, in this process, some window's page was
\* loaded from it (runtime.rs on reload_pending: an ack of the page from before
\* the switch must not commit a bundle which no page has run yet).
CommitFromRunningPage ==
    [][disk'.committed \notin {disk.committed, NoSeq} =>
           disk'.committed \in ran]_vars

\* A committed bundle is given up only for a bundle that acked, at a launch of
\* a shell that caught up with it, for a directory that vanished, or on a
\* reset: a failed trial always rolls back to it.  (The shell of a launch that
\* was cut is not recorded: any shell of the install will do.)
CommittedSurvivesTrials ==
    [][disk.committed # NoSeq /\ disk'.committed # disk.committed =>
           \/ disk'.committed = disk.booting /\ page_acked
           \/ /\ disk'.committed = NoSeq
              /\ proc = "down"
              /\ \/ disk.committed \notin Present
                 \/ \E sh \in Shells : /\ VersionOn(disk.committed) <= sh
                                       /\ proc' = "up" => sh = shell'
           \/ Forgotten(disk')]_vars

\* After a launch whose save and deletes worked, nothing a killed run or a
\* past trial left behind survives, and what is on trial or committed is
\* there; only a staged bundle that waits behind a trial is not looked at.
BootCollects ==
    [][proc = "down" /\ proc' = "up" =>
           /\ Present' \subseteq Referenced(disk')
           /\ Referenced(disk') \subseteq Present' \cup {disk'.staged}]_vars

(***************************************************************************)
(* Fairness and liveness.  Threads inside a method keep running, mutexes   *)
(* are eventually granted, the pipeline's I/O ends (in an error if need    *)
(* be), timers fire.  Nobody has to call anything, load a page or quit.    *)
(***************************************************************************)
MethodStep(t) ==
    /\ \/ AckUpdate(t) \/ AckFail(t) \/ AckReturn(t)
       \/ ApplyArm(t) \/ ApplyVersion(t) \/ ApplyDiscard(t)
       \/ /\ ApplySwap(t) \/ ApplyRefuse(t) \/ ApplyGC(t) \/ ApplyFail(t)
          /\ UNCHANGED gate
    /\ UNCHANGED <<job, rec>>

PipelineStep ==
    /\ \E r \in Runs : JobStep(r)
    /\ UNCHANGED rec

TakesLock == RecSwitch \/ RecStagedOnly \/ RecLocks

Fairness ==
    /\ \A t \in Callers : WF_vars(MethodStep(t))
    /\ WF_vars(PipelineStep)
    /\ WF_vars(RecoveryNext)
    /\ SF_vars(TakesLock)

FairSpec == Spec /\ Fairness

\* Boot recovery comes to an end and gives the gate back: it switches, finds
\* nothing or runs out of retries, even with a page that downloads and acks at
\* the same time, under the lock and the gate it waits for.
RecoveryEnds == rec.pc # "off" ~> rec.pc = "off" /\ gate # Recoverer

(***************************************************************************)
(* The abstract specification of the rollback pointer, and state.json as   *)
(* an implementation of it.                                                *)
(***************************************************************************)
BundleOf(seq) == IF seq = NoSeq THEN Absent ELSE disk.versions[seq]

ChancesLeft == IF disk.booting = NoSeq THEN 0 ELSE 2 - disk.booting_strikes

Intact == {"good" : seq \in {disk.committed} \cap Present} \cup
          {"trial" : seq \in {disk.booting} \cap Present}

Rollback == INSTANCE TrialPointer WITH
    Bundles   <- BundleMeta,
    Nobody    <- Absent,
    good      <- BundleOf(disk.committed),
    trial     <- BundleOf(disk.booting),
    chances   <- ChancesLeft,
    condemned <- disk.failed,
    floor     <- disk.max_version_seen,
    intact    <- Intact

\* Every step of every thread, kill, fault and launch is, on state.json, a
\* step of the abstract rollback pointer or none of its business: no
\* interleaving of acks, applies, downloads, resets and recovery makes a
\* transition that the pure state machine does not have.
ImplementsRollback == Rollback!Spec

(***************************************************************************)
(* What the documentation promises and some interleaving breaks.           *)
(***************************************************************************)
\* runtime.rs on NotApplicable: a staged bundle is discarded because it is
\* blacklisted, superseded, refused by the base gate or missing on disk.
DiscardIsJustified ==
    [][\A t \in Threads :
           call[t].pc = "apply" /\ call'[t].pc = "discarded" =>
               ~Armable(disk, shell, Present,
                        MaxVersion(disk.max_version_seen, shell))]_vars

\* manifest.rs on base_version: an OTA never replaces the embedded frontend
\* of a native build newer than the base it was built from.
ServedWithinBase ==
    proc = "up" /\ current.active \in Present =>
        ~BaseRefused(bundles[current.active].meta, shell)

\* runtime.rs on reset: the directory being served is left in place.
ServedDirKept ==
    proc = "up" /\ current.active # Embedded => current.active \in Present
=============================================================================
