------------------------------- MODULE Update ------------------------------
(***************************************************************************)
(* The acquisition pipeline of src/update.rs with the parts of download.rs *)
(* and extract.rs it drives.  A run is one call of check_and_download: of  *)
(* a page's download command, or of boot recovery.  What it knows is local *)
(* to it, and `update_lock` is held by a guard that lives as long as its   *)
(* body; a call that waits for the lock has not read anything yet.         *)
(*                                                                         *)
(* The signed manifest is whatever the server publishes: a member of       *)
(* Manifests.  Transport, signature, digest and archive failures all end   *)
(* the run before a bundle exists, and are one action, JobFail.            *)
(***************************************************************************)
EXTENDS Runtime

CONSTANTS
    Manifests,  \* the verified manifests the update server may offer
    Downloads   \* download calls of pages

Manifest == [meta : BundleMeta, min_shell_version : Versions]

ASSUME ManifestsAssumption == Manifests \subseteq Manifest
ASSUME DownloadsAssumption == Recoverer \notin Downloads

Runs == Downloads \cup {Recoverer}

VARIABLE
    job         \* where each run is, and its locals

JobPoints == {"idle",
              "fetch",      \* update_lock taken, manifest on its way
              "download",   \* gates passed, archive going to dl-*.part
              "extract",    \* unpacking the archive into extract-*
              "allocated",  \* unpacked, its number chosen
              "renamed",    \* bundles/seq-<N> exists, not staged yet
              "staged",     \* staged pointer flipped, old bundle to delete
              "removing",   \* staging refused, new directory to delete
              "done"}       \* returned; recovery has not looked yet

Outcomes == {"none", "Staged", "AlreadyStaged", "Refused", "Failed"}

NoJob == [pc      |-> "idle",
          meta    |-> Absent,   \* of the manifest that passed the gate
          swept   |-> FALSE,    \* its temp entries were removed under it
          whole   |-> FALSE,    \* all of the archive was unpacked
          seq     |-> NoSeq,
          effects |-> {},
          outcome |-> "none"]

UpdateTypeOK ==
    job \in [Runs -> [pc : JobPoints, meta : BundleMeta \cup {Absent},
                      swept : BOOLEAN, whole : BOOLEAN, seq : Pointer,
                      effects : SUBSET Seqs, outcome : Outcomes]]

UpdateInit == job = [r \in Runs |-> NoJob]

(***************************************************************************)
(* gate(): the first refusal in the code's order, or Available.            *)
(***************************************************************************)
AlreadyStaged(m, st) ==
    /\ st.staged # NoSeq
    /\ st.versions[st.staged] # Absent
    /\ st.versions[st.staged].archive_sha256 = m.meta.archive_sha256

\* UpToDate, Blacklisted, ShellTooOld, ShellNewerThanBase and
\* InvalidBaseVersion differ only in what the page is told: Refused.
Gate(m, st, sh) ==
    IF \/ m.meta.version <= st.max_version_seen
       \/ m.meta.archive_sha256 \in st.failed
       \/ m.min_shell_version > sh
       \/ BaseRefused(m.meta, sh)
    THEN "Refused"
    ELSE IF AlreadyStaged(m, st) THEN "AlreadyStaged"
    ELSE "Available"

(***************************************************************************)
(* check_and_download, one step per await, lock or file operation that     *)
(* another thread can get in front of.  check() changes nothing.           *)
(***************************************************************************)
Goes(r, pc) == job' = [job EXCEPT ![r].pc = pc]

\* A run returns and drops the lock with its other locals; of recovery's the
\* outcome is awaited, a page is just told.
Finish(r, outcome) ==
    job' = [job EXCEPT ![r] =
                IF r = Recoverer
                THEN [NoJob EXCEPT !.pc = "done", !.outcome = outcome]
                ELSE NoJob]

LockFree == \A r \in Runs : job[r].pc \in {"idle", "done"}

\* Mutant: the calls are not serialized.
JobLockUnserialized(r) ==
    /\ job[r].pc = "idle"
    /\ Goes(r, "fetch")

JobLock(r) ==
    /\ job[r].pc = "idle"
    /\ LockFree
    /\ Goes(r, "fetch")

\* A page calls download().
Download(r) ==
    /\ r \in Downloads
    /\ \E t \in Callers : CanCall(t, "download")
    /\ JobLock(r)
    /\ UNCHANGED <<runtimeVars, storeVars>>

\* The manifest is here and verified; state.json is read for the gate.
JobGate(r, m) ==
    LET verdict == Gate(m, disk, shell)
    IN  /\ job[r].pc = "fetch"
        /\ IF verdict = "Available"
           THEN job' = [job EXCEPT ![r].pc = "download", ![r].meta = m.meta]
           ELSE Finish(r, verdict)
        /\ UNCHANGED <<runtimeVars, storeVars>>

\* The archive is complete and checked, and is opened again by path.
JobExtract(r) ==
    /\ job[r].pc = "download"
    /\ ~job[r].swept
    /\ Goes(r, "extract")
    /\ UNCHANGED <<runtimeVars, storeVars>>

\* Network, signature, digest, archive or file system error; the temp
\* entries go.
JobFail(r) ==
    /\ job[r].pc \in {"fetch", "download", "extract", "allocated"}
    /\ Finish(r, "Failed")
    /\ UNCHANGED <<runtimeVars, storeVars>>

\* Unpacked, and numbered from a listing and a state read without the write
\* lock.  A directory that was swept while it was being filled lacks files.
JobAllocate(r, seq) ==
    /\ job[r].pc = "extract"
    /\ AllocateSeq(seq)
    /\ job' = [job EXCEPT ![r].pc = "allocated", ![r].seq = seq,
                          ![r].whole = ~job[r].swept, ![r].swept = FALSE]
    /\ UNCHANGED <<runtimeVars, storeVars>>

\* The extracted directory, if it is still there, is renamed into place.
JobRename(r) ==
    /\ job[r].pc = "allocated"
    /\ ~job[r].swept
    /\ bundles' = [bundles EXCEPT ![job[r].seq] = [meta  |-> job[r].meta,
                                                   whole |-> job[r].whole]]
    /\ Goes(r, "renamed")
    /\ UNCHANGED <<runtimeVars, disk>>

\* Mutant: what staging replaces is deleted before the pointer moves.
JobStageDeletingFirst(r) ==
    LET staged == Stage(disk, job[r].seq, job[r].meta)
    IN  /\ job[r].pc = "renamed"
        /\ ~StageRefused(disk, job[r].seq, job[r].meta)
        /\ IF staged.effects \cap Present # {}
           THEN /\ ApplyEffects(staged.effects)
                /\ UNCHANGED <<job, disk>>
           ELSE /\ SaveState(staged.state)
                /\ Goes(r, "staged")
                /\ UNCHANGED bundles
        /\ UNCHANGED runtimeVars

JobStage(r) ==
    LET staged == Stage(disk, job[r].seq, job[r].meta)
    IN  /\ job[r].pc = "renamed"
        /\ ~StageRefused(disk, job[r].seq, job[r].meta)
        /\ SaveState(staged.state)
        /\ job' = [job EXCEPT ![r].pc = "staged",
                              ![r].effects = staged.effects]
        /\ UNCHANGED <<runtimeVars, bundles>>

\* The state moved on since the gate (a reset, an ack): nothing is staged.
JobRefused(r) ==
    /\ job[r].pc = "renamed"
    /\ StageRefused(disk, job[r].seq, job[r].meta)
    /\ job' = [job EXCEPT ![r].pc = "removing", ![r].effects = {job[r].seq}]
    /\ UNCHANGED <<runtimeVars, storeVars>>

\* The save failed: the directory stays behind for boot GC.
JobUnsaved(r) ==
    /\ job[r].pc = "renamed"
    /\ SaveFails
    /\ Finish(r, "Failed")
    /\ UNCHANGED <<runtimeVars, bundles>>

JobReturn(r) ==
    /\ job[r].pc \in {"staged", "removing"}
    /\ ApplyEffects(job[r].effects)
    /\ Finish(r, IF job[r].pc = "staged" THEN "Staged" ELSE "Failed")
    /\ UNCHANGED <<runtimeVars, disk>>

JobStep(r) ==
    \/ \E m \in Manifests : JobGate(r, m)
    \/ \E seq \in Seqs : JobAllocate(r, seq)
    \/ JobExtract(r) \/ JobFail(r) \/ JobRename(r) \/ JobStage(r)
    \/ JobRefused(r) \/ JobUnsaved(r) \/ JobReturn(r)

\* reset() removes every non-seq entry, the pipeline's own among them.
SweepTemp ==
    job' = [r \in Runs |-> [job[r] EXCEPT
               !.swept = @ \/ job[r].pc \in {"download", "extract", "allocated"}]]

\* The process ended, and the runs with it.
JobLost == job' = [r \in Runs |-> NoJob]
=============================================================================
