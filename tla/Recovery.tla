------------------------------ MODULE Recovery -----------------------------
(***************************************************************************)
(* Boot recovery, src/recovery.rs: a task spawned at setup that fetches an *)
(* update and switches to it when the page has not acked in time.  Its     *)
(* waits (boot_recovery_secs, RETRY_DELAYS) may elapse at any moment.      *)
(***************************************************************************)
EXTENDS Update

CONSTANTS
    BootRecovery,   \* bootRecoverySecs is configured, in a release build
    MaxRetries      \* RETRY_DELAYS.len()

ASSUME BootRecoveryAssumption == BootRecovery \in BOOLEAN
ASSUME MaxRetriesAssumption == MaxRetries \in Nat

VARIABLE
    rec             \* the recovery task: where it is, and on which attempt

RecPoints == {"off", "wait",
              "job",        \* in check_and_download
              "decide",     \* a bundle is staged; about to take the gate
              "switch",     \* inside apply_staged, holding the gate
              "switched",   \* serving swapped, reload not flagged yet
              "reload"}     \* asking the windows to reload

RecOff == [pc |-> "off", attempt |-> 0, windows |-> {}]

RecoveryTypeOK ==
    rec \in [pc : RecPoints, attempt : 0..MaxRetries, windows : SUBSET Windows]

RecoveryInit == rec = RecOff

\* Spawned by the setup hook of every process.
RecSpawned == rec' = IF BootRecovery THEN [RecOff EXCEPT !.pc = "wait"] ELSE RecOff

RecLost == rec' = RecOff

RecGoto(pc) == rec' = [rec EXCEPT !.pc = pc]

RecDone == rec' = RecOff

\* Mutant: one retry more than there are delays to wait.
RecRetryOnceMore ==
    IF rec.attempt <= MaxRetries
    THEN rec' = [rec EXCEPT !.pc = "wait", !.attempt = @ + 1]
    ELSE RecDone

\* Mutant: attempts are not counted.
RecRetryForever == rec' = [rec EXCEPT !.pc = "wait"]

\* Recovery::Failed: wait for the next attempt, or give up after the last.
RecRetry ==
    IF rec.attempt < MaxRetries
    THEN rec' = [rec EXCEPT !.pc = "wait", !.attempt = @ + 1]
    ELSE RecDone

(***************************************************************************)
(* recover_once, up to the switch.                                         *)
(***************************************************************************)
RecPageIsFine ==
    /\ rec.pc = "wait"
    /\ page_acked
    /\ RecDone
    /\ UNCHANGED <<job, runtimeVars, storeVars>>

\* No ack yet: check_and_download is called, and waits for update_lock.
RecCall ==
    /\ rec.pc = "wait"
    /\ ~page_acked
    /\ RecGoto("job")
    /\ UNCHANGED <<job, runtimeVars, storeVars>>

RecLocks ==
    /\ rec.pc = "job"
    /\ JobLock(Recoverer)
    /\ UNCHANGED <<rec, runtimeVars, storeVars>>

\* check_and_download returned: there is something to switch to, nothing
\* new, or an error to retry after.
RecCollect ==
    LET outcome == job[Recoverer].outcome
    IN  /\ rec.pc = "job"
        /\ job[Recoverer].pc = "done"
        /\ \/ outcome \in {"Staged", "AlreadyStaged"} /\ RecGoto("decide")
           \/ outcome = "Refused" /\ RecDone
           \/ outcome = "Failed" /\ RecRetry
        /\ job' = [job EXCEPT ![Recoverer] = NoJob]
        /\ UNCHANGED <<runtimeVars, storeVars>>

\* The page acked during the download: the bundle stays staged.
RecStagedOnly ==
    /\ rec.pc = "decide"
    /\ gate = NoThread
    /\ page_acked
    /\ RecDone
    /\ UNCHANGED <<job, runtimeVars, storeVars>>

(***************************************************************************)
(* The switch: apply_staged with the gate held from the check to the flag. *)
(***************************************************************************)
\* Mutant: page_acked was read before the download only.
RecSwitchUnchecked ==
    /\ rec.pc = "decide"
    /\ gate = NoThread
    /\ gate' = Recoverer
    /\ ApplyEnter(Recoverer)
    /\ RecGoto("switch")
    /\ UNCHANGED <<job, proc, shell, current, page_acked, reload_pending, page,
                   wiped, ran, storeVars>>

RecSwitch ==
    /\ rec.pc = "decide"
    /\ gate = NoThread
    /\ ~page_acked
    /\ gate' = Recoverer
    /\ ApplyEnter(Recoverer)
    /\ RecGoto("switch")
    /\ UNCHANGED <<job, proc, shell, current, page_acked, reload_pending, page,
                   wiped, ran, storeVars>>

RecArm == ApplyArm(Recoverer) /\ UNCHANGED <<job, rec>>

RecVersion == ApplyVersion(Recoverer) /\ UNCHANGED <<job, rec>>

RecSwap ==
    /\ ApplySwap(Recoverer)
    /\ RecGoto("switched")
    /\ UNCHANGED <<job, gate>>

\* Mutant: acks of the old page are not fended off until the reload.
RecFlagForgotten ==
    /\ rec.pc = "switched"
    /\ gate' = NoThread
    /\ rec' = [rec EXCEPT !.pc = "reload",
                          !.windows = Windows]
    /\ UNCHANGED <<job, proc, shell, current, page_acked, reload_pending, page,
                   call, wiped, ran, storeVars>>

RecFlag ==
    /\ rec.pc = "switched"
    /\ reload_pending' = TRUE
    /\ gate' = NoThread
    /\ rec' = [rec EXCEPT !.pc = "reload", !.windows = Windows]
    /\ UNCHANGED <<job, proc, shell, current, page_acked, page, call, wiped, ran,
                   storeVars>>

\* TrialPending, NothingStaged: nothing to switch to after all.
RecKeep ==
    /\ ApplyRefuse(Recoverer)
    /\ gate' = NoThread
    /\ RecDone
    /\ UNCHANGED job

RecDiscard == ApplyDiscard(Recoverer) /\ UNCHANGED <<job, rec>>

RecDiscarded ==
    /\ ApplyGC(Recoverer)
    /\ gate' = NoThread
    /\ RecDone
    /\ UNCHANGED job

RecApplyFail ==
    /\ ApplyFail(Recoverer)
    /\ gate' = NoThread
    /\ RecRetry
    /\ UNCHANGED job

(***************************************************************************)
(* run(), after a switch: every app window is asked to reload, one by one. *)
(***************************************************************************)
RecReload(w) ==
    /\ rec.pc = "reload"
    /\ w \in rec.windows
    /\ page[w] # RemotePage
    /\ Load(w)
    /\ rec' = [rec EXCEPT !.windows = @ \ {w}]
    /\ UNCHANGED <<job, proc, shell, current, page_acked, gate, call, wiped,
                   storeVars>>

\* The reload fails, or the window shows a page that is not the app's.
RecReloadFails(w) ==
    /\ rec.pc = "reload"
    /\ w \in rec.windows
    /\ page[w] = RemotePage \/ "reload" \in Faults
    /\ rec' = [rec EXCEPT !.windows = @ \ {w}]
    /\ UNCHANGED <<job, runtimeVars, storeVars>>

\* Mutant: the loop over the windows is left before its end.
RecReloadedEarly ==
    /\ rec.pc = "reload"
    /\ RecDone
    /\ UNCHANGED <<job, runtimeVars, storeVars>>

RecReloaded ==
    /\ rec.pc = "reload"
    /\ rec.windows = {}
    /\ RecDone
    /\ UNCHANGED <<job, runtimeVars, storeVars>>

RecoveryNext ==
    \/ RecPageIsFine \/ RecCall \/ RecLocks \/ RecCollect \/ RecStagedOnly
    \/ RecSwitch \/ RecArm \/ RecVersion \/ RecSwap \/ RecFlag \/ RecKeep
    \/ RecDiscard \/ RecDiscarded \/ RecApplyFail
    \/ \E w \in Windows : RecReload(w) \/ RecReloadFails(w)
    \/ RecReloaded
=============================================================================
