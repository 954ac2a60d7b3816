------------------------------ MODULE Runtime ------------------------------
(***************************************************************************)
(* One app process: src/runtime.rs, the setup hook and the page-load hook  *)
(* of src/lib.rs, and the webview windows that load what is served.        *)
(*                                                                         *)
(* Each HotUpdate method is cut where another thread can get in between:   *)
(* at the write lock of Store::update, at the deletes that run after it    *)
(* is released, at the second read of the state and at the swap of         *)
(* `current`.  Setup is one step: nothing else runs until it returns.      *)
(***************************************************************************)
EXTENDS Store

CONSTANTS
    Shells,     \* versions of the native app an install may have
    Windows,    \* webview windows
    RemoteWindows,  \* the ones that may show a page that is not the app's
    Callers,    \* threads that call the API; commands all run on one
    Recoverer,  \* the boot recovery task, which calls apply_staged too
    NoThread,   \* the gate is free
    PageCalls   \* the commands this app's frontend uses

Threads == Callers \cup {Recoverer}

Commands == {"ack", "apply", "reset", "download"}

ASSUME WindowsAssumption == RemoteWindows \subseteq Windows
ASSUME ShellsAssumption == Shells \subseteq Versions
ASSUME ThreadsAssumption == Recoverer \notin Callers /\ NoThread \notin Threads
ASSUME PageCallsAssumption == PageCalls \subseteq Commands

VARIABLES
    proc,           \* "up" while the process runs
    shell,          \* Activation.embedded_version
    current,        \* Activation.current: what the provider serves
    page_acked,     \* Shared.page_acked
    reload_pending, \* Shared.reload_pending
    gate,           \* holder of Shared.gate
    page,           \* what each window's page was loaded from
    call,           \* where each thread is in a HotUpdate method
    wiped,          \* ghost: state reset or lost during this process
    ran             \* ghost: what pages were loaded from in this process

runtimeVars == <<proc, shell, current, page_acked, reload_pending, gate, page,
                 call, wiped, ran>>

NoPage == -1
RemotePage == -2

CallPoints == {"idle",
               "ack", "acked",                        \* notify_app_ready
               "apply", "armed", "versioned",         \* apply_staged
               "discarded",
               "reset", "wiped"}                      \* reset

Idle == [pc |-> "idle", seq |-> NoSeq, version |-> NoVersion, seen |-> {},
         effects |-> {}]

RuntimeTypeOK ==
    /\ proc \in {"down", "up"}
    /\ shell \in Versions
    /\ current \in [active : Pointer, version : Versions]
    /\ page_acked \in BOOLEAN
    /\ reload_pending \in BOOLEAN
    /\ gate \in Threads \cup {NoThread}
    /\ page \in [Windows -> Pointer \cup {NoPage, RemotePage}]
    /\ call \in [Threads -> [pc : CallPoints, seq : Pointer,
                             version : Versions \cup {NoVersion},
                             seen : SUBSET Seqs, effects : SUBSET Seqs]]
    /\ wiped \in BOOLEAN
    /\ ran \subseteq Pointer

RuntimeInit ==
    /\ proc = "down"
    /\ shell \in Shells
    /\ current = [active |-> Embedded, version |-> shell]
    /\ page_acked = FALSE
    /\ reload_pending = FALSE
    /\ gate = NoThread
    /\ page = [w \in Windows |-> NoPage]
    /\ call = [t \in Threads |-> Idle]
    /\ wiped = FALSE
    /\ ran = {}

Return(t) == call' = [call EXCEPT ![t] = Idle]

(***************************************************************************)
(* Setup: initialize().                                                    *)
(***************************************************************************)
VersionOf(st, seq, sh) ==
    IF seq = Embedded THEN sh
    ELSE IF st.versions[seq] = Absent THEN sh
    ELSE st.versions[seq].version

Serve(st, seq, sh) == [active |-> seq, version |-> VersionOf(st, seq, sh)]

\* A fresh process that serves `serving`.
Start(sh, serving) ==
    /\ proc' = "up"
    /\ shell' = sh
    /\ current' = serving
    /\ page_acked' = FALSE
    /\ reload_pending' = FALSE
    /\ gate' = NoThread
    /\ page' = [w \in Windows |-> NoPage]
    /\ call' = [t \in Threads |-> Idle]
    /\ wiped' = FALSE
    /\ ran' = {}

\* Mutant: nothing is collected at boot.
LaunchSavedNoGC(sh) ==
    LET boot == ResolveBoot(disk, sh, Present)
    IN  /\ proc = "down"
        /\ SaveState(boot)
        /\ UNCHANGED bundles
        /\ Start(sh, Serve(boot, ActiveOf(boot), sh))

LaunchSaved(sh) ==
    LET boot == ResolveBoot(disk, sh, Present)
    IN  /\ proc = "down"
        /\ SaveState(boot)
        /\ ApplyEffects(BootEffects(boot, Present))
        /\ Start(sh, Serve(boot, ActiveOf(boot), sh))

\* Mutant: what the unsaved state arms is served all the same.
LaunchUnsavedArming(sh) ==
    LET boot == ResolveBoot(disk, sh, Present)
    IN  /\ proc = "down"
        /\ SaveFails
        /\ UNCHANGED bundles
        /\ Start(sh, Serve(boot, ActiveOf(boot), sh))

\* Persisting failed: nothing newly armed is served, nothing is deleted.
LaunchUnsaved(sh) ==
    LET boot == ResolveBoot(disk, sh, Present)
    IN  /\ proc = "down"
        /\ SaveFails
        /\ UNCHANGED bundles
        /\ Start(sh, Serve(boot, boot.committed, sh))

\* The process dies between persisting the resolved state and its deletes.
LaunchKilled(sh) ==
    /\ proc = "down"
    /\ disk' = ResolveBoot(disk, sh, Present)
    /\ disk' # disk
    /\ UNCHANGED bundles
    /\ UNCHANGED runtimeVars

\* The process ends: quit, killed or crashed, at any point.
Exit ==
    /\ proc = "up"
    /\ proc' = "down"
    /\ current' = [active |-> Embedded, version |-> shell]
    /\ page_acked' = FALSE
    /\ reload_pending' = FALSE
    /\ gate' = NoThread
    /\ page' = [w \in Windows |-> NoPage]
    /\ call' = [t \in Threads |-> Idle]
    /\ wiped' = FALSE
    /\ ran' = {}
    /\ UNCHANGED <<shell, storeVars>>

\* state.json is lost under a running process, or between two.
LoseState ==
    /\ StateLost
    /\ wiped' = (proc = "up")
    /\ UNCHANGED <<proc, shell, current, page_acked, reload_pending, gate,
                   page, call, ran>>

(***************************************************************************)
(* A window loads the app: its page comes from what is served, and the     *)
(* Started event of any webview ends the wait for a reload.                *)
(***************************************************************************)
\* Mutant: the page-load hook is not installed.
LoadKeepingPending(w) ==
    /\ page' = [page EXCEPT ![w] = current.active]
    /\ ran' = ran \cup {current.active}
    /\ UNCHANGED reload_pending

Load(w) ==
    /\ page' = [page EXCEPT ![w] = current.active]
    /\ ran' = ran \cup {current.active}
    /\ reload_pending' = FALSE

PageLoad(w) ==
    /\ proc = "up"
    /\ Load(w)
    /\ UNCHANGED <<proc, shell, current, page_acked, gate, call, wiped,
                   storeVars>>

\* The hook does not ask whose page starts to load.
RemoteLoad(w) ==
    /\ proc = "up"
    /\ w \in RemoteWindows
    /\ page' = [page EXCEPT ![w] = RemotePage]
    /\ reload_pending' = FALSE
    /\ UNCHANGED <<proc, shell, current, page_acked, gate, call, wiped, ran,
                   storeVars>>

(***************************************************************************)
(* notify_app_ready, called by a page, under the gate.  While a reload is  *)
(* pending it changes nothing at all.                                      *)
(***************************************************************************)
CanCall(t, command) ==
    /\ proc = "up"
    /\ command \in PageCalls
    /\ call[t] = Idle
    /\ \E w \in Windows : page[w] \in Pointer

AckBegin(t) ==
    /\ CanCall(t, "ack")
    /\ gate = NoThread
    /\ ~reload_pending
    /\ gate' = t
    /\ page_acked' = TRUE
    /\ call' = [call EXCEPT ![t] = [Idle EXCEPT !.pc = "ack",
                                                !.seq = current.active]]
    /\ UNCHANGED <<proc, shell, current, reload_pending, page, wiped, ran, storeVars>>

AckUpdate(t) ==
    LET acked == Ack(disk, call[t].seq)
    IN  /\ call[t].pc = "ack"
        /\ SaveState(acked.state)
        /\ call' = [call EXCEPT ![t].pc = "acked", ![t].effects = acked.effects]
        /\ UNCHANGED <<proc, shell, current, page_acked, reload_pending, gate,
                       page, wiped, ran, bundles>>

AckFail(t) ==
    /\ call[t].pc = "ack"
    /\ SaveFails
    /\ Return(t)
    /\ gate' = NoThread
    /\ UNCHANGED <<proc, shell, current, page_acked, reload_pending, page,
                   wiped, ran, bundles>>

AckReturn(t) ==
    /\ call[t].pc = "acked"
    /\ ApplyEffects(call[t].effects)
    /\ Return(t)
    /\ gate' = NoThread
    /\ UNCHANGED <<proc, shell, current, page_acked, reload_pending, page,
                   wiped, ran, disk>>

(***************************************************************************)
(* apply_staged.  Both the apply command and boot recovery run it, so its  *)
(* steps leave the gate and the recovery task's own state to the caller.   *)
(***************************************************************************)
applyFrame == <<proc, shell, page_acked, reload_pending, page, wiped, ran>>

\* The directories are listed before the state is locked and read.
ApplyEnter(t) ==
    call' = [call EXCEPT ![t] = [Idle EXCEPT !.pc = "apply", !.seen = Present]]

ApplyBegin(t) ==
    /\ CanCall(t, "apply")
    /\ ApplyEnter(t)
    /\ UNCHANGED <<proc, shell, current, page_acked, reload_pending, gate,
                   page, wiped, ran, storeVars>>

ApplyDecides(t, decision) ==
    /\ call[t].pc = "apply"
    /\ PromoteDecision(disk, shell, call[t].seen) = decision

ApplyArm(t) ==
    /\ ApplyDecides(t, "Applied")
    /\ SaveState(Arm(disk))
    /\ call' = [call EXCEPT ![t].pc = "armed", ![t].seq = disk.staged,
                            ![t].seen = {}]
    /\ UNCHANGED <<applyFrame, current, gate, bundles>>

\* Mutant: the version is the staged bundle's, wherever that pointer is by now.
ApplyVersionOfStaged(t) ==
    /\ call[t].pc = "armed"
    /\ call' = [call EXCEPT ![t].pc = "versioned",
                            ![t].version = VersionOf(disk, disk.staged, shell)]
    /\ UNCHANGED <<applyFrame, current, gate, storeVars>>

\* The state is read once more, without the lock, for the version to report.
ApplyVersion(t) ==
    /\ call[t].pc = "armed"
    /\ call' = [call EXCEPT ![t].pc = "versioned",
                            ![t].version = VersionOf(disk, call[t].seq, shell)]
    /\ UNCHANGED <<applyFrame, current, gate, storeVars>>

\* The write lock of `current` is granted, and serving switches.
ApplySwap(t) ==
    /\ call[t].pc = "versioned"
    /\ current' = [active |-> call[t].seq, version |-> call[t].version]
    /\ Return(t)
    /\ UNCHANGED <<applyFrame, storeVars>>

\* TrialPending and NothingStaged change nothing.
ApplyRefuse(t) ==
    /\ \/ ApplyDecides(t, "TrialPending")
       \/ ApplyDecides(t, "NothingStaged")
    /\ Return(t)
    /\ UNCHANGED <<applyFrame, current, storeVars>>

ApplyDiscard(t) ==
    LET dropped == Discard(disk, call[t].seen)
    IN  /\ ApplyDecides(t, "Discarded")
        /\ SaveState(dropped.state)
        /\ call' = [call EXCEPT ![t].pc = "discarded", ![t].seen = {},
                                ![t].effects = dropped.effects]
        /\ UNCHANGED <<applyFrame, current, gate, bundles>>

ApplyGC(t) ==
    /\ call[t].pc = "discarded"
    /\ ApplyEffects(call[t].effects)
    /\ Return(t)
    /\ UNCHANGED <<applyFrame, current, disk>>

ApplyFail(t) ==
    /\ call[t].pc = "apply"
    /\ SaveFails
    /\ Return(t)
    /\ UNCHANGED <<applyFrame, current, bundles>>

(***************************************************************************)
(* reset.  Its sweep of temp entries is Update!SweepTemp.                  *)
(***************************************************************************)
ResetBegin(t) ==
    /\ CanCall(t, "reset")
    /\ call' = [call EXCEPT ![t] = [Idle EXCEPT !.pc = "reset",
                                                !.seq = current.active]]
    /\ UNCHANGED <<proc, shell, current, page_acked, reload_pending, gate,
                   page, wiped, ran, storeVars>>

ResetUpdate(t) ==
    LET fresh == Reset(disk, shell, call[t].seq)
    IN  /\ call[t].pc = "reset"
        /\ SaveState(fresh.state)
        /\ call' = [call EXCEPT ![t].pc = "wiped",
                                ![t].effects = fresh.effects]
        /\ wiped' = TRUE
        /\ UNCHANGED <<proc, shell, current, page_acked, reload_pending, gate,
                       page, ran, bundles>>

ResetFail(t) ==
    /\ call[t].pc = "reset"
    /\ SaveFails
    /\ Return(t)
    /\ UNCHANGED <<proc, shell, current, page_acked, reload_pending, gate,
                   page, wiped, ran, bundles>>

ResetReturn(t) ==
    /\ call[t].pc = "wiped"
    /\ ApplyEffects(call[t].effects)
    /\ Return(t)
    /\ UNCHANGED <<proc, shell, current, page_acked, reload_pending, gate,
                   page, wiped, ran, disk>>
=============================================================================
