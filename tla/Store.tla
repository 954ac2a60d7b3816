------------------------------- MODULE Store -------------------------------
(***************************************************************************)
(* The hot-update/ directory of src/store.rs: state.json, which is written *)
(* atomically, and the bundles/seq-<N> directories next to it.             *)
(*                                                                         *)
(* A directory is described by the bundle that was extracted into it and   *)
(* by whether all of that bundle is there.  Temp files and directories of  *)
(* the pipeline are part of module Update's jobs.                          *)
(***************************************************************************)
EXTENDS Machine

CONSTANT
    Faults      \* which faults of the platform the instance has

FaultKinds == {"save",        \* save_state returns an error
               "delete",      \* a delete fails and leaves the directory
               "state_lost",  \* state.json is deleted, corrupt or unreadable
               "dir_lost",    \* a bundle directory disappears
               "read",        \* a file that is there cannot be read
               "reload"}      \* a webview does not reload when asked to

ASSUME FaultsAssumption == Faults \subseteq FaultKinds

VARIABLES
    disk,       \* the State in state.json
    bundles     \* seq -> what bundles/seq-<N> holds

storeVars == <<disk, bundles>>

Bundle == [meta : BundleMeta, whole : BOOLEAN]

ASSUME AbsentBundleAssumption == Absent \notin Bundle

StoreTypeOK ==
    /\ disk \in State
    /\ bundles \in [Seqs -> Bundle \cup {Absent}]

StoreInit ==
    /\ disk = Default
    /\ bundles = [seq \in Seqs |-> Absent]

\* present_seqs
Present == {seq \in Seqs : bundles[seq] # Absent}

\* allocate_seq: one above everything on disk and in the state.
AllocateSeq(seq) ==
    LET used == Present \cup Referenced(disk) \cup Recorded(disk)
    IN  /\ \A u \in used : u < seq
        /\ seq = 1 \/ seq - 1 \in used

\* apply_effects: each delete is best effort.
ApplyEffects(effects) ==
    \E gone \in IF "delete" \in Faults THEN SUBSET effects ELSE {effects} :
        bundles' = [seq \in Seqs |->
                        IF seq \in gone THEN Absent ELSE bundles[seq]]

SaveState(st) == disk' = st

SaveFails == "save" \in Faults /\ UNCHANGED disk

\* The next load_state finds no readable state.json and starts afresh.
StateLost ==
    /\ "state_lost" \in Faults
    /\ disk # Default
    /\ disk' = Default
    /\ UNCHANGED bundles

DirLost(seq) ==
    /\ "dir_lost" \in Faults
    /\ seq \in Present
    /\ bundles' = [bundles EXCEPT ![seq] = Absent]
    /\ UNCHANGED disk
=============================================================================
