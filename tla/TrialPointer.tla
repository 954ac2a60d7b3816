---------------------------- MODULE TrialPointer ---------------------------
(***************************************************************************)
(* What the rollback machinery promises of the bundles of one install,     *)
(* with no word of directories, saves, threads, strikes or processes: one  *)
(* bundle is good, one may be on trial with a number of chances, hashes    *)
(* are condemned for as long as the install remembers, and only what beats *)
(* every version seen so far is ever tried.                                *)
(***************************************************************************)
EXTENDS Integers

CONSTANTS
    Versions,   \* bundle and shell versions
    Hashes,     \* archive hashes
    Bundles,    \* records with a version and an archive_sha256
    Nobody      \* no bundle

VARIABLES
    good,       \* the bundle that has proved itself
    trial,      \* the bundle being tried
    chances,    \* launches it has left, this one included
    condemned,  \* hashes that are never tried again
    floor,      \* the highest version seen
    intact      \* input: which of "good", "trial" still has its files

vars == <<good, trial, chances, condemned, floor, intact>>

Init ==
    /\ good = Nobody
    /\ trial = Nobody
    /\ chances = 0
    /\ condemned = {}
    /\ floor = 0
    /\ intact \in SUBSET {"good", "trial"}

NoTrial == trial' = Nobody /\ chances' = 0

\* A new trial: above the floor, and not condemned.
NewTrial ==
    /\ trial' \in Bundles
    /\ trial'.version > floor'
    /\ trial'.archive_sha256 \notin condemned'
    /\ chances' = 2

\* In a running app, when nothing is on trial.
Arm ==
    /\ trial = Nobody
    /\ NewTrial
    /\ UNCHANGED <<good, condemned, floor>>

\* The bundle on trial came up.
Commit ==
    /\ trial # Nobody
    /\ good' = trial
    /\ floor' = trial.version
    /\ NoTrial
    /\ UNCHANGED condemned

\* A launch of a shell that embeds version `shell`.
Beats(bundle, shell) == bundle # Nobody /\ bundle.version > shell

KeepTrial(shell) ==
    /\ Beats(trial, shell)
    /\ "trial" \in intact
    /\ chances = 2
    /\ chances' = 1
    /\ UNCHANGED <<trial, condemned>>

EndTrial(shell) ==
    /\ trial # Nobody => \/ ~Beats(trial, shell)
                         \/ chances = 1
                         \/ "trial" \notin intact
    /\ condemned' = condemned \cup
           (IF Beats(trial, shell) THEN {trial.archive_sha256} ELSE {})
    /\ NoTrial \/ NewTrial

Boot(shell) ==
    /\ floor' = IF floor < shell THEN shell ELSE floor
    /\ good' = IF Beats(good, shell) /\ "good" \in intact THEN good ELSE Nobody
    /\ KeepTrial(shell) \/ EndTrial(shell)

\* reset, or the memory of the install is lost.
Forget ==
    /\ good' = Nobody
    /\ NoTrial
    /\ condemned' = {}
    /\ floor' \in Versions \cup {0}

Next ==
    /\ \/ Arm \/ Commit \/ Forget
       \/ \E shell \in Versions : Boot(shell)
       \/ UNCHANGED <<good, trial, chances, condemned, floor>>
    /\ intact' \in SUBSET {"good", "trial"}

Spec == Init /\ [][Next]_vars
=============================================================================
