---------------------------- MODULE TrialHistory ---------------------------
(***************************************************************************)
(* HotUpdate with a history of the bundle on trial: how many times its     *)
(* trial was armed, by a launch or by apply.  The strike count in          *)
(* state.json must agree with what really happened, across crashes,        *)
(* commits, resets and the next bundle's trial.                            *)
(***************************************************************************)
EXTENDS HotUpdate

VARIABLE chances    \* armings of disk.booting since it became the trial

historyVars == <<vars, chances>>

HistoryInit == Init /\ chances = 0

MaxChances == 3     \* bound: chances stops counting here

\* `again` counts one more arming of the bundle that is on trial already.
Armed(again) ==
    chances' = IF disk'.booting = NoSeq THEN 0
               ELSE IF disk'.booting # disk.booting THEN 1
               ELSE IF chances = MaxChances THEN MaxChances
               ELSE chances + again

\* A launch arms what its resolved state has under `booting`, and serves it; if
\* that state could not be saved it serves the committed bundle instead.
HistoryNext ==
    \/ Launch /\ Armed(IF current'.active = disk'.booting THEN 1 ELSE 0)
    \/ LaunchCut /\ Armed(1)
    \/ Session /\ Armed(0)

HistorySpec == HistoryInit /\ [][HistoryNext]_historyVars

\* People quit the app and start it again.
RelaunchSpec ==
    /\ HistorySpec
    /\ WF_historyVars(Launch /\ HistoryNext)
    /\ SF_historyVars(Quit /\ HistoryNext)

\* The two-strike rule of machine.rs: the persisted strike count is one less
\* than the times the bundle was really armed, and never more than one; no
\* count leaks from one bundle's trial, or from a commit, into the next one.
TwoChances ==
    IF disk.booting = NoSeq THEN chances = 0
    ELSE chances = disk.booting_strikes + 1 /\ chances <= 2

\* A hash is blacklisted only at a launch, after its bundle was armed twice
\* and acked neither time, or because its directory is gone.
BlacklistTakesTwo ==
    [][disk'.failed \ disk.failed # {} =>
           /\ proc = "down"
           /\ chances = 2 \/ disk.booting \notin Present]_historyVars

\* No trial goes on for ever: a bundle under `booting` is committed, dropped
\* or blacklisted after finitely many launches, whether it ever acks or not.
TrialEnds == \A seq \in Seqs : disk.booting = seq ~> disk.booting # seq
=============================================================================
