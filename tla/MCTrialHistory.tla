-------------------------- MODULE MCTrialHistory ---------------------------
(* A small instance of TrialHistory for TLC. *)
EXTENDS TrialHistory

CONSTANTS h1, h2

Offer(version, hash) ==
    [meta |-> [version        |-> version,
               archive_sha256 |-> hash,
               base_version   |-> NoBase],
     min_shell_version |-> 1]

\* A fix (version 3) on top of a release (version 2).
ReleaseAndFix == {Offer(2, h1), Offer(3, h2)}
=============================================================================
