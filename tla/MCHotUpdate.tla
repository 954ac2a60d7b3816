---------------------------- MODULE MCHotUpdate ----------------------------
(* Small instances of HotUpdate for TLC. *)
EXTENDS HotUpdate, TLC

CONSTANTS h1, h2

Offer(version, hash, base, min) ==
    [meta |-> [version        |-> version,
               archive_sha256 |-> hash,
               base_version   |-> base],
     min_shell_version |-> min]

\* A fix (version 3) on top of a release (version 2).
ReleaseAndFix == {Offer(2, h1, NoBase, 1), Offer(3, h2, NoBase, 1)}

\* One release, offered to the page and to recovery.
OneRelease == {Offer(3, h2, NoBase, 1)}

\* The fix is tied to the first shell.
BasedFix == {Offer(2, h1, NoBase, 1), Offer(3, h2, 1, 1)}

\* Threads that call the API are interchangeable.
CallerSymmetry == Permutations(Callers)
=============================================================================
