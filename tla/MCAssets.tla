----------------------------- MODULE MCAssets ------------------------------
(* A small instance of Assets for TLC. *)
EXTENDS Assets

CONSTANTS h1, h2

Offer(version, hash) ==
    [meta |-> [version        |-> version,
               archive_sha256 |-> hash,
               base_version   |-> NoBase],
     min_shell_version |-> 1]

\* A fix (version 3) on top of a release (version 2).
ReleaseAndFix == {Offer(2, h1), Offer(3, h2)}

\* The release has a page that the fix, and the shell, do not; the shell has
\* a help page that no bundle has.
ReleaseHasPage ==
    [hash \in Hashes |-> IF hash = h1 THEN {"index", "page"} ELSE {"index"}]
=============================================================================
