------------------------------- MODULE Semver ------------------------------
(***************************************************************************)
(* Versions as the code compares them.  `Ord` of the semver crate is a     *)
(* total order in which build metadata takes part; semver precedence,      *)
(* which the documentation speaks of, leaves it out.                       *)
(*                                                                         *)
(* A version is <<core, pre, build>>: `core` ranks major.minor.patch,      *)
(* `pre` ranks the prerelease tags of a core with Release above all of     *)
(* them, `build` ranks build metadata with 0 for none.                     *)
(***************************************************************************)
EXTENDS Integers

CONSTANT Release    \* no prerelease tag

ASSUME ReleaseAssumption == Release \in Nat

Semver == Nat \X (0..Release) \X Nat

Core(v)  == v[1]
Pre(v)   == v[2]
Build(v) == v[3]

\* Mutant of Precedes: prerelease tags are not looked at.
PrecedesByCore(a, b) == Core(a) < Core(b)

Precedes(a, b) ==
    \/ Core(a) < Core(b)
    \/ Core(a) = Core(b) /\ Pre(a) < Pre(b)

SamePrecedence(a, b) == Core(a) = Core(b) /\ Pre(a) = Pre(b)

\* Version::cmp, a < b.
Below(a, b) ==
    \/ Precedes(a, b)
    \/ SamePrecedence(a, b) /\ Build(a) < Build(b)

AtMost(a, b) == ~Below(b, a)
=============================================================================
