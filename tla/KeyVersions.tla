---------------------------- MODULE KeyVersions -----------------------------
(***************************************************************************)
(* The versions of a key, as entries <<key, version, deleted>>: what a     *)
(* compaction keeps of them, and what a reader sees of them.               *)
(***************************************************************************)
EXTENDS Integers

\* Mutant: every version at or below safeTS goes.
KeptBelowSafe(data, k, safeTS, hasOverlap) == {e \in data : e[1] = k /\ e[2] > safeTS}

\* The entries of a key that CompactTables adds to the builder: the versions above safeTS, and
\* the newest of the others unless it is a delete mark that nothing below needs.
Kept(data, k, safeTS, hasOverlap) ==
    LET versions == {e \in data : e[1] = k}
        newest(e) == \A f \in versions : f[2] <= safeTS => f[2] <= e[2]
    IN {e \in versions : e[2] > safeTS \/ (newest(e) /\ (~e[3] \/ hasOverlap))}

\* The newest entry of a key up to a version, as a set with at most one member.
Best(data, k, t) ==
    LET old == {e \in data : e[1] = k /\ e[2] <= t}
    IN {e \in old : \A f \in old : f[2] <= e[2]}

\* What the user sees of it: the version, or nothing.
Visible(found) == {e[2] : e \in {f \in found : ~f[3]}}
=============================================================================
