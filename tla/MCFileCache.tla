---------------------------- MODULE MCFileCache -----------------------------
(* Small instances of FileCache: a long and a short value.                 *)
EXTENDS FileCache, FiniteSets, TLC

CONSTANTS short, long

MCSize == [v \in Vals |-> IF v = long THEN 2 ELSE 1]

Symmetry == Permutations(Inodes)

\* Bound: two different envelopes are stored in one behaviour, any two of them.
TwoEnvelopes == Cardinality(begun) <= 2

\* What an unlinked and closed inode still holds is unreachable: OpenTmp empties
\* an inode before it is linked again, so two states that differ there only
\* have the same future.
Reachable == [i \in Inodes \ FreeInodes |-> content[i]]
View == <<now, dir, path, tmp, Reachable, pc, locals, result, history>>
=============================================================================
