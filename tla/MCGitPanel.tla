------------------------------ MODULE MCGitPanel ------------------------------
(* Two entries under one broad line, two threads of the backend.  Both are *)
(* directories: the steps of a file are among those of a directory.        *)
EXTENDS GitPanel, FiniteSets

CONSTANTS a, b, t1, t2

MCEntries == {a, b}
MCDirs == {a, b}
MCBroad == {{a, b}}
MCThreads == {t1, t2}
Symmetry == Permutations({a, b}) \cup Permutations({t1, t2})
=============================================================================
