----------------------------- MODULE MCFileTools -----------------------------
(* An instance of FileTools for TLC.                                        *)
EXTENDS FileTools, TLC

CONSTANTS c1, c2, c3, l1, l2

Sym == Permutations(ToolCalls) \cup Permutations(LockObjects)
=============================================================================
