---------------------------- MODULE MCFileRestore ----------------------------
(* Instances of FileRestore for TLC: the configurations choose the bounds.  *)
EXTENDS FileRestore
=============================================================================
