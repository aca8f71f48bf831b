---------------------------- MODULE MCThreadSandbox ----------------------------
(* An instance of ThreadSandbox for TLC: two Runs of one Thread, the first  *)
(* of which calls bash twice, as a subagent beside its parent does.         *)
EXTENDS ThreadSandbox, TLC

CONSTANTS th1, r1, r2, c1, c2, c3, b1, b2

MCThreadOf == (r1 :> th1) @@ (r2 :> th1)
MCRunOf == (c1 :> r1) @@ (c2 :> r1) @@ (c3 :> r2)
=============================================================================
