----------------------------- MODULE MCMemorySave -----------------------------
(* An instance of MemorySave for TLC: two tasks of one Thread update the    *)
(* same memory.                                                             *)
EXTENDS MemorySave, TLC

CONSTANTS t1, t2, o1, o2, m1, th1

MCThreadOf == (t1 :> th1) @@ (t2 :> th1)
MCTaskOf == (o1 :> t1) @@ (o2 :> t2)
MCTarget == (o1 :> m1) @@ (o2 :> m1)
=============================================================================
