---------------------------- MODULE AtomicRestore ----------------------------
(***************************************************************************)
(* What restoring a Thread promises: its files and its messages are put     *)
(* back together, in one step, to a state some restore point recorded, or   *)
(* nothing happens.  There are no directories, no journal and no failures   *)
(* here; module FileRestore implements it with all of them.                 *)
(*                                                                          *)
(* Every edit takes the next value of `clock`, so that a state nobody made  *)
(* (the files of one version with those of another, or with the messages of *)
(* another) cannot pass for an edit.                                        *)
(***************************************************************************)
EXTENDS Naturals, Sequences

CONSTANT Areas

VARIABLES files,     \* the version of each file area
          messages,  \* the version of the messages
          points,    \* the restore points, oldest first
          clock      \* the number of edits

vars == <<files, messages, points, clock>>

Here == [files |-> files, messages |-> messages]

Init ==
    /\ files = [a \in Areas |-> 0]
    /\ messages = 0
    /\ points = <<>>
    /\ clock = 0

WriteFile(a) ==
    /\ clock' = clock + 1
    /\ files' = [files EXCEPT ![a] = clock']
    /\ UNCHANGED <<messages, points>>

SaveState ==
    /\ clock' = clock + 1
    /\ messages' = clock'
    /\ UNCHANGED <<files, points>>

Record ==
    /\ points' = Append(points, Here)
    /\ UNCHANGED <<files, messages, clock>>

Restore(p) ==
    /\ files' = points[p].files
    /\ messages' = points[p].messages
    /\ UNCHANGED <<points, clock>>

Next ==
    \/ \E a \in Areas : WriteFile(a)
    \/ SaveState
    \/ Record
    \/ \E p \in DOMAIN points : Restore(p)

Spec == Init /\ [][Next]_vars
=============================================================================
