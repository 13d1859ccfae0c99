----------------------------- MODULE ConfigView -----------------------------
(* What a configx Watcher promises the readers of Config(): every source has *)
(* a current content, the reader holds a snapshot, and a snapshot only ever  *)
(* moves forward, to contents the sources really had.  Contents are version  *)
(* numbers: the n-th content a source was given is n.                        *)
EXTENDS Naturals

CONSTANT Sources    \* what a load reads: the config files

VARIABLES disk,     \* [Sources -> Nat] the content each source has now
          view      \* [Sources -> Nat] the content each had in the snapshot

vars == <<disk, view>>

Init == /\ disk = [s \in Sources |-> 0]
        /\ view = disk

\* Somebody saves source s.
Write(s) == /\ disk' = [disk EXCEPT ![s] = @ + 1]
            /\ UNCHANGED view

\* A snapshot replaces the previous one.  The sources are not read at one
\* instant, so it may mix contents of different moments, but none of them is
\* older than what the previous snapshot showed.
Publish == /\ view' \in [Sources -> Nat]
           /\ \A s \in Sources : view[s] <= view'[s] /\ view'[s] <= disk[s]
           /\ UNCHANGED disk

Next == Publish \/ \E s \in Sources : Write(s)

Spec == Init /\ [][Next]_vars
=============================================================================
