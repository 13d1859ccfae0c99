------------------------------ MODULE MCWatcher ------------------------------
(* Watcher for TLC: its configurations give the constants, and no step or    *)
(* property of it needs a definition of its own.                             *)
EXTENDS Watcher
=============================================================================
