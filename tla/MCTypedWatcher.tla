--------------------------- MODULE MCTypedWatcher ---------------------------
(* TypedWatcher on small instances.                                          *)
EXTENDS TypedWatcher
=============================================================================
