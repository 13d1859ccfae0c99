---------------------------- MODULE MCFxWatcher -----------------------------
(* FxWatcher on small instances.                                             *)
EXTENDS FxWatcher

\* Files are saved once beside the hooks, twice under a client.  (Nothing is
\* assumed of when a file is saved, so that fairness is as it was.)
SavedOnce == app = "none" \/ SumFunction(disk') <= 1
MCFairSpec == FxInit /\ [][FxNext /\ SavedOnce]_fxVars /\ FxFairness
=============================================================================
